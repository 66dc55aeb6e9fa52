CONSTANTS
  NoThread = NoThread
  NoObject = NoObject
  Main = main
  Thread = {main, t1, t2}
  Sem = {}
  Lock = {}
  Cond = {}
  Priority = {0, 1}
  TimeSlicing = TRUE
  MaxSem = 1
SPECIFICATION FairSpec
PROPERTY EventuallyScheduled
