CONSTANTS
  NoThread = NoThread
  NoObject = NoObject
  Main = main
  Thread = {main, t1, t2}
  Sem = {s}
  Lock = {l}
  Cond = {c}
  Priority = {0}
  TimeSlicing = TRUE
  MaxSem = 1
SPECIFICATION Spec
INVARIANT FinishedWillBeDeleted
