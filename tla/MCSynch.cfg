CONSTANTS
  NoThread = NoThread
  NoObject = NoObject
  Main = main
  Thread = {main, t1, t2}
  Sem = {s}
  Lock = {l}
  Cond = {c}
  Priority = {0, 1}
  TimeSlicing = TRUE
  MaxSem = 2
SPECIFICATION Spec
INVARIANTS TypeOK ThreadPlacement CallDiscipline CarcassIsDead MutualExclusion LockNoLostWakeup SemaphoreNoLostWakeup
PROPERTIES ImplementsMonitor DeletedForGood
SYMMETRY Symmetry
