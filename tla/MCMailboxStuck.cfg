SPECIFICATION Spec
CONSTANTS
  Thread = {t1, t2, t3, t4}
  NoThread = NoThread
  Message = {m1}
  Fresh = {0}
  MaxSends = 2
  MaxReceives = 2
SYMMETRY Symmetry
INVARIANTS
  SenderWaitsOnlyForReceiver
CHECK_DEADLOCK FALSE
