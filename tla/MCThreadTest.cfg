SPECIFICATION FairSpec
CONSTANTS
  NoThread = NoThread
  Poster = {t1, t2, t3}
  Message = {m1, m2}
  Fresh = {0}
  MaxSends = 3
  MaxReceives = 3
  w1 = w1
  w2 = w2
  w3 = w3
  w4 = w4
  w5 = w5
  w6 = w6
  Caller = {w1, w2, w3, w4, w5, w6}
  RoleOf <- RoleOfDef
  MaxCalls = 3
  Joinee = {j1, j2}
  Joiner = {k1, k2, k3}
  FreshBool = {TRUE, FALSE}
INVARIANTS
  TypeOK
  EachReceivedOnce
  MessageHasReceiver
  MatesInThrees
  JoinWaitsForFinish
  JoineeOutlivesJoin
PROPERTIES
  MessageTaken
  TriosGetThrough
CHECK_DEADLOCK FALSE
