SPECIFICATION FairSpec
CONSTANTS
  Joinee = {j1}
  Joiner = {t1}
  NoThread = NoThread
  FreshBool = {FALSE}
PROPERTIES
  JoinReturnsAtLast
CHECK_DEADLOCK FALSE
