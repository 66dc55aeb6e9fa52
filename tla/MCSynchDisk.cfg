SPECIFICATION FairSpec
CONSTANTS
  Thread = {t1, t2, t3}
  NoThread = NoThread
  Sector = {0, 1}
  Data = {a, b}
INVARIANTS
  TypeOK
  OneRequest
  NothingBetween
PROPERTIES
  ImplementsAtomicDisk
  RequestReturns
