SPECIFICATION FairSpec
CONSTANTS
  NoThread = NoThread
  m1 = m1
  c1 = c1
  c2 = c2
  c3 = c3
  Machine = {m1}
  Client = {c1, c2, c3}
  HomeOf <- HomeOfDef
  Box = {0}
  NoPacket = NoPacket
  MaxSends = 2
  MaxReceives = 2
  Char = {a, q}
  Quit = q
  EOF = EOF
  MaxTyped = 4
  WordBits = 8
  Registers = {0, 1, 2, 31}
  NumPages = 3
  PageSize = 4
  NumPhysPages = 4
  Image <- ImageDef
  Operands = {127, 128, 255}
  Immediates <- ImmediatesDef
  Shifts = {1}
  Targets = {1}
  Rs = {1}
  Rt = {2}
  Rd = {1}
  MaxSteps = 2
INVARIANTS
  TypeOK
  MailInOrder
  OneSend
  NoMailForgotten
  EchoInOrder
  ExactArithmetic
PROPERTIES
  MailArrives
  AllEchoed
  PreciseTraps
CHECK_DEADLOCK FALSE
