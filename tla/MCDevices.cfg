SPECIFICATION Spec
CONSTANTS
  UserTick = 1
  SystemTick = 2
  TimerTicks = 2
  PollTime = 4
  RotationTime = 3
  SeekTime = 4
  SectorsPerTrack = 3
  NumTracks = 2
  MaxTime = 28
  MaxThreads = 2
INVARIANT InterruptsOnTime
PROPERTY RightSector
CHECK_DEADLOCK FALSE
