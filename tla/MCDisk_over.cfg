CONSTANTS
  AuxLen = 1
  Sectors525 = 1
  Sync525 <- MCSync
  Groups35 = 1
  Tags35 = 1
  Sync35 <- MCSync
  Garbage = {0}
  Units = 3
  Tracks525 <- MCTracks525
  Cylinders35 = 2
  Sectors35 <- MCSectors35
  ZoneTracks = 2
  NibLen525 = 42
  SectorNibs35 = 52
  Images <- MCImages
  MotorDelay = 1
  SlowWrite = 64
  MaxElapsed = 200
  BlockBytes = 2
  Zero <- MCZero
  BramLen = 64
  BootByte = 40
  MarkByte = 59
  HostTimes <- MCHostTimes
  ClockAge = 2
  Foci = {"over"}
  MaxWrites = 1
SPECIFICATION Spec
CHECK_DEADLOCK FALSE
PROPERTY DirtyGoesToTheFile
