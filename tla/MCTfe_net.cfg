CONSTANTS
  Hosts <- MCHosts
  Frames <- MCFrames
  Stray = {0, 170}
  NoName = NoName
  MaxWire = 2
  MaxSent = 1
  Foci = {"send","skip","receive","filter","fail","reset","again"}
  MaxBytes = 6
SPECIFICATION MCSpec
CHECK_DEADLOCK FALSE
INVARIANTS FramesFit
PROPERTIES Promise TakesWanted
