SPECIFICATION TimeSpec
CONSTANTS
  hz60 = hz60
  doc = doc
  scan = scan
  MAX_EVENTS = 4
  EV_60HZ = hz60
  Device = {doc, scan}
  Removable = {doc}
  MayBeLate = {scan}
  Period = 5
  MaxDelay = 3
  MaxInstr = 2
  LINES = 3
  VBL_LINE = 2
  FRAME = 4
  QUARTER = 2
  SECOND = 2
  ScreenRows = 3
  RowLines = 3
  MixedLine = 3
  BorderLine = 6
  Chunks = 2
  FlashPeriod = 2
  MaxSwitches = 2
  MaxPages = 3
INVARIANTS ListIsSound EventsFit C023Irq ScreenIsCurrent
PROPERTIES TimersInOrder TicksComeAgain ScanOnLine
