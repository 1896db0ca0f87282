SPECIFICATION FocusSpec
CONSTANTS
  Focus = {"controls", "types", "chords", "mouse"}
  Plain = {0}
  Address = {2, 3}
  g_rom_version = 3
  MAX_ADB_KBD_REG3 = 2
  MAX_KBD_BUF = 3
  PatientReads = 1
  X = {0, 1, 2}
  Y = {0, 1}
  Center <- Middle
  MaxDelta = 1
  ADB_MOUSE_FIFO = 3
  Ages = TRUE
  MaxLag = 2
INVARIANTS KeysAreOffered
PROPERTIES InterruptsAreTrue TypedInOrder FlagWhileBehind
