SPECIFICATION FocusSpec
CONSTANTS
  Focus = {"controls"}
  Plain = {0}
  Address = {2, 3}
  g_rom_version = 3
  MAX_ADB_KBD_REG3 = 3
  MAX_KBD_BUF = 2
  PatientReads = 1
  X = {1}
  Y = {0}
  Center <- Middle
  MaxDelta = 1
  ADB_MOUSE_FIFO = 4
  Ages = FALSE
  MaxLag = 0
PROPERTY TalkInOrder
