SPECIFICATION SerialSpec
CONSTANTS
  byteA = byteA
  byteB = byteB
  Byte = {byteA, byteB}
  Frame <- Packets
  SCC_INBUF_SIZE = 8
  SCC_OUTBUF_SIZE = 4
  SerialType <- LinkType
  Warm = {}
  g_appletalk_bridging = TRUE
  bridge_initialized = TRUE
  UsedPorts = {0}
  OutByte = {}
  Regs = {1, 3, 4, 5}
  Commands = {0, 4, 6}
  Wr1 <- LinkWr1
  Wr9 <- LinkWr9
  Wr14 <- LinkWr14
  FastClock = {FALSE}
  MaxBurst = 0
  g_serial_modem = FALSE
  MaxLine = 2
  OutSize = 10
  Rings = 2
  Late = {FALSE}
  Fault = {"none"}
  Typed = {"x"}
  Says <- SlcSays
  Asks = {1}
  MaxWire = 9
  MaxOut = 1
  Foci = {"telnet"}
INVARIANT EndIsSeen
