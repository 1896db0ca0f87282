SPECIFICATION SerialSpec
CONSTANTS
  byteA = byteA
  byteB = byteB
  Byte = {byteA, byteB}
  Frame <- Packets
  SCC_INBUF_SIZE = 8
  SCC_OUTBUF_SIZE = 4
  SerialType <- LinkType
  Warm = {}
  g_appletalk_bridging = TRUE
  bridge_initialized = TRUE
  UsedPorts = {0}
  OutByte = {}
  Regs = {1, 3, 4, 5}
  Commands = {0, 4, 6}
  Wr1 <- LinkWr1
  Wr9 <- LinkWr9
  Wr14 <- LinkWr14
  FastClock = {FALSE}
  MaxBurst = 0
  g_serial_modem = TRUE
  MaxLine = 2
  OutSize = 10
  Rings = 2
  Late = {FALSE, TRUE}
  Fault = {"none", "socket", "bind", "lookup", "connect", "accept", "fcntl", "send"}
  Typed = {"at", "a", "d", "h", "cr", "z", "s0=2", "bs"}
  Says <- MSays
  Asks = {1, 34}
  MaxWire = 3
  MaxOut = 1
  Foci = {"link", "calls", "escape", "telnet"}
INVARIANTS PacketsKeepApart LineIsWhole SidesAgree
PROPERTIES RingingEnds
