SPECIFICATION ChipSpec
CONSTANTS
  a = a
  b = b
  Byte = {a, b}
  Frame <- NoFrames
  SCC_INBUF_SIZE = 2
  SCC_OUTBUF_SIZE = 2
  SerialType <- SocketPorts
  g_appletalk_bridging = FALSE
  bridge_initialized = FALSE
  UsedPorts = {0}
  OutByte = {a}
  Warm = {}
  Regs = {1, 2, 8, 9, 14, 15}
  Commands = {0, 1, 2, 7}
  Wr1 <- TxRxWr1
  Wr9 <- AllWr9
  Wr14 <- BrWr14
  FastClock = {FALSE}
  MaxBurst = 0
INVARIANTS EventsMatch NeverStuck RxIntHasData IrqLine
PROPERTIES BytesInOrder ByteReachesFifo TransmitterFrees
