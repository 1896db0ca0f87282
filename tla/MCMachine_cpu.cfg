SPECIFICATION MachineSpec
CONSTANTS
  InitCpu <- MCInitCpu
  IrqInRam = FALSE
  Bursts = {1, 2}
  Focus = {"screen", "cards"}
  Slots = {"c3", "c7"}
  SmartPort = "c7"
  Page2Shadow = TRUE
INVARIANTS
  EngineShape
  InterruptsAreSeen
  OperandsFit
  StackRoundTrip
  InterruptsLeaveNoTrace
  AdderIsRight
  TablesAreRight
