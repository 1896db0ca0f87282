----------------------------- MODULE MCMachine -----------------------------
(***************************************************************************)
(* The processor and its memory map, for TLC.  A behaviour runs a program  *)
(* of MCEngine or works at length on the switches of one focus of MCMemMap.*)
(***************************************************************************)
EXTENDS MCEngine, MCMemMap

machineVars == <<vars, map, focus>>

\* The processor while the switches are looked at, and the map, which is not
\* used, while a program runs.
AtRest == CHOOSE s \in Interrupted : TRUE
NoMap == << >>

MachineInit ==
  /\ irq = FALSE /\ wait = FALSE /\ stp = FALSE /\ inside = FALSE /\ stop = FALSE
  /\ focus \in Focus \cup {"cpu"} /\ map = IF focus = "cpu" THEN NoMap ELSE PowerOn
  /\ \E s \in InitCpu : cpu = s.cpu /\ mem = s.mem /\ left = s.left /\ (focus # "cpu" => s = AtRest)

MachineNext ==
  /\ UNCHANGED focus
  /\ \/ focus = "cpu" /\ Next /\ UNCHANGED map
     \/ focus # "cpu" /\ MapStep /\ UNCHANGED vars

MachineSpec == MachineInit /\ [][MachineNext]_machineVars

\* The page tables are what a computation from nothing gives, and bank 0 shows
\* auxiliary memory as bank 1 does: after every order of switches, breakpoints
\* and resets (the fixup_ routines of moremem.c).
TablesAreRight == focus # "cpu" => MapTypeOK /\ TablesFollowSwitches /\ AuxIsBank1

\* The engine leaves nothing undone: no instruction runs over an interrupt that
\* is allowed, and while the processor waits it is still at its WAI.
InterruptsAreSeen == NoInstrOverIrq /\ WaitsAtWai

\* An interrupt leaves no trace: not between two instructions, not at a WAI, not
\* after any byte of a block move.
InterruptsLeaveNoTrace == InterruptIsTransparent /\ BlockMoveResumes
=============================================================================
