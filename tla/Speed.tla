------------------------------- MODULE Speed -------------------------------
(***************************************************************************)
(* How fast the engine is told to run (run_prog in sim65816.c).  The speed *)
(* is worked out before each run of the engine from switches that the      *)
(* program, the disk and the user change; a handler that changes it from   *)
(* within a run must raise HALT_EVENT, on which the engine comes back.     *)
(***************************************************************************)
EXTENDS Iwm

VARIABLES speed,  \* c036, the ZipGS registers c059 .. c05b and their lock, g_limit_speed
          run     \* inside: the engine runs; mult: what it was told; follow: c059 then
speedVars == <<speed, run>>

\* The limits the user goes through, 0 .. 3: none, 1 MHz, 2.8 MHz, 8 MHz.
ZipOn == 4   \* writes of 5x to c05a that open the ZipGS registers

\* g_limit_speed and the registers with their values of reset.
speed_reset(limit) ==
  [fast |-> TRUE, detect |-> 0, follow |-> TRUE, zip |-> 0, zip_en |-> TRUE, unlock |-> 0,
   limit |-> limit]

\* The multiplier run_prog hands to the engine.
SpeedOf(m, s) ==
  LET fast == s.fast \/ (s.zip_en /\ ~s.follow)
      iwm_1 == /\ m.emul.motor /\ ~Sel35(m) /\ BitOf(s.detect, 2) = 1
               /\ (m.emul.slow \/ ~m.emul.fast)
      iwm_25 == m.emul.motor /\ Sel35(m) /\ ~m.emul.fast
      faster_than_28 == fast /\ ~iwm_1 /\ ~iwm_25 /\ s.zip_en /\ s.limit \in {0, 3}
      zip_speed == faster_than_28 /\ (s.zip # 0 \/ s.limit = 3 \/ s.unlock >= ZipOn)
  IN  CASE s.limit = 0 /\ faster_than_28 -> "unlimited"
        [] s.limit # 0 /\ zip_speed -> "zip"
        [] ~(s.limit = 0 /\ faster_than_28) /\ ~zip_speed /\ fast /\ ~iwm_1 /\ s.limit # 1 -> "fast"
        [] OTHER -> "slow"

-----------------------------------------------------------------------------
(* One turn of run_prog's loop.                                            *)

EnterEngine ==
  /\ ~gone /\ ~run.inside
  /\ run' = [inside |-> TRUE, mult |-> SpeedOf(Machine, speed), follow |-> speed.follow]
  /\ UNCHANGED <<iwmVars, speed>>
\* The engine comes back when it must and whenever an event is due.
LeaveEngine ==
  /\ ~gone /\ run.inside
  /\ run' = [run EXCEPT !.inside = FALSE]
  /\ halt' = FALSE
  /\ UNCHANGED <<iwm, emul, c031, drv, files, gone, bus, speed>>

\* What the program does happens inside the engine, the rest between two runs.
Guest(action) == run.inside /\ action /\ UNCHANGED speedVars
Between(action) == ~run.inside /\ action /\ UNCHANGED speedVars

Switch(s, raise) ==
  /\ run.inside /\ ~gone
  /\ speed' = s
  /\ halt' = (halt \/ raise)
  /\ UNCHANGED <<iwm, emul, c031, drv, files, gone, bus, run>>

\* c036: bit 7 is fast, the low bits slow the engine for a slot's motor.
WriteC036(fast, detect) ==
  Switch([speed EXCEPT !.fast = fast, !.detect = detect],
         fast # speed.fast \/ detect # speed.detect)

\* c05a: four writes of 5x open the registers, Ax closes them, others disable.
WriteC05a(high) ==
  CASE high = 5 -> Switch([speed EXCEPT !.unlock = IF @ < ZipOn THEN @ + 1 ELSE @], FALSE)
    [] high = 10 -> Switch([speed EXCEPT !.unlock = 0], FALSE)
    [] high \notin {5, 10} ->
         Switch([speed EXCEPT !.zip_en = @ /\ speed.unlock < ZipOn],
                speed.unlock >= ZipOn /\ speed.zip_en)
WriteC05b ==
  /\ speed.unlock >= ZipOn
  /\ Switch([speed EXCEPT !.zip_en = TRUE], ~speed.zip_en)
WriteC05d(high) ==
  /\ speed.unlock >= ZipOn
  /\ Switch([speed EXCEPT !.zip = high], high # speed.zip /\ speed.zip_en)
\* c058 and c059: whether the Zip follows c036.
WriteC059(follow) ==
  /\ speed.unlock >= ZipOn
  /\ Switch([speed EXCEPT !.follow = follow], FALSE)

\* adb_increment_speed, from the keyboard.
adb_increment_speed ==
  /\ ~run.inside /\ ~gone
  /\ speed' = [speed EXCEPT !.limit = IF @ = 3 THEN 0 ELSE @ + 1]
  /\ UNCHANGED <<iwmVars, run>>
=============================================================================
