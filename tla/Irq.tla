-------------------------------- MODULE Irq --------------------------------
(***************************************************************************)
(* The interrupt-request word of the emulated machine, g_irq_pending.      *)
(* A bit of the word is an element of a set, a mask is a set of bits.      *)
(* add_irq answers "Already requested, just get out" as soon as ONE bit of *)
(* the mask is already pending, so the other bits of that mask are not     *)
(* added; every module that raises interrupts uses these two operators.    *)
(***************************************************************************)

add_irq(pending, mask) ==
  IF pending \cap mask # {} THEN pending ELSE pending \cup mask

remove_irq(pending, mask) == pending \ mask
=============================================================================
