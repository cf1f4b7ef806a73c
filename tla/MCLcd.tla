-------------------------------- MODULE MCLcd --------------------------------
(***************************************************************************)
(* Small instances of Lcd: a few short lines, every phase of a line and     *)
(* every kind of line reachable.                                            *)
(***************************************************************************)
EXTENDS Lcd

(* All interrupts enabled, and one enable at a time. *)
MCStatWrites ==
  {[mode |-> 0, flags |-> f] :
     f \in {{"H_BLANK_INT"}, {"V_BLANK_INT"}, {"SEARCHING_INT"}, {"LYC_LY_EQ_INT"},
            {"H_BLANK_INT", "V_BLANK_INT", "SEARCHING_INT", "LYC_LY_EQ_INT"}}}
==============================================================================
