------------------------------- MODULE MCTimer -------------------------------
(***************************************************************************)
(* Small instances of Timer.  The periods keep the order of the code's      *)
(* 256, 4, 16, 64: select = 1 is shorter than the longest instruction, the  *)
(* three others are not.  At that rate timer_ctr grows until it wraps.       *)
(***************************************************************************)
EXTENDS Timer

MCPeriod == [s \in 0 .. 3 |-> CASE s = 0 -> 7 [] s = 1 -> 2 [] s = 2 -> 4 [] s = 3 -> 5]
==============================================================================
