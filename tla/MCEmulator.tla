----------------------------- MODULE MCEmulator -----------------------------
(***************************************************************************)
(* A small machine: two-valued bytes, a frame of a few cycles, a screen of  *)
(* two lines, and programs that store a few values in each register.        *)
(***************************************************************************)
EXTENDS Emulator

MCPeriod     == [s \in 0 .. 3 |-> 2]
MCTmcWrites  == {[enabled |-> TRUE, select |-> 0]}
MCStatWrites == {[mode |-> 0, flags |-> {}]}
MCIeWrites   == {{"VBLANK", "TIMER"}}
=============================================================================
