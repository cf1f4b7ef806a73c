---------------------------- MODULE MCInterrupts ----------------------------
(***************************************************************************)
(* Small instances of Interrupts: the program stores a few values in IE and *)
(* IF, chosen so that the priorities, the unused bits and a disabled        *)
(* request all occur.                                                       *)
(***************************************************************************)
EXTENDS Interrupts

MCIeWrites  == {{}, {"VBLANK", "TIMER"}, {"STAT", "TIMER", "JOYPAD"}, {"UNUSED"}}
MCIrrWrites == {{}, {"TIMER", "UNUSED"}}
=============================================================================
