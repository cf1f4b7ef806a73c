------------------------------- MODULE MCJoypad -------------------------------
(***************************************************************************)
(* Small instances of Joypad: two keys of each group, one of them under the *)
(* mask of input_read, and stores that select none, one or both groups,      *)
(* with and without bits below.                                              *)
(***************************************************************************)
EXTENDS Joypad

MCKeys == {DPAD, SELECT} \X {A_RIGHT, B_LEFT}
MCJoypadWrites ==
  {{}, {DPAD}, {SELECT}, {DPAD, SELECT}, {DPAD} \cup KeyBits, {SELECT} \cup KeyBits}
===============================================================================
