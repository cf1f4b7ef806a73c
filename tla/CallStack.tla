------------------------------- MODULE CallStack -------------------------------
(***************************************************************************)
(* What the stack of the machine promises a program: a word pushed is the   *)
(* word popped, a call or an interrupt leaves the address execution goes on *)
(* at, and a return goes there.  stack holds the words nothing has          *)
(* overwritten since, the newest first; the program may lose some of them   *)
(* by storing over them or all of them by moving the stack pointer.          *)
(***************************************************************************)
EXTENDS Integers, Sequences

CONSTANTS
  Word,         (* addresses and other 16-bit values                        *)
  CallLengths,  (* lengths of the instructions that call: CALL and RST      *)
  Vectors       (* where handlers start                                     *)

VARIABLES pc, stack

vars == <<pc, stack>>

Init == pc \in Word /\ stack = <<>>

After(length) == (pc + length) % 65536

(* What is left of s once a word with k words above it is overwritten.       *)
Tops(s) == {SubSeq(s, 1, k) : k \in 0 .. Len(s)}

(* There may be no memory where the stack pointer is: then all is lost.      *)
Pushed(s, word) == {<<word>> \o s, <<>>}

Jump == pc' \in Word /\ UNCHANGED stack

PushWord ==
  /\ pc' = After(1)
  /\ \/ stack' = <<>>
     \/ stack' # <<>> /\ Head(stack') \in Word /\ Tail(stack') = stack

PopWord ==
  /\ pc' = After(1)
  /\ stack' = IF stack = <<>> THEN <<>> ELSE Tail(stack)

Call ==
  /\ pc' \in Word
  /\ \E length \in CallLengths : stack' \in Pushed(stack, After(length))

Return ==
  /\ IF stack = <<>> THEN pc' \in Word /\ stack' = <<>>
     ELSE pc' = Head(stack) /\ stack' = Tail(stack)

(* Clearing the request may itself be a store into the stack.                *)
Interrupted ==
  /\ pc' \in Vectors
  /\ \E s \in Tops(stack) : stack' \in Pushed(s, pc)

(* A store, by the program or by a device's interrupt request, or a new      *)
(* stack pointer.  Neither is a jump.                                         *)
Overwrite == pc' \in {pc} \cup {After(n) : n \in 1 .. 3} /\ stack' \in Tops(stack)

Next == Jump \/ PushWord \/ PopWord \/ Call \/ Return \/ Interrupted \/ Overwrite

Spec == Init /\ [][Next]_vars
===============================================================================
