--------------------------------- MODULE MCCpu ---------------------------------
(***************************************************************************)
(* Programs for Cpu: one instruction of each opcode, and a few instructions *)
(* that use the stack, repeated in any order under interrupts.               *)
(***************************************************************************)
EXTENDS Cpu

(* The top of high RAM with IE behind it, and the registers around IF.       *)
MCRam == (\hFFF8 .. \hFFFF) \cup (\hFF0D .. \hFF10)

(* Each opcode with operand bytes that are small, negative and in Ram.       *)
EveryOpcode ==
  {<<byte, operand, \hFF>> : byte \in Byte \ {Prefix}, operand \in {\h05, \hFD}}
  \cup {<<Prefix, byte, 0>> : byte \in Byte}

OneOfEach == [code |-> EveryOpcode, at |-> {\h100}, sp |-> {\hFFFE}, requests |-> {}]

StackCode ==
  {<<\hC5, 0, 0>>,         (* PUSH BC *)
   <<\hF1, 0, 0>>,         (* POP AF *)
   <<\hCD, 0, 1>>,         (* CALL 0x100 *)
   <<\hC4, 3, 1>>,         (* CALL NZ, 0x103 *)
   <<\hC9, 0, 0>>,         (* RET *)
   <<\hD8, 0, 0>>,         (* RET C *)
   <<\hD9, 0, 0>>,         (* RETI *)
   <<\hCF, 0, 0>>,         (* RST 0x08 *)
   <<\h31, \h11, \hFF>>,   (* LD SP, 0xFF11 *)
   <<\hE0, \hFF, 0>>,      (* LD (0xFFFF), A *)
   <<\hFB, 0, 0>>,         (* EI *)
   <<\h76, 0, 0>>}         (* HALT *)

Nested ==
  [code |-> StackCode, at |-> {\h100, \h101, \h103, 8, \h40},
   sp |-> {\hFFFE, \hFFFC, \hFFFA, \hFF11, \hFF10, \hFF0F}, requests |-> {0}]

MCPrograms == {OneOfEach, Nested}
===============================================================================
