-------------------------------- MODULE MCAlu --------------------------------
(***************************************************************************)
(* AluProgram with every accumulator and every combination of flags, and    *)
(* operands at the edges of digits, signs and bytes.                         *)
(***************************************************************************)
EXTENDS AluProgram

(* The digits that carry, borrow, adjust or change the sign. *)
MCOperands == {16 * high + low : high \in {0, 1, 4, 7, 8, 9, 15}, low \in {0, 1, 5, 9, 15}}
===============================================================================
