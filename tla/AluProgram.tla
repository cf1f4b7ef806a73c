------------------------------ MODULE AluProgram ------------------------------
(***************************************************************************)
(* A program that does arithmetic on the accumulator: the register a, one   *)
(* operand b and the flags, as the instructions of Alu leave them one after *)
(* the other.  Each property is about what two instructions in a row do     *)
(* from any registers such a program can have.                               *)
(***************************************************************************)
EXTENDS Alu

CONSTANT Operands       (* bytes the program loads                          *)

ASSUME OperandsAssumption == Operands \subseteq Byte

VARIABLES
  a,                     (* regs.a                                           *)
  b,                     (* the second operand, regs.b                       *)
  flags                  (* regs.f                                           *)

vars == <<a, b, flags>>

(* regs = { .af = 0x1180, .bc = 0x0000, ... } *)
Init ==
  /\ a = 17
  /\ b = 0
  /\ flags = [z |-> TRUE, n |-> FALSE, h |-> FALSE, c |-> FALSE]

------------------------------------------------------------------------------
Load == \E x \in Operands : \/ a' = x /\ UNCHANGED <<b, flags>>
                            \/ b' = x /\ UNCHANGED <<a, flags>>

(* POP AF: any flags, "data & 0xFFF0". *)
PopFlags == flags' \in Flags /\ UNCHANGED <<a, b>>

Becomes(out) == a' = out.r /\ flags' = out.f /\ UNCHANGED b

Arithmetic ==
  \/ Becomes(cpu_add(a, b, flags))
  \/ Becomes(cpu_adc(a, b, flags))
  \/ Becomes(cpu_sub(a, b, flags))
  \/ Becomes(cpu_sbc(a, b, flags))
  \/ Becomes(cpu_cp(a, b, flags))
  \/ Becomes(cpu_inc(a, flags))
  \/ Becomes(cpu_dec(a, flags))
  \/ Becomes(cpu_daa(a, flags))

Logic ==
  \/ Becomes(cpu_and(a, b, flags))
  \/ Becomes(cpu_or(a, b, flags))
  \/ Becomes(cpu_xor(a, b, flags))
  \/ Becomes(cpu_cpl(a, flags))
  \/ Becomes(cpu_scf(a, flags))
  \/ Becomes(cpu_ccf(a, flags))
  \/ \E i \in {0, 7} : \/ Becomes(cpu_bit(i, a, flags))
                        \/ Becomes(cpu_res(i, a, flags))
                        \/ Becomes(cpu_set(i, a, flags))

Shift ==
  \/ \E out \in {cpu_rlc(a, flags), cpu_rrc(a, flags), cpu_rl(a, flags), cpu_rr(a, flags)} :
       Becomes(out) \/ Becomes(ZeroCleared(out))
  \/ Becomes(cpu_sla(a, flags))
  \/ Becomes(cpu_sra(a, flags))
  \/ Becomes(cpu_srl(a, flags))
  \/ Becomes(cpu_swap(a, flags))

Next == Load \/ PopFlags \/ Arithmetic \/ Logic \/ Shift

Spec == Init /\ [][Next]_vars

------------------------------------------------------------------------------
(* Properties. *)

(* cpu_daa against decimal arithmetic: after ADD, ADC, SUB or SBC of two     *)
(* packed decimals, DAA gives the decimal sum or difference of two digits    *)
(* and leaves its carry or borrow for the next two.                           *)
Decimal(x)   == 10 * (x \div 16) + Nibble(x)
IsDecimal(x) == Nibble(x) <= 9 /\ x \div 16 <= 9

Adjusted(out, n) ==
  LET adjusted == cpu_daa(out.r, out.f)
  IN  /\ IsDecimal(adjusted.r)
      /\ Decimal(adjusted.r) = n % 100
      /\ adjusted.f.c = (n \notin 0 .. 99)

DecimalAdjust ==
  IsDecimal(a) /\ IsDecimal(b) =>
    /\ Adjusted(cpu_add(a, b, flags), Decimal(a) + Decimal(b))
    /\ Adjusted(cpu_adc(a, b, flags), Decimal(a) + Decimal(b) + Bit(flags.c))
    /\ Adjusted(cpu_sub(a, b, flags), Decimal(a) - Decimal(b))
    /\ Adjusted(cpu_sbc(a, b, flags), Decimal(a) - Decimal(b) - Bit(flags.c))

(* Adding the low bytes with ADD and the high ones with ADC is what ADD16    *)
(* does, carry and half carry included; with a signed byte it is what ADD    *)
(* SP and LD HL, SP+ do.                                                      *)
Chain(hi1, lo1, hi2, lo2) ==
  LET low  == cpu_add(lo1, lo2, flags)
      high == cpu_adc(hi1, hi2, low.f)
  IN  [r |-> 256 * high.r + low.r, low |-> low.f, high |-> high.f]

BytesMakeWords ==
  \A lo1, lo2 \in {0, 15, 241, 255} :
    /\ LET chain == Chain(a, lo1, b, lo2)
           word  == cpu_add16(256 * a + lo1, 256 * b + lo2, flags)
       IN  /\ word.r = chain.r
           /\ word.f.c = chain.high.c
           /\ word.f.h = chain.high.h
    /\ LET chain == Chain(a, lo1, IF b < 128 THEN 0 ELSE 255, b)
           word  == cpu_ld_sp_plus_d8(256 * a + lo1, b)
       IN  /\ word.r = chain.r
           /\ word.f.c = chain.low.c
           /\ word.f.h = chain.low.h

(* Adding back what SUB or SBC took, with the same carry, gives a again, and *)
(* carries exactly where the subtraction borrowed; INC and DEC undo each     *)
(* other and report the same wrap of the lower digit.                         *)
SubtractionUndone ==
  LET difference == cpu_sub(a, b, flags)
      borrowing  == cpu_sbc(a, b, flags)
      sum        == cpu_add(difference.r, b, flags)
      carrying   == cpu_adc(borrowing.r, b, flags)
      up         == cpu_inc(a, flags)
      down       == cpu_dec(up.r, flags)
  IN  /\ sum.r = a /\ carrying.r = a /\ down.r = a
      /\ sum.f.c = difference.f.c /\ sum.f.h = difference.f.h
      /\ carrying.f.c = borrowing.f.c /\ carrying.f.h = borrowing.f.h
      /\ up.f.h = down.f.h
      /\ up.f.z = (cpu_add(a, 1, flags).f.z)

(* A rotation one way undoes one the other way; RR brings back the bit that  *)
(* RL or SLA moved into the carry, and RL the one SRL did.                    *)
ShiftsUndone ==
  LET Then(first, second(_, _)) == second(first.r, first.f)
  IN  /\ Then(cpu_rlc(a, flags), cpu_rrc).r = a
      /\ Then(cpu_rl(a, flags), cpu_rr).r = a
      /\ Then(cpu_rl(a, flags), cpu_rr).f.c = flags.c
      /\ Then(cpu_sla(a, flags), cpu_rr).r = a
      /\ Then(cpu_srl(a, flags), cpu_rl).r = a
      /\ Then(cpu_swap(a, flags), cpu_swap).r = a
      /\ 2 * Signed(cpu_sra(a, flags).r) + Bit(cpu_sra(a, flags).f.c) = Signed(a)
===============================================================================
