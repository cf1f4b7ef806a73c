------------------------------- MODULE CpuProofs -------------------------------
(***************************************************************************)
(* Proofs about Decode and Cpu, for every ROM, every set of addresses that   *)
(* keep what is stored and every interrupt: the table of instructions, what  *)
(* each instruction does to registers, memory and the stack, the invariant   *)
(* of the machine, and the stack of calls it implements.                     *)
(***************************************************************************)
EXTENDS Cpu, FiniteSetTheorems, TLAPS

------------------------------------------------------------------------------
(* The table of instructions.                                                *)

(* The opcode by its bits: two, three and three of them.                      *)
Quarter(index) == (index \div 64) % 4
Row(index)     == (index \div 8) % 8
Col(index)     == index % 8

consec(n) == consec_targets[n + 1]

Arithmetic(n)  == <<"ADD", "ADC", "SUB", "SBC", "AND", "XOR", "OR", "CP">>[n + 1]
Rotation(n)    == <<"RLC", "RRC", "RL", "RR", "SLA", "SRA", "SWAP", "SRL">>[n + 1]
Accumulator(n) == <<"RLCA", "RRCA", "RLA", "RRA", "DAA", "CPL", "SCF", "CCF">>[n + 1]
Even(y) == y % 2 = 0

FirstQuarter(y, z) ==
  LET pair == y \div 2 + 1
  IN  <<<<si("NOP", 1, 1, "NONE", "NONE"), si("LD16", 3, 5, "D16_AS_ADDR", "SP"),
          si("STOP", 2, 1, "NONE", "NONE"), si("JR", 2, 3, "NONE", "D8"),
          sij("JR", 2, 3, 2, "C_NZ", "D8"), sij("JR", 2, 3, 2, "C_Z", "D8"),
          sij("JR", 2, 3, 2, "C_NC", "D8"), sij("JR", 2, 3, 2, "C_C", "D8")>>[y + 1],
        IF Even(y) THEN si("LD16", 3, 3, Pairs[pair], "D16") ELSE si("ADD16", 1, 2, "HL", Pairs[pair]),
        IF Even(y) THEN si("LD", 1, 2, Pointers[pair], "A") ELSE si("LD", 1, 2, "A", Pointers[pair]),
        IF Even(y) THEN si("INC16", 1, 2, Pairs[pair], "NONE") ELSE si("DEC16", 1, 2, Pairs[pair], "NONE"),
        si("INC", 1, Costs(consec(y), 1, 3), consec(y), "NONE"),
        si("DEC", 1, Costs(consec(y), 1, 3), consec(y), "NONE"),
        si("LD", 2, Costs(consec(y), 2, 3), consec(y), "D8"),
        si(Accumulator(y), 1, 1, IF y < 4 THEN "A" ELSE "NONE", "NONE")>>[z + 1]

NoInstruction == si("UNDEFINED", 0, 0, "NONE", "NONE")

LastQuarter(y, z) ==
  LET pair == StackPairs[y \div 2 + 1]
      OnCond(n, instr, others) == IF n < 4 THEN instr ELSE others[n - 3]
      cond == Conditions[y + 1]
  IN  <<OnCond(y, sij("RET", 1, 5, 2, cond, "NONE"),
               <<si("LD", 2, 3, "D8_AS_ADDR", "A"), si("ADD_SPD8", 2, 4, "SP", "D8"),
                 si("LD", 2, 3, "A", "D8_AS_ADDR"), si("LD_SP_PLUS_D8", 2, 3, "SP", "D8")>>),
        IF Even(y) THEN si("POP", 1, 3, pair, "NONE")
        ELSE <<si("RET", 1, 4, "NONE", "NONE"), si("RETI", 1, 4, "NONE", "NONE"),
               si("JP", 3, 1, "NONE", "HL"), si("LD16", 1, 2, "SP", "HL")>>[y \div 2 + 1],
        OnCond(y, sij("JP", 3, 4, 3, cond, "D16"),
               <<si("LD", 1, 2, "C_AS_ADDR", "A"), si("LD", 3, 4, "D16_AS_ADDR", "A"),
                 si("LD", 1, 2, "A", "C_AS_ADDR"), si("LD", 3, 4, "A", "D16_AS_ADDR")>>),
        <<si("JP", 3, 4, "NONE", "D16"), NoInstruction, NoInstruction, NoInstruction, NoInstruction,
          NoInstruction, si("DI", 1, 1, "NONE", "NONE"), si("EI", 1, 1, "NONE", "NONE")>>[y + 1],
        IF y < 4 THEN sij("CALL", 3, 6, 3, cond, "D16") ELSE NoInstruction,
        IF Even(y) THEN si("PUSH", 1, 4, pair, "NONE")
        ELSE IF y = 1 THEN si("CALL", 3, 6, "NONE", "D16") ELSE NoInstruction,
        si(Arithmetic(y), 2, 2, "A", "D8"),
        si("RST", 1, 4, Nth(y), "NONE")>>[z + 1]

Prefixed(x, y, z) ==
  <<si(Rotation(y), 2, Costs(consec(z), 2, 4), consec(z), "NONE"),
    si("BIT", 2, Costs(consec(z), 2, 3), consec(z), Nth(y)),
    si("RES", 2, Costs(consec(z), 2, 4), consec(z), Nth(y)),
    si("SET", 2, Costs(consec(z), 2, 4), consec(z), Nth(y))>>[x + 1]

Unprefixed(x, y, z) ==
  <<FirstQuarter(y, z),
    IF y = 6 /\ z = 6 THEN si("HALT", 1, 1, "NONE", "NONE")
    ELSE si("LD", 1, IF 6 \in {y, z} THEN 2 ELSE 1, consec(y), consec(z)),
    si(Arithmetic(y), 1, Costs(consec(z), 1, 2), "A", consec(z)),
    LastQuarter(y, z)>>[x + 1]

ByBits(index) ==
  IF index >= 256 THEN Prefixed(Quarter(index), Row(index), Col(index))
  ELSE Unprefixed(Quarter(index), Row(index), Col(index))

TableIsRegular == \A index \in 0 .. 511 : Meanings[index] = {ByBits(index)}

(* The fields of an index are the numbers it is made of.                     *)
LEMMA Bits ==
  ASSUME NEW p \in 0 .. 1, NEW x \in 0 .. 3, NEW y \in 0 .. 7, NEW z \in 0 .. 7,
         NEW index \in Int, index = 256 * p + 64 * x + 8 * y + z
  PROVE  Quarter(index) = x /\ Row(index) = y /\ Col(index) = z /\ (index >= 256 <=> p = 1)
<1>1. index = 8 * (32 * p + 8 * x + y) + z
  OBVIOUS
<1>2. index \div 8 = 32 * p + 8 * x + y /\ index % 8 = z
  BY <1>1
<1>3. 32 * p + 8 * x + y = 8 * (4 * p + x) + y
  OBVIOUS
<1>4. Row(index) = y
  BY <1>2, <1>3 DEF Row
<1>5. index \div 64 = 4 * p + x
  OBVIOUS
<1>6. Quarter(index) = x
  BY <1>5 DEF Quarter
<1> QED BY <1>2, <1>4, <1>6 DEF Col

Regular(e) == e[1] \in 0 .. 511 /\ e[2] = ByBits(e[1])

(* An entry without prefix is regular when it is where its bits say.         *)
LEMMA UnprefixedPlace ==
  ASSUME NEW e, NEW x \in 0 .. 3, NEW y \in 0 .. 7, NEW z \in 0 .. 7,
         e[1] = 64 * x + 8 * y + z, e[2] = Unprefixed(x, y, z)
  PROVE  Regular(e)
<1> DEFINE index == e[1]
<1>1. index \in Int /\ index = 256 * 0 + 64 * x + 8 * y + z
  OBVIOUS
<1> HIDE DEF index
<1>2. Quarter(index) = x /\ Row(index) = y /\ Col(index) = z /\ ~(index >= 256)
  BY <1>1, Bits
<1>3. index \in 0 .. 511
  BY <1>1
<1> QED BY <1>2, <1>3 DEF ByBits, Regular, index

(* So is one behind the prefix.                                              *)
LEMMA PrefixedPlace ==
  ASSUME NEW e, NEW x \in 0 .. 3, NEW y \in 0 .. 7, NEW z \in 0 .. 7,
         e[1] = 256 + 64 * x + 8 * y + z, e[2] = Prefixed(x, y, z)
  PROVE  Regular(e)
<1> DEFINE index == e[1]
<1>1. index \in Int /\ index = 256 * 1 + 64 * x + 8 * y + z
  OBVIOUS
<1> HIDE DEF index
<1>2. Quarter(index) = x /\ Row(index) = y /\ Col(index) = z /\ index >= 256
  BY <1>1, Bits
<1>3. index \in 0 .. 511
  BY <1>1
<1> QED BY <1>2, <1>3 DEF ByBits, Regular, index

(* The eight entries of one def_consec_ops.                                  *)
LEMMA ConsecOps ==
  ASSUME NEW y \in 0 .. 7, NEW base \in Int, base = 128 + 8 * y
  PROVE  \A e \in def_consec_ops(base, Arithmetic(y)) : Regular(e)
<1> SUFFICES ASSUME NEW i \in 0 .. 7, NEW e,
                    e = <<base + i, si(Arithmetic(y), 1, Costs(consec_targets[i + 1], 1, 2), "A",
                                       consec_targets[i + 1])>>
             PROVE  Regular(e)
  BY DEF def_consec_ops
<1>1. e[1] = 64 * 2 + 8 * y + i
  OBVIOUS
<1>2. e[2] = Unprefixed(2, y, i)
  BY DEF Unprefixed, consec
<1> QED BY <1>1, <1>2, UnprefixedPlace

(* Every assignment of instruction_init puts what the bits of its index say: *)
(* arithmetic on A ...                                                       *)
LEMMA ArithmeticRegular == \A e \in ArithmeticEntries : Regular(e)
<1>1. ASSUME NEW i \in 0 .. 7, NEW e,
             e = <<\hC6 + 8 * i, si(<<"ADD", "ADC", "SUB", "SBC", "AND", "XOR", "OR", "CP">>[i + 1], 2, 2, "A", "D8")>>
      PROVE  Regular(e)
  <2>1. e[1] = 64 * 3 + 8 * i + 6
    BY <1>1
  <2>2. e[2] = Unprefixed(3, i, 6)
    BY <1>1 DEF Unprefixed, LastQuarter, Arithmetic
  <2> QED BY <2>1, <2>2, UnprefixedPlace
<1>2. /\ def_consec_ops(\h80, "ADD") = def_consec_ops(128, Arithmetic(0))
      /\ def_consec_ops(\h88, "ADC") = def_consec_ops(136, Arithmetic(1))
      /\ def_consec_ops(\h90, "SUB") = def_consec_ops(144, Arithmetic(2))
      /\ def_consec_ops(\h98, "SBC") = def_consec_ops(152, Arithmetic(3))
      /\ def_consec_ops(\hA0, "AND") = def_consec_ops(160, Arithmetic(4))
      /\ def_consec_ops(\hA8, "XOR") = def_consec_ops(168, Arithmetic(5))
      /\ def_consec_ops(\hB0, "OR") = def_consec_ops(176, Arithmetic(6))
      /\ def_consec_ops(\hB8, "CP") = def_consec_ops(184, Arithmetic(7))
  BY DEF Arithmetic
<1>3. \A e \in (UNION {def_consec_ops(\h80, "ADD"), def_consec_ops(\h88, "ADC"),
         def_consec_ops(\h90, "SUB"), def_consec_ops(\h98, "SBC"),
         def_consec_ops(\hA0, "AND"), def_consec_ops(\hA8, "XOR"),
         def_consec_ops(\hB0, "OR"),  def_consec_ops(\hB8, "CP")}) : Regular(e)
  BY <1>2, ConsecOps
<1> QED BY <1>1, <1>3 DEF ArithmeticEntries

(* ... counting registers up and down and adding pairs ...                   *)
LEMMA CountRegular == \A e \in CountEntries : Regular(e)
<1>1. ASSUME NEW i \in 0 .. 7, NEW e,
             e = <<\h04 + 8 * i, si("INC", 1, Costs(consec_targets[i + 1], 1, 3), consec_targets[i + 1], "NONE")>>
      PROVE  Regular(e)
  <2>1. e[1] = 64 * 0 + 8 * i + 4 /\ e[2] = Unprefixed(0, i, 4)
    BY <1>1 DEF Unprefixed, FirstQuarter, consec
  <2> QED BY <2>1, UnprefixedPlace
<1>2. ASSUME NEW i \in 0 .. 7, NEW e,
             e = <<\h05 + 8 * i, si("DEC", 1, Costs(consec_targets[i + 1], 1, 3), consec_targets[i + 1], "NONE")>>
      PROVE  Regular(e)
  <2>1. e[1] = 64 * 0 + 8 * i + 5 /\ e[2] = Unprefixed(0, i, 5)
    BY <1>2 DEF Unprefixed, FirstQuarter, consec
  <2> QED BY <2>1, UnprefixedPlace
<1>3. ASSUME NEW i \in 0 .. 3, NEW e, e = <<\h03 + 16 * i, si("INC16", 1, 2, Pairs[i + 1], "NONE")>>
      PROVE  Regular(e)
  <2>1. Even(2 * i) /\ (2 * i) \div 2 = i
    BY DEF Even
  <2>2. e[1] = 64 * 0 + 8 * (2 * i) + 3 /\ e[2] = Unprefixed(0, 2 * i, 3)
    BY <1>3, <2>1 DEF Unprefixed, FirstQuarter
  <2> QED BY <2>2, UnprefixedPlace
<1>4. ASSUME NEW i \in 0 .. 3, NEW e, e = <<\h0B + 16 * i, si("DEC16", 1, 2, Pairs[i + 1], "NONE")>>
      PROVE  Regular(e)
  <2>1. ~Even(2 * i + 1) /\ (2 * i + 1) \div 2 = i
    BY DEF Even
  <2>2. e[1] = 64 * 0 + 8 * (2 * i + 1) + 3 /\ e[2] = Unprefixed(0, 2 * i + 1, 3)
    BY <1>4, <2>1 DEF Unprefixed, FirstQuarter
  <2> QED BY <2>2, UnprefixedPlace
<1>5. ASSUME NEW i \in 0 .. 3, NEW e, e = <<\h09 + 16 * i, si("ADD16", 1, 2, "HL", Pairs[i + 1])>>
      PROVE  Regular(e)
  <2>1. ~Even(2 * i + 1) /\ (2 * i + 1) \div 2 = i
    BY DEF Even
  <2>2. e[1] = 64 * 0 + 8 * (2 * i + 1) + 1 /\ e[2] = Unprefixed(0, 2 * i + 1, 1)
    BY <1>5, <2>1 DEF Unprefixed, FirstQuarter
  <2> QED BY <2>2, UnprefixedPlace
<1>6. ASSUME NEW i \in {0}, NEW e, e = <<\hE8, si("ADD_SPD8", 2, 4, "SP", "D8")>> PROVE Regular(e)
  <2>1. e[1] = 64 * 3 + 8 * 5 + 0 /\ e[2] = Unprefixed(3, 5, 0)
    BY <1>6 DEF Unprefixed, LastQuarter
  <2> QED BY <2>1, UnprefixedPlace
<1> QED BY <1>1, <1>2, <1>3, <1>4, <1>5, <1>6 DEF CountEntries, Column

(* ... the column of rotations of A and of flag instructions ...             *)
LEMMA AccumulatorRegular == \A e \in AccumulatorEntries : Regular(e)
<1>1. ASSUME NEW i \in {0}, NEW e, e = <<\h07, si("RLCA", 1, 1, "A", "NONE")>> PROVE Regular(e)
  <2>1. e[1] = 64 * 0 + 8 * 0 + 7 /\ e[2] = Unprefixed(0, 0, 7)
    BY <1>1 DEF Unprefixed, FirstQuarter, Accumulator
  <2> QED BY <2>1, UnprefixedPlace
<1>2. ASSUME NEW i \in {0}, NEW e, e = <<\h0F, si("RRCA", 1, 1, "A", "NONE")>> PROVE Regular(e)
  <2>1. e[1] = 64 * 0 + 8 * 1 + 7 /\ e[2] = Unprefixed(0, 1, 7)
    BY <1>2 DEF Unprefixed, FirstQuarter, Accumulator
  <2> QED BY <2>1, UnprefixedPlace
<1>3. ASSUME NEW i \in {0}, NEW e, e = <<\h17, si("RLA", 1, 1, "A", "NONE")>> PROVE Regular(e)
  <2>1. e[1] = 64 * 0 + 8 * 2 + 7 /\ e[2] = Unprefixed(0, 2, 7)
    BY <1>3 DEF Unprefixed, FirstQuarter, Accumulator
  <2> QED BY <2>1, UnprefixedPlace
<1>4. ASSUME NEW i \in {0}, NEW e, e = <<\h1F, si("RRA", 1, 1, "A", "NONE")>> PROVE Regular(e)
  <2>1. e[1] = 64 * 0 + 8 * 3 + 7 /\ e[2] = Unprefixed(0, 3, 7)
    BY <1>4 DEF Unprefixed, FirstQuarter, Accumulator
  <2> QED BY <2>1, UnprefixedPlace
<1>5. ASSUME NEW i \in 0 .. 3, NEW e,
             e = <<\h27 + 8 * i, si(<<"DAA", "CPL", "SCF", "CCF">>[i + 1], 1, 1, "NONE", "NONE")>>
      PROVE  Regular(e)
  <2>1. e[1] = 64 * 0 + 8 * (i + 4) + 7 /\ e[2] = Unprefixed(0, i + 4, 7)
    BY <1>5 DEF Unprefixed, FirstQuarter, Accumulator
  <2> QED BY <2>1, UnprefixedPlace
<1> QED BY <1>1, <1>2, <1>3, <1>4, <1>5 DEF AccumulatorEntries

(* ... instructions without operands ...                                     *)
LEMMA ControlRegular == \A e \in ControlEntries : Regular(e)
<1>1. ASSUME NEW i \in {0}, NEW e, e = <<\h00, si("NOP", 1, 1, "NONE", "NONE")>> PROVE Regular(e)
  <2>1. e[1] = 64 * 0 + 8 * 0 + 0 /\ e[2] = Unprefixed(0, 0, 0)
    BY <1>1 DEF Unprefixed, FirstQuarter
  <2> QED BY <2>1, UnprefixedPlace
<1>2. ASSUME NEW i \in {0}, NEW e, e = <<\h10, si("STOP", 2, 1, "NONE", "NONE")>> PROVE Regular(e)
  <2>1. e[1] = 64 * 0 + 8 * 2 + 0 /\ e[2] = Unprefixed(0, 2, 0)
    BY <1>2 DEF Unprefixed, FirstQuarter
  <2> QED BY <2>1, UnprefixedPlace
<1>3. ASSUME NEW i \in {0}, NEW e, e = <<\h76, si("HALT", 1, 1, "NONE", "NONE")>> PROVE Regular(e)
  <2>1. e[1] = 64 * 1 + 8 * 6 + 6 /\ e[2] = Unprefixed(1, 6, 6)
    BY <1>3 DEF Unprefixed
  <2> QED BY <2>1, UnprefixedPlace
<1>4. ASSUME NEW i \in {0}, NEW e, e = <<\hF3, si("DI", 1, 1, "NONE", "NONE")>> PROVE Regular(e)
  <2>1. e[1] = 64 * 3 + 8 * 6 + 3 /\ e[2] = Unprefixed(3, 6, 3)
    BY <1>4 DEF Unprefixed, LastQuarter
  <2> QED BY <2>1, UnprefixedPlace
<1>5. ASSUME NEW i \in {0}, NEW e, e = <<\hFB, si("EI", 1, 1, "NONE", "NONE")>> PROVE Regular(e)
  <2>1. e[1] = 64 * 3 + 8 * 7 + 3 /\ e[2] = Unprefixed(3, 7, 3)
    BY <1>5 DEF Unprefixed, LastQuarter
  <2> QED BY <2>1, UnprefixedPlace
<1> QED BY <1>1, <1>2, <1>3, <1>4, <1>5 DEF ControlEntries

(* ... jumps, calls and returns ...                                          *)
LEMMA JumpRegular == \A e \in JumpEntries : Regular(e)
<1>1. ASSUME NEW i \in {0}, NEW e, e = <<\hC3, si("JP", 3, 4, "NONE", "D16")>> PROVE Regular(e)
  <2>1. e[1] = 64 * 3 + 8 * 0 + 3 /\ e[2] = Unprefixed(3, 0, 3)
    BY <1>1 DEF Unprefixed, LastQuarter
  <2> QED BY <2>1, UnprefixedPlace
<1>2. ASSUME NEW i \in {0}, NEW e, e = <<\hE9, si("JP", 3, 1, "NONE", "HL")>> PROVE Regular(e)
  <2>1. e[1] = 64 * 3 + 8 * 5 + 1 /\ e[2] = Unprefixed(3, 5, 1)
    BY <1>2 DEF Unprefixed, LastQuarter, Even
  <2> QED BY <2>1, UnprefixedPlace
<1>3. ASSUME NEW i \in {0}, NEW e, e = <<\h18, si("JR", 2, 3, "NONE", "D8")>> PROVE Regular(e)
  <2>1. e[1] = 64 * 0 + 8 * 3 + 0 /\ e[2] = Unprefixed(0, 3, 0)
    BY <1>3 DEF Unprefixed, FirstQuarter
  <2> QED BY <2>1, UnprefixedPlace
<1>4. ASSUME NEW i \in {0}, NEW e, e = <<\hCD, si("CALL", 3, 6, "NONE", "D16")>> PROVE Regular(e)
  <2>1. e[1] = 64 * 3 + 8 * 1 + 5 /\ e[2] = Unprefixed(3, 1, 5)
    BY <1>4 DEF Unprefixed, LastQuarter, Even
  <2> QED BY <2>1, UnprefixedPlace
<1>5. ASSUME NEW i \in {0}, NEW e, e = <<\hC9, si("RET", 1, 4, "NONE", "NONE")>> PROVE Regular(e)
  <2>1. e[1] = 64 * 3 + 8 * 1 + 1 /\ e[2] = Unprefixed(3, 1, 1)
    BY <1>5 DEF Unprefixed, LastQuarter, Even
  <2> QED BY <2>1, UnprefixedPlace
<1>6. ASSUME NEW i \in {0}, NEW e, e = <<\hD9, si("RETI", 1, 4, "NONE", "NONE")>> PROVE Regular(e)
  <2>1. e[1] = 64 * 3 + 8 * 3 + 1 /\ e[2] = Unprefixed(3, 3, 1)
    BY <1>6 DEF Unprefixed, LastQuarter, Even
  <2> QED BY <2>1, UnprefixedPlace
<1>7. ASSUME NEW i \in 0 .. 3, NEW e,
             e = <<\hC2 + 8 * i, sij("JP", 3, 4, 3, Conditions[i + 1], "D16")>>
      PROVE  Regular(e)
  <2>1. e[1] = 64 * 3 + 8 * i + 2 /\ e[2] = Unprefixed(3, i, 2)
    BY <1>7 DEF Unprefixed, LastQuarter
  <2> QED BY <2>1, UnprefixedPlace
<1>8. ASSUME NEW i \in 0 .. 3, NEW e,
             e = <<\h20 + 8 * i, sij("JR", 2, 3, 2, Conditions[i + 1], "D8")>>
      PROVE  Regular(e)
  <2>1. e[1] = 64 * 0 + 8 * (i + 4) + 0 /\ e[2] = Unprefixed(0, i + 4, 0)
    BY <1>8 DEF Unprefixed, FirstQuarter, Conditions
  <2> QED BY <2>1, UnprefixedPlace
<1>9. ASSUME NEW i \in 0 .. 3, NEW e,
             e = <<\hC4 + 8 * i, sij("CALL", 3, 6, 3, Conditions[i + 1], "D16")>>
      PROVE  Regular(e)
  <2>1. e[1] = 64 * 3 + 8 * i + 4 /\ e[2] = Unprefixed(3, i, 4)
    BY <1>9 DEF Unprefixed, LastQuarter
  <2> QED BY <2>1, UnprefixedPlace
<1>10. ASSUME NEW i \in 0 .. 3, NEW e,
              e = <<\hC0 + 8 * i, sij("RET", 1, 5, 2, Conditions[i + 1], "NONE")>>
       PROVE  Regular(e)
  <2>1. e[1] = 64 * 3 + 8 * i + 0 /\ e[2] = Unprefixed(3, i, 0)
    BY <1>10 DEF Unprefixed, LastQuarter
  <2> QED BY <2>1, UnprefixedPlace
<1>11. ASSUME NEW i \in 0 .. 7, NEW e, e = <<\hC7 + 8 * i, si("RST", 1, 4, Nth(i), "NONE")>>
       PROVE  Regular(e)
  <2>1. e[1] = 64 * 3 + 8 * i + 7 /\ e[2] = Unprefixed(3, i, 7)
    BY <1>11 DEF Unprefixed, LastQuarter
  <2> QED BY <2>1, UnprefixedPlace
<1> QED BY <1>1, <1>2, <1>3, <1>4, <1>5, <1>6, <1>7, <1>8, <1>9, <1>10, <1>11 DEF JumpEntries, OnCondition

(* ... the stack and the loads of words ...                                  *)
LEMMA StackRegular == \A e \in StackEntries : Regular(e)
<1>1. ASSUME NEW i \in 0 .. 3, NEW e,
             e = <<\hC1 + 16 * i, si("POP", 1, 3, StackPairs[i + 1], "NONE")>>
      PROVE  Regular(e)
  <2>1. Even(2 * i) /\ (2 * i) \div 2 = i
    BY DEF Even
  <2>2. e[1] = 64 * 3 + 8 * (2 * i) + 1 /\ e[2] = Unprefixed(3, 2 * i, 1)
    BY <1>1, <2>1 DEF Unprefixed, LastQuarter
  <2> QED BY <2>2, UnprefixedPlace
<1>2. ASSUME NEW i \in 0 .. 3, NEW e,
             e = <<\hC5 + 16 * i, si("PUSH", 1, 4, StackPairs[i + 1], "NONE")>>
      PROVE  Regular(e)
  <2>1. Even(2 * i) /\ (2 * i) \div 2 = i
    BY DEF Even
  <2>2. e[1] = 64 * 3 + 8 * (2 * i) + 5 /\ e[2] = Unprefixed(3, 2 * i, 5)
    BY <1>2, <2>1 DEF Unprefixed, LastQuarter
  <2> QED BY <2>2, UnprefixedPlace
<1>3. ASSUME NEW i \in {0}, NEW e, e = <<\h08, si("LD16", 3, 5, "D16_AS_ADDR", "SP")>>
      PROVE  Regular(e)
  <2>1. e[1] = 64 * 0 + 8 * 1 + 0 /\ e[2] = Unprefixed(0, 1, 0)
    BY <1>3 DEF Unprefixed, FirstQuarter
  <2> QED BY <2>1, UnprefixedPlace
<1>4. ASSUME NEW i \in {0}, NEW e, e = <<\hF9, si("LD16", 1, 2, "SP", "HL")>> PROVE Regular(e)
  <2>1. e[1] = 64 * 3 + 8 * 7 + 1 /\ e[2] = Unprefixed(3, 7, 1)
    BY <1>4 DEF Unprefixed, LastQuarter, Even
  <2> QED BY <2>1, UnprefixedPlace
<1>5. ASSUME NEW i \in {0}, NEW e, e = <<\hF8, si("LD_SP_PLUS_D8", 2, 3, "SP", "D8")>>
      PROVE  Regular(e)
  <2>1. e[1] = 64 * 3 + 8 * 7 + 0 /\ e[2] = Unprefixed(3, 7, 0)
    BY <1>5 DEF Unprefixed, LastQuarter
  <2> QED BY <2>1, UnprefixedPlace
<1>6. ASSUME NEW i \in 0 .. 3, NEW e, e = <<\h01 + 16 * i, si("LD16", 3, 3, Pairs[i + 1], "D16")>>
      PROVE  Regular(e)
  <2>1. Even(2 * i) /\ (2 * i) \div 2 = i
    BY DEF Even
  <2>2. e[1] = 64 * 0 + 8 * (2 * i) + 1 /\ e[2] = Unprefixed(0, 2 * i, 1)
    BY <1>6, <2>1 DEF Unprefixed, FirstQuarter
  <2> QED BY <2>2, UnprefixedPlace
<1> QED BY <1>1, <1>2, <1>3, <1>4, <1>5, <1>6 DEF StackEntries, Column

(* ... the block of loads between registers ...                              *)
LEMMA RegisterLoadsRegular == \A e \in RegisterLoads : Regular(e)
<1>1. ASSUME NEW y \in 0 .. 7, NEW z \in 0 .. 7, ~(y = 6 /\ z = 6), NEW e,
             e = <<\h40 + 8 * y + z, si("LD", 1, IF 6 \in {y, z} THEN 2 ELSE 1,
                                       consec_targets[y + 1], consec_targets[z + 1])>>
      PROVE  Regular(e)
  <2>1. e[1] = 64 * 1 + 8 * y + z /\ e[2] = Unprefixed(1, y, z)
    BY <1>1 DEF Unprefixed, consec
  <2> QED BY <2>1, UnprefixedPlace
<1> SUFFICES ASSUME NEW ij \in LoadPositions, NEW e,
                    e = <<\h40 + 8 * ij[1] + ij[2],
                          si("LD", 1, IF 6 \in {ij[1], ij[2]} THEN 2 ELSE 1,
                             consec_targets[ij[1] + 1], consec_targets[ij[2] + 1])>>
             PROVE  Regular(e)
  BY DEF RegisterLoads
<1>2. ij[1] \in 0 .. 7 /\ ij[2] \in 0 .. 7 /\ ~(ij[1] = 6 /\ ij[2] = 6)
  BY DEF LoadPositions
<1> QED BY <1>1, <1>2

(* ... the other loads of bytes ...                                          *)
LEMMA LoadRegular == \A e \in LoadEntries : Regular(e)
<1>1. ASSUME NEW i \in 0 .. 7, NEW e,
             e = <<\h06 + 8 * i, si("LD", 2, Costs(consec_targets[i + 1], 2, 3), consec_targets[i + 1], "D8")>>
      PROVE  Regular(e)
  <2>1. e[1] = 64 * 0 + 8 * i + 6 /\ e[2] = Unprefixed(0, i, 6)
    BY <1>1 DEF Unprefixed, FirstQuarter, consec
  <2> QED BY <2>1, UnprefixedPlace
<1>2. ASSUME NEW i \in 0 .. 3, NEW e, e = <<\h02 + 16 * i, si("LD", 1, 2, Pointers[i + 1], "A")>>
      PROVE  Regular(e)
  <2>1. Even(2 * i) /\ (2 * i) \div 2 = i
    BY DEF Even
  <2>2. e[1] = 64 * 0 + 8 * (2 * i) + 2 /\ e[2] = Unprefixed(0, 2 * i, 2)
    BY <1>2, <2>1 DEF Unprefixed, FirstQuarter
  <2> QED BY <2>2, UnprefixedPlace
<1>3. ASSUME NEW i \in 0 .. 3, NEW e, e = <<\h0A + 16 * i, si("LD", 1, 2, "A", Pointers[i + 1])>>
      PROVE  Regular(e)
  <2>1. ~Even(2 * i + 1) /\ (2 * i + 1) \div 2 = i
    BY DEF Even
  <2>2. e[1] = 64 * 0 + 8 * (2 * i + 1) + 2 /\ e[2] = Unprefixed(0, 2 * i + 1, 2)
    BY <1>3, <2>1 DEF Unprefixed, FirstQuarter
  <2> QED BY <2>2, UnprefixedPlace
<1>4. ASSUME NEW i \in {0}, NEW e, e = <<\hE0, si("LD", 2, 3, "D8_AS_ADDR", "A")>> PROVE Regular(e)
  <2>1. e[1] = 64 * 3 + 8 * 4 + 0 /\ e[2] = Unprefixed(3, 4, 0)
    BY <1>4 DEF Unprefixed, LastQuarter
  <2> QED BY <2>1, UnprefixedPlace
<1>5. ASSUME NEW i \in {0}, NEW e, e = <<\hF0, si("LD", 2, 3, "A", "D8_AS_ADDR")>> PROVE Regular(e)
  <2>1. e[1] = 64 * 3 + 8 * 6 + 0 /\ e[2] = Unprefixed(3, 6, 0)
    BY <1>5 DEF Unprefixed, LastQuarter
  <2> QED BY <2>1, UnprefixedPlace
<1>6. ASSUME NEW i \in {0}, NEW e, e = <<\hE2, si("LD", 1, 2, "C_AS_ADDR", "A")>> PROVE Regular(e)
  <2>1. e[1] = 64 * 3 + 8 * 4 + 2 /\ e[2] = Unprefixed(3, 4, 2)
    BY <1>6 DEF Unprefixed, LastQuarter
  <2> QED BY <2>1, UnprefixedPlace
<1>7. ASSUME NEW i \in {0}, NEW e, e = <<\hF2, si("LD", 1, 2, "A", "C_AS_ADDR")>> PROVE Regular(e)
  <2>1. e[1] = 64 * 3 + 8 * 6 + 2 /\ e[2] = Unprefixed(3, 6, 2)
    BY <1>7 DEF Unprefixed, LastQuarter
  <2> QED BY <2>1, UnprefixedPlace
<1>8. ASSUME NEW i \in {0}, NEW e, e = <<\hEA, si("LD", 3, 4, "D16_AS_ADDR", "A")>> PROVE Regular(e)
  <2>1. e[1] = 64 * 3 + 8 * 5 + 2 /\ e[2] = Unprefixed(3, 5, 2)
    BY <1>8 DEF Unprefixed, LastQuarter
  <2> QED BY <2>1, UnprefixedPlace
<1>9. ASSUME NEW i \in {0}, NEW e, e = <<\hFA, si("LD", 3, 4, "A", "D16_AS_ADDR")>> PROVE Regular(e)
  <2>1. e[1] = 64 * 3 + 8 * 7 + 2 /\ e[2] = Unprefixed(3, 7, 2)
    BY <1>9 DEF Unprefixed, LastQuarter
  <2> QED BY <2>1, UnprefixedPlace
<1> QED BY RegisterLoadsRegular, <1>1, <1>2, <1>3, <1>4, <1>5, <1>6, <1>7, <1>8, <1>9 DEF LoadEntries, Column

(* ... what follows the prefix ...                                           *)
LEMMA PrefixedRegular == \A e \in PrefixedEntries : Regular(e)
<1>1. ASSUME NEW j \in 0 .. 7, NEW x \in 0 .. 3, NEW base \in Int, base = 64 * x + 8 * j, NEW op, NEW memory, NEW t2,
             \A z \in 0 .. 7 : si(op, 2, Costs(consec(z), 2, memory), consec(z), t2) = Prefixed(x, j, z)
      PROVE  \A e \in def_consec_ops_16(base, op, memory, t2) : Regular(e)
  <2> SUFFICES ASSUME NEW i \in 0 .. 7, NEW e,
                      e = <<base + 256 + i, si(op, 2, Costs(consec(i), 2, memory), consec(i), t2)>>
               PROVE  Regular(e)
    BY DEF def_consec_ops_16, consec
  <2>1. e[1] = 256 + 64 * x + 8 * j + i /\ e[2] = Prefixed(x, j, i)
    BY <1>1
  <2> QED BY <2>1, PrefixedPlace
<1>2. ASSUME NEW j \in 0 .. 7
      PROVE  /\ \A e \in def_consec_ops_16(8 * j,
                  <<"RLC", "RRC", "RL", "RR", "SLA", "SRA", "SWAP", "SRL">>[j + 1], 4, "NONE") : Regular(e)
             /\ \A e \in def_consec_ops_16(\h40 + 8 * j, "BIT", 3, Nth(j)) : Regular(e)
             /\ \A e \in def_consec_ops_16(\h80 + 8 * j, "RES", 4, Nth(j)) : Regular(e)
             /\ \A e \in def_consec_ops_16(\hC0 + 8 * j, "SET", 4, Nth(j)) : Regular(e)
  <2> DEFINE rot == <<"RLC", "RRC", "RL", "RR", "SLA", "SRA", "SWAP", "SRL">>[j + 1]
             none == "NONE" bit == "BIT" nth == Nth(j)
             b0 == 8 * j  b1 == \h40 + 8 * j  b2 == \h80 + 8 * j  b3 == \hC0 + 8 * j
  <2>1. /\ b0 \in Int /\ b0 = 64 * 0 + 8 * j
        /\ b1 \in Int /\ b1 = 64 * 1 + 8 * j
        /\ b2 \in Int /\ b2 = 64 * 2 + 8 * j
        /\ b3 \in Int /\ b3 = 64 * 3 + 8 * j
    OBVIOUS
  <2>2. \A z \in 0 .. 7 :
          /\ si(rot, 2, Costs(consec(z), 2, 4), consec(z), "NONE") = Prefixed(0, j, z)
          /\ si("BIT", 2, Costs(consec(z), 2, 3), consec(z), nth) = Prefixed(1, j, z)
          /\ si("RES", 2, Costs(consec(z), 2, 4), consec(z), nth) = Prefixed(2, j, z)
          /\ si("SET", 2, Costs(consec(z), 2, 4), consec(z), nth) = Prefixed(3, j, z)
    BY DEF Prefixed, Rotation
  <2> HIDE DEF rot, nth, b0, b1, b2, b3
  <2>3. \A e \in def_consec_ops_16(b0, rot, 4, "NONE") : Regular(e)
    BY <1>1, <2>1, <2>2
  <2>4. \A e \in def_consec_ops_16(b1, "BIT", 3, nth) : Regular(e)
    BY <1>1, <2>1, <2>2
  <2>5. \A e \in def_consec_ops_16(b2, "RES", 4, nth) : Regular(e)
    BY <1>1, <2>1, <2>2
  <2>6. \A e \in def_consec_ops_16(b3, "SET", 4, nth) : Regular(e)
    BY <1>1, <2>1, <2>2
  <2> QED BY <2>3, <2>4, <2>5, <2>6 DEF rot, nth, b0, b1, b2, b3
<1> DEFINE Rot(i) == def_consec_ops_16(8 * i,
                       <<"RLC", "RRC", "RL", "RR", "SLA", "SRA", "SWAP", "SRL">>[i + 1], 4, "NONE")
           Bit1(j) == def_consec_ops_16(\h40 + 8 * j, "BIT", 3, Nth(j))
           Res(j)  == def_consec_ops_16(\h80 + 8 * j, "RES", 4, Nth(j))
           Set1(j) == def_consec_ops_16(\hC0 + 8 * j, "SET", 4, Nth(j))
<1>3. PrefixedEntries = (UNION {Rot(i) : i \in 0 .. 7}) \cup (UNION {Bit1(j) : j \in 0 .. 7})
                        \cup (UNION {Res(j) : j \in 0 .. 7}) \cup (UNION {Set1(j) : j \in 0 .. 7})
  BY SMT DEF PrefixedEntries, BitTests
<1> HIDE DEF Rot, Bit1, Res, Set1
<1>4. ASSUME NEW j \in 0 .. 7
      PROVE  \A e \in Rot(j) \cup Bit1(j) \cup Res(j) \cup Set1(j) : Regular(e)
  BY <1>2, <1>4 DEF Rot, Bit1, Res, Set1
<1> QED BY <1>3, <1>4

(* ... and the opcodes that mean nothing.                                    *)
LEMMA UndefinedRegular == \A byte \in Undefined : Regular(<<byte, si("UNDEFINED", 0, 0, "NONE", "NONE")>>)
<1>1. ASSUME NEW y \in 0 .. 7, NEW z \in 0 .. 7, LastQuarter(y, z) = NoInstruction, NEW e,
             e[1] = 64 * 3 + 8 * y + z, e[2] = NoInstruction
      PROVE  Regular(e)
  <2>1. e[2] = Unprefixed(3, y, z)
    BY <1>1 DEF Unprefixed
  <2> QED BY <1>1, <2>1, UnprefixedPlace
<1>2. /\ \A y \in 1 .. 5 : LastQuarter(y, 3) = NoInstruction
      /\ \A y \in 4 .. 7 : LastQuarter(y, 4) = NoInstruction
      /\ \A y \in {3, 5, 7} : LastQuarter(y, 5) = NoInstruction
  BY DEF LastQuarter, Even
<1> SUFFICES ASSUME NEW byte \in Undefined, NEW e, e = <<byte, NoInstruction>>
             PROVE  Regular(e)
  BY DEF NoInstruction
<1>3. \/ \E y \in 1 .. 5 : byte = 64 * 3 + 8 * y + 3
      \/ \E y \in 4 .. 7 : byte = 64 * 3 + 8 * y + 4
      \/ \E y \in {3, 5, 7} : byte = 64 * 3 + 8 * y + 5
  BY DEF Undefined
<1> QED BY <1>1, <1>2, <1>3

(* No two assignments of an index differ, since each follows its bits.       *)
LEMMA EntriesRegular == \A e \in Entries : Regular(e)
  BY ArithmeticRegular, CountRegular, AccumulatorRegular, ControlRegular, JumpRegular, StackRegular,
     LoadRegular, PrefixedRegular, UndefinedRegular, Zenon DEF Entries

(* What instruction_init assigns, by kind, is what the table holds.          *)
LEMMA KindsOfEntries ==
  /\ \A s \in {ArithmeticEntries, CountEntries, AccumulatorEntries, ControlEntries, JumpEntries, StackEntries,
              LoadEntries, PrefixedEntries} : s \subseteq Entries
  /\ {<<byte, si("UNDEFINED", 0, 0, "NONE", "NONE")>> : byte \in Undefined} \subseteq Entries
  /\ RegisterLoads \subseteq LoadEntries
<1> DEFINE kinds == {ArithmeticEntries, CountEntries, AccumulatorEntries, ControlEntries, JumpEntries,
                     StackEntries, LoadEntries, PrefixedEntries}
           None == {<<byte, si("UNDEFINED", 0, 0, "NONE", "NONE")>> : byte \in Undefined}
<1>1. Entries = (UNION kinds) \cup None
  BY Zenon DEF Entries
<1> HIDE DEF None
<1>2. \A s \in kinds : s \subseteq Entries
  <2> HIDE DEF kinds
  <2> QED BY <1>1
<1>3. None \subseteq Entries
  <2> HIDE DEF kinds
  <2> QED BY <1>1
<1>4. RegisterLoads \subseteq LoadEntries
  <2> SUFFICES ASSUME NEW e \in RegisterLoads PROVE e \in LoadEntries
    OBVIOUS
  <2> QED BY Zenon DEF LoadEntries
<1> QED BY <1>2, <1>3, <1>4 DEF None

(* A place has an entry of its own for each of its rows.                      *)
Filled(x, z, rows, entries) ==
  \A y \in rows : <<64 * x + 8 * y + z, Unprefixed(x, y, z)>> \in entries

(* The column entries of a pair are in the even rows or in the odd ones.     *)
LEMMA Parity == \A y \in 0 .. 7 : \E i \in 0 .. 3 :
                  (y = 2 * i /\ Even(y) /\ y \div 2 = i) \/ (y = 2 * i + 1 /\ ~Even(y) /\ y \div 2 = i)
  BY DEF Even

(* No index is left out: the first quarter of the table ...                  *)
LEMMA FirstQuarterFilled ==
  /\ Filled(0, 0, 0 .. 7, ControlEntries \cup StackEntries \cup JumpEntries)
  /\ Filled(0, 1, 0 .. 7, StackEntries \cup CountEntries)
  /\ Filled(0, 2, 0 .. 7, LoadEntries)
  /\ Filled(0, 3, 0 .. 7, CountEntries)
  /\ Filled(0, 4, 0 .. 7, CountEntries)
  /\ Filled(0, 5, 0 .. 7, CountEntries)
  /\ Filled(0, 6, 0 .. 7, LoadEntries)
  /\ Filled(0, 7, 0 .. 7, AccumulatorEntries)
<1> USE DEF Filled, Unprefixed, FirstQuarter, Column, consec
<1>2. Filled(0, 0, 0 .. 7, ControlEntries \cup StackEntries \cup JumpEntries)
  BY DEF ControlEntries, StackEntries, JumpEntries, OnCondition, Conditions
<1>3. Filled(0, 1, 0 .. 7, StackEntries \cup CountEntries)
  BY Parity DEF StackEntries, CountEntries
<1>4. Filled(0, 2, 0 .. 7, LoadEntries)
  BY Parity DEF LoadEntries
<1>5. Filled(0, 3, 0 .. 7, CountEntries)
  BY Parity DEF CountEntries
<1>6. Filled(0, 4, 0 .. 7, CountEntries)
  BY DEF CountEntries
<1>7. Filled(0, 5, 0 .. 7, CountEntries)
  BY DEF CountEntries
<1>8. Filled(0, 6, 0 .. 7, LoadEntries)
  BY DEF LoadEntries
<1>9. Filled(0, 7, 0 .. 7, AccumulatorEntries)
  BY DEF AccumulatorEntries, Accumulator
<1> QED BY <1>2, <1>3, <1>4, <1>5, <1>6, <1>7, <1>8, <1>9

(* ... the second and third ...                                              *)
LEMMA MiddleFilled ==
  /\ \A z \in 0 .. 7 : Filled(1, z, 0 .. 7, RegisterLoads \cup ControlEntries)
  /\ \A z \in 0 .. 7 : Filled(2, z, 0 .. 7, ArithmeticEntries)
<1>1. ASSUME NEW z \in 0 .. 7, NEW y \in 0 .. 7
      PROVE  <<64 * 1 + 8 * y + z, Unprefixed(1, y, z)>> \in RegisterLoads \cup ControlEntries
  <2>1. CASE y = 6 /\ z = 6
    BY <2>1 DEF Unprefixed, ControlEntries
  <2>2. CASE ~(y = 6 /\ z = 6)
    <3>1. <<y, z>> \in LoadPositions
      BY <2>2 DEF LoadPositions
    <3> QED BY <3>1, <2>2 DEF Unprefixed, RegisterLoads, consec
  <2> QED BY <2>1, <2>2
<1>2. ASSUME NEW z \in 0 .. 7, NEW y \in 0 .. 7
      PROVE  <<64 * 2 + 8 * y + z, Unprefixed(2, y, z)>> \in ArithmeticEntries
  BY DEF Unprefixed, Arithmetic, consec, ArithmeticEntries, def_consec_ops
<1> QED BY <1>1, <1>2 DEF Filled

(* ... the last ...                                                          *)
LEMMA LastQuarterFilled == \A z \in 0 .. 7 : Filled(3, z, 0 .. 7, Entries)
<1> DEFINE None == {<<byte, si("UNDEFINED", 0, 0, "NONE", "NONE")>> : byte \in Undefined}
<1> USE DEF Filled, Unprefixed, LastQuarter
<1>2. Filled(3, 0, 0 .. 7, JumpEntries \cup LoadEntries \cup StackEntries \cup CountEntries)
  BY DEF JumpEntries, LoadEntries, StackEntries, CountEntries, OnCondition
<1>3. Filled(3, 1, 0 .. 7, JumpEntries \cup StackEntries)
  BY Parity DEF JumpEntries, StackEntries, Column
<1>4. Filled(3, 2, 0 .. 7, JumpEntries \cup LoadEntries)
  BY DEF JumpEntries, LoadEntries, OnCondition
<1>5. Filled(3, 3, 0 .. 7, JumpEntries \cup ControlEntries \cup None)
  BY DEF JumpEntries, ControlEntries, Undefined, NoInstruction
<1>6. Filled(3, 4, 0 .. 7, JumpEntries \cup None)
  BY DEF JumpEntries, OnCondition, Undefined, NoInstruction
<1>7. Filled(3, 5, 0 .. 7, JumpEntries \cup StackEntries \cup None)
  BY Parity DEF JumpEntries, StackEntries, Column, Undefined, NoInstruction
<1>8. Filled(3, 6, 0 .. 7, ArithmeticEntries)
  BY DEF ArithmeticEntries, Arithmetic
<1>9. Filled(3, 7, 0 .. 7, JumpEntries)
  BY DEF JumpEntries
<1>10. /\ \A s \in {ArithmeticEntries, CountEntries, ControlEntries, JumpEntries, StackEntries, LoadEntries} :
             s \subseteq Entries
       /\ None \subseteq Entries
  BY KindsOfEntries
<1> HIDE DEF None, Filled, Unprefixed, LastQuarter
<1>11. \A z, s : Filled(3, z, 0 .. 7, s) /\ s \subseteq Entries => Filled(3, z, 0 .. 7, Entries)
  BY DEF Filled
<1>12. /\ Filled(3, 0, 0 .. 7, Entries) /\ Filled(3, 1, 0 .. 7, Entries)
       /\ Filled(3, 2, 0 .. 7, Entries) /\ Filled(3, 3, 0 .. 7, Entries)
  BY <1>2, <1>3, <1>4, <1>5, <1>10, <1>11
<1>13. /\ Filled(3, 4, 0 .. 7, Entries) /\ Filled(3, 5, 0 .. 7, Entries)
       /\ Filled(3, 6, 0 .. 7, Entries) /\ Filled(3, 7, 0 .. 7, Entries)
  BY <1>6, <1>7, <1>8, <1>9, <1>10, <1>11
<1>14. \A z \in 0 .. 7 : z \in {0, 1, 2, 3, 4, 5, 6, 7}
  OBVIOUS
<1> QED BY <1>12, <1>13, <1>14

(* ... together ...                                                          *)
LEMMA EntriesFilled == \A x \in 0 .. 3, z \in 0 .. 7 : Filled(x, z, 0 .. 7, Entries)
<1>1. /\ \A s \in {ArithmeticEntries, CountEntries, AccumulatorEntries, ControlEntries, JumpEntries,
                   StackEntries, LoadEntries} : s \subseteq Entries
      /\ RegisterLoads \subseteq LoadEntries
  BY KindsOfEntries
<1>2. \A z \in {0, 1, 2, 3, 4, 5, 6, 7} : Filled(0, z, 0 .. 7, Entries)
  <2>1. \A z, s : Filled(0, z, 0 .. 7, s) /\ s \subseteq Entries => Filled(0, z, 0 .. 7, Entries)
    BY DEF Filled
  <2> QED BY <1>1, <2>1, FirstQuarterFilled
<1>3. \A z \in 0 .. 7 : Filled(1, z, 0 .. 7, Entries) /\ Filled(2, z, 0 .. 7, Entries)
  BY <1>1, MiddleFilled DEF Filled
<1> QED BY <1>2, <1>3, LastQuarterFilled

(* The entry of a prefixed opcode.                                            *)
PrefixedRow(x, y, z) == <<256 + 64 * x + 8 * y + z, Prefixed(x, y, z)>>

(* ... and those behind the prefix.                                          *)
LEMMA PrefixedFilled ==
  \A x \in 0 .. 3, y \in 0 .. 7, z \in 0 .. 7 : PrefixedRow(x, y, z) \in Entries
<1>0. PrefixedEntries \subseteq Entries
  BY KindsOfEntries
<1> SUFFICES \A x \in 0 .. 3, y \in 0 .. 7, z \in 0 .. 7 : PrefixedRow(x, y, z) \in PrefixedEntries
  BY <1>0
<1> SUFFICES ASSUME NEW x \in 0 .. 3, NEW y \in 0 .. 7, NEW z \in 0 .. 7
             PROVE  <<256 + 64 * x + 8 * y + z, Prefixed(x, y, z)>> \in PrefixedEntries
  BY DEF PrefixedRow
<1> USE DEF Prefixed, consec, def_consec_ops_16
<1>1. CASE x = 0
  <2> DEFINE op == <<"RLC", "RRC", "RL", "RR", "SLA", "SRA", "SWAP", "SRL">>[y + 1]
  <2>1. <<256 + 64 * x + 8 * y + z, Prefixed(x, y, z)>> \in def_consec_ops_16(8 * y, op, 4, "NONE")
    <3>1. Rotation(y) = op
      BY DEF Rotation
    <3> HIDE DEF op
    <3> QED BY <1>1, <3>1
  <2> HIDE DEF Prefixed, def_consec_ops_16, op
  <2>2. op = <<"RLC", "RRC", "RL", "RR", "SLA", "SRA", "SWAP", "SRL">>[y + 1]
    BY DEF op
  <2>3. <<256 + 64 * x + 8 * y + z, Prefixed(x, y, z)>> \in
          UNION {def_consec_ops_16(8 * i,
                   <<"RLC", "RRC", "RL", "RR", "SLA", "SRA", "SWAP", "SRL">>[i + 1], 4, "NONE") : i \in 0 .. 7}
    BY <2>1, <2>2, Zenon
  <2> QED BY <2>3, Zenon DEF PrefixedEntries
<1>2. CASE x = 1
  <2>1. <<256 + 64 * x + 8 * y + z, Prefixed(x, y, z)>> \in def_consec_ops_16(\h40 + 8 * y, "BIT", 3, Nth(y))
    BY <1>2
  <2> HIDE DEF Prefixed, def_consec_ops_16
  <2> QED BY <2>1 DEF PrefixedEntries, BitTests
<1>3. CASE x = 2
  <2>1. <<256 + 64 * x + 8 * y + z, Prefixed(x, y, z)>> \in def_consec_ops_16(\h80 + 8 * y, "RES", 4, Nth(y))
    BY <1>3
  <2> HIDE DEF Prefixed, def_consec_ops_16
  <2> QED BY <2>1 DEF PrefixedEntries
<1>4. CASE x = 3
  <2>1. <<256 + 64 * x + 8 * y + z, Prefixed(x, y, z)>> \in def_consec_ops_16(\hC0 + 8 * y, "SET", 4, Nth(y))
    BY <1>4
  <2> HIDE DEF Prefixed, def_consec_ops_16
  <2> QED BY <2>1 DEF PrefixedEntries
<1> QED BY <1>1, <1>2, <1>3, <1>4

(* Every index is made of such bits.                                         *)
LEMMA Decomposed ==
  ASSUME NEW index \in 0 .. 511
  PROVE  \E p \in 0 .. 1, x \in 0 .. 3, y \in 0 .. 7, z \in 0 .. 7 : index = 256 * p + 64 * x + 8 * y + z
<1>1. PICK h \in 0 .. 63, z \in 0 .. 7 : index = 8 * h + z
  <2>1. index \div 8 \in 0 .. 63 /\ index % 8 \in 0 .. 7 /\ index = 8 * (index \div 8) + (index % 8)
    OBVIOUS
  <2> QED BY <2>1
<1>2. PICK g \in 0 .. 7, y \in 0 .. 7 : h = 8 * g + y
  <2>1. h \div 8 \in 0 .. 7 /\ h % 8 \in 0 .. 7 /\ h = 8 * (h \div 8) + (h % 8)
    OBVIOUS
  <2> QED BY <2>1
<1>3. PICK p \in 0 .. 1, x \in 0 .. 3 : g = 4 * p + x
  <2>1. g \div 4 \in 0 .. 1 /\ g % 4 \in 0 .. 3 /\ g = 4 * (g \div 4) + (g % 4)
    OBVIOUS
  <2> QED BY <2>1
<1>4. index = 256 * p + 64 * x + 8 * y + z
  BY <1>1, <1>2, <1>3
<1> QED BY <1>4

(* The loops of instruction_init that fill the table neither give an index   *)
(* two different instructions nor leave one out: each of the 512 is assigned  *)
(* one, that its bits stand for.                                              *)
THEOREM TableFollowsBits == TableIsRegular
<1> SUFFICES ASSUME NEW index \in 0 .. 511 PROVE Meanings[index] = {ByBits(index)}
  BY DEF TableIsRegular
<1>1. \A e \in Entries : e[1] = index => e[2] = ByBits(index)
  BY EntriesRegular DEF Regular
<1>2. \E e \in Entries : e[1] = index
  <2>1. PICK p \in 0 .. 1, x \in 0 .. 3, y \in 0 .. 7, z \in 0 .. 7 : index = 256 * p + 64 * x + 8 * y + z
    BY Decomposed
  <2>2. CASE p = 0
    <3>1. <<64 * x + 8 * y + z, Unprefixed(x, y, z)>> \in Entries
      BY EntriesFilled DEF Filled
    <3>2. index = 64 * x + 8 * y + z
      BY <2>1, <2>2
    <3> QED BY <3>1, <3>2
  <2>3. CASE p = 1
    <3> DEFINE row == PrefixedRow(x, y, z)
    <3>0. row \in Entries
      BY PrefixedFilled
    <3>1. <<256 + 64 * x + 8 * y + z, Prefixed(x, y, z)>> \in Entries
      BY <3>0 DEF PrefixedRow
    <3>2. index = 256 + 64 * x + 8 * y + z
      BY <2>1, <2>3
    <3> QED BY <3>1, <3>2
  <2> QED BY <2>2, <2>3
<1>3. Meanings[index] = {e[2] : e \in {e \in Entries : e[1] = index}}
  BY Zenon DEF Meanings
<1> QED BY <1>1, <1>2, <1>3

------------------------------------------------------------------------------
(* Bytes and words. *)

(* Membership in Byte and Word, without their intervals.                     *)
LEMMA ByteIs == \A n : n \in Byte <=> n \in Int /\ 0 <= n /\ n < 256
  BY DEF Byte

(* What an interval holds, whatever its end.                                 *)
LEMMA Interval ==
  ASSUME NEW top \in Int, NEW n PROVE n \in 0 .. top <=> n \in Int /\ 0 <= n /\ n <= top
  OBVIOUS

(* A word is a number of sixteen bits.                                       *)
LEMMA WordIs == \A n : n \in Word <=> n \in Int /\ 0 <= n /\ n < 65536
<1> DEFINE top == 256 * 256 - 1
<1>1. Word = 0 .. top
  BY SMT DEF Word
<1>2. top \in Int
  BY SMT
<1>3. top = 65535
  BY SMT
<1> HIDE DEF top
<1>4. \A n : n \in Word <=> n \in Int /\ 0 <= n /\ n <= top
  BY <1>1, <1>2, Interval, Zenon
<1> QED BY <1>3, <1>4, SMT

(* Addresses wrap at sixteen bits, up or down.                               *)
LEMMA WrapIs ==
  \A n \in Int : /\ Wrap(n) \in Word
                 /\ n \in Word => Wrap(n) = n
                 /\ 65536 <= n /\ n < 131072 => Wrap(n) = n - 65536
                 /\ n < 0 /\ -65536 <= n => Wrap(n) = n + 65536
  BY WordIs, SMT DEF Wrap

(* A word is two bytes, the low one and the high one.                        *)
LEMMA TwoBytes ==
  /\ \A lo, hi \in Byte : /\ lo + 256 * hi \in Word
                          /\ 256 * hi + lo \in Word
  /\ \A w \in Word : w % 256 \in Byte /\ w \div 256 \in Byte /\ (w % 256) + 256 * (w \div 256) = w
<1>1. \A lo, hi \in Byte : lo + 256 * hi \in Word /\ 256 * hi + lo \in Word
  BY ByteIs, WordIs, SMT
<1>2. ASSUME NEW w \in Word
      PROVE  w % 256 \in Byte /\ w \div 256 \in Byte /\ (w % 256) + 256 * (w \div 256) = w
  BY ByteIs, WordIs, SMT
<1> QED BY <1>1, <1>2

(* What is stored below 0x8000 is not kept.                                  *)
LEMMA RamIsWords == \A addr \in Ram : addr \in Word /\ addr >= 32768
  BY SMT, CpuAssumption

------------------------------------------------------------------------------
(* The registers and memory. *)

Regs == [Reg8 -> Byte]

Machine ==
  [r : Regs, f : Flags, sp : Word, pc : Word, ime : BOOLEAN, ime_next_cycle : BOOLEAN, halt : BOOLEAN,
   mem : [Ram -> Byte], alive : BOOLEAN, depth : Nat, taken : BOOLEAN, writes : Nat]

(* The words on the stack are in memory that keeps them, one above the other.*)
InMemory(m) ==
  /\ m.sp + 2 * m.depth <= 65536
  /\ \A addr \in Int : m.sp <= addr /\ addr < m.sp + 2 * m.depth => addr \in Ram

Sound(m) == m \in Machine /\ InMemory(m)

StackWord(m, k) == mem_read_short(m, Wrap(m.sp + 2 * (k - 1)))

Buried(m, n) ==
  /\ n.depth <= m.depth
  /\ \A k \in 1 .. n.depth : StackWord(n, k) = StackWord(m, k)

Pushes(m, n, w) ==
  \/ n.depth = 0
  \/ /\ n.depth = m.depth + 1
     /\ StackWord(n, 1) = w
     /\ \A k \in 1 .. m.depth : StackWord(n, k + 1) = StackWord(m, k)

Pops(m, n) ==
  /\ n.depth = IF m.depth = 0 THEN 0 ELSE m.depth - 1
  /\ \A k \in 1 .. n.depth : StackWord(n, k) = StackWord(m, k + 1)

SameRegisters(m, n) == n.r = m.r /\ n.f = m.f
SameStack(m, n)     == n.mem = m.mem /\ n.sp = m.sp /\ n.depth = m.depth
SameControl(m, n)   ==
  /\ n.pc = m.pc /\ n.taken = m.taken /\ n.alive = m.alive
  /\ n.ime = m.ime /\ n.ime_next_cycle = m.ime_next_cycle /\ n.halt = m.halt

(* Reads return bytes and words.                                             *)
LEMMA ReadsAreBytes ==
  ASSUME NEW m \in Machine
  PROVE  /\ \A addr : mem_read_byte(m, addr) \in Byte
         /\ \A addr : mem_read_short(m, addr) \in Word
<1>1. \A addr : mem_read_byte(m, addr) \in Byte
  <2>1. 0 \in Byte
    BY ByteIs
  <2> QED BY <2>1 DEF mem_read_byte, Machine
<1> QED BY <1>1, TwoBytes DEF mem_read_short

(* A word of the stack, in its two bytes.                                     *)
LEMMA WordOfStack ==
  ASSUME NEW m, Sound(m), NEW k \in 1 .. m.depth
  PROVE  /\ m.sp + 2 * (k - 1) \in Ram /\ m.sp + 2 * (k - 1) + 1 \in Ram
         /\ StackWord(m, k) = m.mem[m.sp + 2 * (k - 1)] + 256 * m.mem[m.sp + 2 * (k - 1) + 1]
<1> DEFINE lo == m.sp + 2 * (k - 1)
<1>1. m.sp \in Word /\ m.depth \in Nat
  BY DEF Sound, Machine
<1>2. lo \in Int /\ m.sp <= lo /\ lo + 1 \in Int /\ m.sp <= lo + 1 /\ lo + 1 < m.sp + 2 * m.depth
      /\ lo < m.sp + 2 * m.depth
  BY <1>1, WordIs, SMT
<1> HIDE DEF lo
<1>3. lo \in Ram /\ lo + 1 \in Ram
  BY <1>2 DEF Sound, InMemory
<1>4. lo \in Word /\ lo + 1 \in Word
  BY <1>3, RamIsWords
<1>5. Wrap(lo) = lo /\ Wrap(lo + 1) = lo + 1
  BY <1>4, <1>2, WrapIs, SMT
<1>6. StackWord(m, k) = mem_read_byte(m, lo) + 256 * mem_read_byte(m, lo + 1)
  BY <1>5 DEF StackWord, mem_read_short, lo
<1>7. StackWord(m, k) = m.mem[lo] + 256 * m.mem[lo + 1]
  BY <1>6, <1>3 DEF mem_read_byte
<1> QED BY <1>3, <1>7, Zenon DEF lo

(* The words a store leaves on the stack are those above it.                  *)
LEMMA IntactIs ==
  ASSUME NEW m, Sound(m), NEW addr \in Word
  PROVE  /\ Intact(m, addr) \in Nat /\ Intact(m, addr) <= m.depth
         /\ \A k \in 1 .. Intact(m, addr) : m.sp + 2 * (k - 1) # addr /\ m.sp + 2 * (k - 1) + 1 # addr
         /\ addr < m.sp \/ addr >= m.sp + 2 * m.depth => Intact(m, addr) = m.depth
<1> DEFINE d == addr - m.sp
<1>1. m.sp \in Word /\ m.depth \in Nat /\ m.sp + 2 * m.depth <= 65536
  BY DEF Sound, Machine, InMemory
<1>2. d \in Int /\ -65536 <= d /\ d < 65536 /\ addr = m.sp + d
  BY <1>1, WordIs, SMT
<1> HIDE DEF d
<1>3. d \in Word <=> 0 <= d
  BY <1>2, WordIs
<1>4. Wrap(d) = IF 0 <= d THEN d ELSE d + 65536
  BY <1>2, <1>3, WrapIs, SMT
<1>5. Intact(m, addr) = IF Wrap(d) < 2 * m.depth THEN Wrap(d) \div 2 ELSE m.depth
  BY DEF Intact, d
<1>6. CASE 0 <= d /\ d < 2 * m.depth
  <2>1. Intact(m, addr) = d \div 2
    BY <1>6, <1>5, <1>4
  <2>2. d \div 2 \in Nat /\ d \div 2 <= m.depth /\ 2 * (d \div 2) <= d
    BY <1>1, <1>2, <1>6, SMT
  <2>3. ASSUME NEW k \in 1 .. (d \div 2) PROVE m.sp + 2 * (k - 1) # addr /\ m.sp + 2 * (k - 1) + 1 # addr
    BY <2>2, <1>1, <1>2, WordIs, SMT
  <2>4. ~(addr < m.sp \/ addr >= m.sp + 2 * m.depth)
    BY <1>1, <1>2, <1>6, WordIs, SMT
  <2> QED BY <2>1, <2>2, <2>3, <2>4, Zenon
<1>7. CASE ~(0 <= d /\ d < 2 * m.depth)
  <2>1. Intact(m, addr) = m.depth
    <3>1. 0 <= m.sp
      BY <1>1, WordIs
    <3>2. d < 0 => d + 65536 >= 2 * m.depth
      <4>1. addr >= 0
        BY WordIs
      <4> QED BY <1>1, <1>2, <4>1, WordIs, SMT
    <3> QED BY <1>1, <1>2, <1>4, <1>5, <1>7, <3>2, SMT
  <2>2. ASSUME NEW k \in 1 .. m.depth PROVE m.sp + 2 * (k - 1) # addr /\ m.sp + 2 * (k - 1) + 1 # addr
    BY <1>7, <1>1, <1>2, WordIs, SMT
  <2> QED BY <2>1, <2>2, <1>1, SMT
<1> QED BY <1>6, <1>7

(* A store of a byte changes mem there and cuts the stack where it falls on  *)
(* it.                                                                       *)
LEMMA WriteByte ==
  ASSUME NEW m, Sound(m), NEW addr \in Word, NEW data \in Byte, NEW n, n = mem_write_byte(m, addr, data)
  PROVE  /\ Sound(n) /\ Buried(m, n) /\ SameRegisters(m, n) /\ SameControl(m, n)
         /\ n.sp = m.sp /\ n.writes = m.writes + 1
         /\ n.depth = IF addr \in Ram THEN Intact(m, addr) ELSE m.depth
         /\ \A other \in Ram : n.mem[other] = IF other = addr THEN data ELSE m.mem[other]
<1>1. m \in Machine /\ m.depth \in Nat /\ m.sp \in Word /\ m.writes \in Nat /\ m.mem \in [Ram -> Byte]
  BY DEF Sound, Machine
<1>2. CASE addr \notin Ram
  <2>1. n = [m EXCEPT !.writes = @ + 1]
    BY <1>2 DEF mem_write_byte
  <2>2. n \in Machine
    BY <2>1, <1>1 DEF Machine
  <2>3. SameStack(m, n) /\ SameRegisters(m, n) /\ SameControl(m, n) /\ n.writes = m.writes + 1
    BY <2>1, <1>1 DEF SameStack, SameRegisters, SameControl, Machine
  <2>4. InMemory(n)
    BY <2>3 DEF Sound, InMemory, SameStack
  <2>5. Buried(m, n)
    BY <2>3, <1>1 DEF Buried, SameStack, StackWord, mem_read_short, mem_read_byte
  <2> QED BY <2>2, <2>3, <2>4, <2>5, <1>2 DEF Sound, SameStack
<1>3. CASE addr \in Ram
  <2> DEFINE kept == Intact(m, addr)
  <2>1. kept \in Nat /\ kept <= m.depth
    BY IntactIs
  <2>2. \A k \in 1 .. kept : m.sp + 2 * (k - 1) # addr /\ m.sp + 2 * (k - 1) + 1 # addr
    BY IntactIs
  <2>3. n = [m EXCEPT !.mem[addr] = data, !.writes = @ + 1, !.depth = kept]
    BY <1>3 DEF mem_write_byte
  <2> HIDE DEF kept
  <2>4. /\ n.mem = [m.mem EXCEPT ![addr] = data] /\ n.writes = m.writes + 1 /\ n.depth = kept
        /\ n.sp = m.sp /\ SameRegisters(m, n) /\ SameControl(m, n)
    BY <2>3, <1>1 DEF Machine, SameRegisters, SameControl
  <2>5. n.mem \in [Ram -> Byte]
    BY <2>4, <1>1
  <2>6. n \in Machine
    <3> DEFINE new   == n.mem
               count == m.writes + 1
    <3>1. n = [m EXCEPT !.mem = new, !.writes = count, !.depth = kept]
      BY <2>3, <2>4, <1>1 DEF Machine
    <3>2. new \in [Ram -> Byte] /\ count \in Nat
      BY <2>5, <1>1
    <3> HIDE DEF new, count
    <3> QED BY <3>1, <3>2, <2>1, <1>1 DEF Machine
  <2>7. InMemory(n)
    <3>1. n.sp = m.sp /\ n.depth <= m.depth /\ n.depth \in Nat
      BY <2>1, <2>4
    <3> QED BY <3>1, <1>1, WordIs, SMT DEF Sound, InMemory
  <2>8. \A other \in Ram : n.mem[other] = IF other = addr THEN data ELSE m.mem[other]
    BY <2>4, <1>1
  <2>9. Buried(m, n)
    <3>1. Sound(n)
      BY <2>6, <2>7 DEF Sound
    <3> SUFFICES ASSUME NEW k \in 1 .. n.depth PROVE StackWord(n, k) = StackWord(m, k)
      BY <2>1, <2>4 DEF Buried
    <3> DEFINE lo == m.sp + 2 * (k - 1)
               hi == m.sp + 2 * (k - 1) + 1
    <3>2. k \in 1 .. m.depth /\ k \in 1 .. kept
      BY <2>1, <2>4, <1>1, SMT
    <3>3. lo \in Ram /\ hi \in Ram /\ StackWord(m, k) = m.mem[lo] + 256 * m.mem[hi]
      BY <3>2, WordOfStack
    <3>4. StackWord(n, k) = n.mem[lo] + 256 * n.mem[hi]
      <4>1. StackWord(n, k) = n.mem[n.sp + 2 * (k - 1)] + 256 * n.mem[n.sp + 2 * (k - 1) + 1]
        BY <3>1, WordOfStack
      <4> QED BY <4>1, <2>4, Zenon
    <3>5. lo # addr /\ hi # addr
      BY <3>2, <2>2
    <3> HIDE DEF lo, hi
    <3> QED BY <3>3, <3>4, <3>5, <2>8
  <2> QED BY <2>4, <2>6, <2>7, <2>8, <2>9, <1>3 DEF Sound, kept
<1> QED BY <1>2, <1>3

(* What is left of what was left is what was left.                           *)
LEMMA BuriedTwice ==
  ASSUME NEW m \in Machine, NEW n \in Machine, NEW o \in Machine, Buried(m, n), Buried(n, o)
  PROVE  Buried(m, o)
<1>1. m.depth \in Nat /\ n.depth \in Nat /\ o.depth \in Nat
  BY DEF Machine
<1>2. o.depth <= m.depth /\ 1 .. o.depth \subseteq 1 .. n.depth
  BY <1>1 DEF Buried
<1> QED BY <1>2 DEF Buried

(* A word of memory, in its two bytes.                                        *)
LEMMA WriteShort ==
  ASSUME NEW m, Sound(m), NEW addr \in Word, NEW data \in Word, NEW n, n = mem_write_short(m, addr, data)
  PROVE  /\ Sound(n) /\ Buried(m, n) /\ SameRegisters(m, n) /\ SameControl(m, n)
         /\ n.sp = m.sp /\ n.writes = m.writes + 2
         /\ InRam(addr) => mem_read_short(n, addr) = data
         /\ \A other \in Ram : other \notin {addr, Wrap(addr + 1)} => n.mem[other] = m.mem[other]
         /\ (\A part \in {addr, Wrap(addr + 1)} : part < m.sp \/ part >= m.sp + 2 * m.depth) => n.depth = m.depth
<1> DEFINE lo == data % 256
           hi == data \div 256
           next == Wrap(addr + 1)
           half == mem_write_byte(m, addr, lo)
<1>1. lo \in Byte /\ hi \in Byte /\ data = lo + 256 * hi
  BY TwoBytes
<1>2. next \in Word /\ next # addr
  <2>1. addr + 1 \in Int /\ (addr + 1 \in Word \/ addr + 1 = 65536)
    BY WordIs, SMT
  <2>2. addr + 1 \in Word => next = addr + 1
    BY <2>1, WrapIs
  <2>3. addr + 1 = 65536 => next = 0
    BY <2>1, WrapIs
  <2>4. next \in Word
    BY <2>1, WrapIs, WordIs
  <2> HIDE DEF next
  <2> QED BY <2>1, <2>2, <2>3, <2>4, WordIs
<1>3. n = mem_write_byte(half, next, hi)
  BY DEF mem_write_short
<1> HIDE DEF lo, hi, next
<1>4. /\ Sound(half) /\ Buried(m, half) /\ SameRegisters(m, half) /\ SameControl(m, half)
      /\ half.sp = m.sp /\ half.writes = m.writes + 1
      /\ half.depth = IF addr \in Ram THEN Intact(m, addr) ELSE m.depth
      /\ \A other \in Ram : half.mem[other] = IF other = addr THEN lo ELSE m.mem[other]
  BY <1>1, WriteByte
<1> HIDE DEF half
<1>5. /\ Sound(n) /\ Buried(half, n) /\ SameRegisters(half, n) /\ SameControl(half, n)
      /\ n.sp = half.sp /\ n.writes = half.writes + 1
      /\ n.depth = IF next \in Ram THEN Intact(half, next) ELSE half.depth
      /\ \A other \in Ram : n.mem[other] = IF other = next THEN hi ELSE half.mem[other]
  <2>1. Sound(half) /\ next \in Word /\ hi \in Byte
    BY <1>1, <1>2, <1>4
  <2> QED BY <2>1, <1>3, WriteByte
<1>6. m \in Machine /\ half \in Machine /\ n \in Machine
  BY <1>4, <1>5 DEF Sound
<1>7. Buried(m, n)
  BY <1>4, <1>5, <1>6, BuriedTwice
<1>8. SameRegisters(m, n) /\ SameControl(m, n)
  BY <1>4, <1>5 DEF SameRegisters, SameControl
<1>9. n.writes = m.writes + 2
  BY <1>4, <1>5, <1>6 DEF Machine
<1>10. InRam(addr) => mem_read_short(n, addr) = data
  BY <1>1, <1>2, <1>4, <1>5 DEF InRam, mem_read_short, mem_read_byte, next
<1>11. \A other \in Ram : other \notin {addr, next} => n.mem[other] = m.mem[other]
  BY <1>4, <1>5
<1>12. ASSUME \A part \in {addr, next} : part < m.sp \/ part >= m.sp + 2 * m.depth
       PROVE  n.depth = m.depth
  <2>1. half.depth = m.depth
    BY <1>12, <1>4, IntactIs
  <2>2. next < half.sp \/ next >= half.sp + 2 * half.depth
    BY <1>12, <2>1, <1>4
  <2> QED BY <2>1, <2>2, <1>2, <1>4, <1>5, IntactIs
<1> QED BY <1>4, <1>5, <1>7, <1>8, <1>9, <1>10, <1>11, <1>12 DEF next

(* Where the next word of the stack goes: below the others, or around the    *)
(* end of memory when there are none.                                        *)
LEMMA PlaceOfPush ==
  ASSUME NEW m, Sound(m), NEW top, top = Wrap(m.sp - 2)
  PROVE  /\ top \in Word
         /\ InRam(top) => /\ top \in Ram /\ top + 1 \in Ram /\ Wrap(top + 1) = top + 1
                          /\ top + 2 = m.sp \/ (top = 65534 /\ m.sp = 0 /\ m.depth = 0)
<1>1. m.sp \in Word /\ m.depth \in Nat
  BY DEF Sound, Machine
<1>2. m.sp - 2 \in Int /\ m.sp \in Int /\ 0 <= m.sp /\ m.sp < 65536
  BY <1>1, WordIs
<1>3. top \in Word
  BY <1>2, WrapIs
<1>4. m.sp >= 2 => top = m.sp - 2
  BY <1>2, WrapIs, WordIs, SMT
<1>5. m.sp < 2 => top = m.sp + 65534
  BY <1>2, WrapIs, SMT
<1>6. ASSUME InRam(top)
      PROVE  /\ top \in Ram /\ top + 1 \in Ram /\ Wrap(top + 1) = top + 1
             /\ top + 2 = m.sp \/ (top = 65534 /\ m.sp = 0 /\ m.depth = 0)
  <2>1. top \in Ram /\ Wrap(top + 1) \in Ram
    BY <1>6 DEF InRam
  <2>2. Wrap(top + 1) >= 32768
    BY <2>1, RamIsWords
  <2>3. top \in Int /\ top < 65536 /\ 0 <= top /\ top + 1 \in Int
    BY <1>3, WordIs
  <2>4. top + 1 = 65536 => Wrap(top + 1) = 0
    BY <2>3, WrapIs, SMT
  <2>5. top + 1 < 65536
    BY <2>2, <2>3, <2>4, SMT
  <2>6. Wrap(top + 1) = top + 1
    BY <2>3, <2>5, WrapIs, WordIs, SMT
  <2>7. CASE m.sp >= 2
    BY <2>7, <2>1, <2>6, <1>2, <1>4, SMT
  <2>8. CASE m.sp < 2
    <3>1. m.sp = 0 /\ top = 65534
      BY <2>8, <2>5, <1>2, <1>5, SMT
    <3>2. m.depth = 0
      <4> SUFFICES ASSUME m.depth # 0 PROVE FALSE
        OBVIOUS
      <4>1. 0 \in Ram
        BY <3>1, <1>1 DEF Sound, InMemory
      <4> QED BY <4>1, RamIsWords
    <3> QED BY <3>1, <3>2, <2>1, <2>6
  <2> QED BY <2>7, <2>8, <1>2
<1> QED BY <1>3, <1>6

(* cpu_push_short puts a word on top of the stack, or loses the stack where  *)
(* memory does not keep it.                                                  *)
LEMMA PushShort ==
  ASSUME NEW m, Sound(m), NEW data \in Word, NEW n, n = cpu_push_short(m, data)
  PROVE  /\ Sound(n) /\ Pushes(m, n, data) /\ SameRegisters(m, n) /\ SameControl(m, n)
         /\ n.sp = Wrap(m.sp - 2) /\ n.writes = m.writes + 2
         /\ n.depth = IF InRam(n.sp) THEN m.depth + 1 ELSE 0
         /\ InRam(n.sp) => Popped(n) = data
<1> DEFINE top == Wrap(m.sp - 2)
           stored == mem_write_short(m, top, data)
           rest == IF InRam(top) THEN stored.depth + 1 ELSE 0
<1>1. n = [stored EXCEPT !.sp = top, !.depth = rest]
  BY DEF cpu_push_short
<1>2. /\ top \in Word
      /\ InRam(top) => /\ top \in Ram /\ top + 1 \in Ram /\ Wrap(top + 1) = top + 1
                       /\ top + 2 = m.sp \/ (top = 65534 /\ m.sp = 0 /\ m.depth = 0)
  BY PlaceOfPush
<1> HIDE DEF top
<1>3. /\ Sound(stored) /\ Buried(m, stored) /\ SameRegisters(m, stored) /\ SameControl(m, stored)
      /\ stored.sp = m.sp /\ stored.writes = m.writes + 2
      /\ InRam(top) => mem_read_short(stored, top) = data
      /\ \A other \in Ram : other \notin {top, Wrap(top + 1)} => stored.mem[other] = m.mem[other]
      /\ (\A part \in {top, Wrap(top + 1)} : part < m.sp \/ part >= m.sp + 2 * m.depth) => stored.depth = m.depth
  BY <1>2, WriteShort
<1> HIDE DEF stored
<1>4. m \in Machine /\ stored \in Machine
  BY <1>3 DEF Sound
<1>5. rest \in Nat
  BY <1>4 DEF Machine
<1> HIDE DEF rest
<1>6. n \in Machine
  <2>1. top \in Word
    BY <1>2
  <2> QED BY <2>1, <1>1, <1>4, <1>5 DEF Machine
<1>7. n.sp = top /\ n.depth = rest /\ n.mem = stored.mem
      /\ n.r = stored.r /\ n.f = stored.f /\ n.writes = stored.writes /\ SameControl(stored, n)
  BY <1>1, <1>4 DEF Machine, SameControl
<1>8. SameRegisters(m, n) /\ SameControl(m, n) /\ n.writes = m.writes + 2
  BY <1>7, <1>3 DEF SameRegisters, SameControl
<1>9. InRam(top) => Popped(n) = data
  BY <1>3, <1>7 DEF Popped, mem_read_short, mem_read_byte
<1>10. CASE ~InRam(top)
  <2>1. n.depth = 0
    BY <1>10, <1>7 DEF rest
  <2>2. InMemory(n)
    BY <2>1, <1>7, <1>2, WordIs, SMT DEF InMemory
  <2>3. Pushes(m, n, data)
    BY <2>1 DEF Pushes
  <2> QED BY <2>1, <2>2, <2>3, <1>6, <1>7, <1>8, <1>10 DEF Sound, top
<1>11. CASE InRam(top)
  <2>1. m.sp \in Word /\ m.depth \in Nat /\ m.sp + 2 * m.depth <= 65536
    BY <1>4 DEF Sound, Machine, InMemory
  <2>2. top \in Int /\ m.sp \in Int /\ top < 65536 /\ 0 <= m.sp
    BY <1>2, <2>1, WordIs
  <2>3. \A part \in {top, Wrap(top + 1)} : part < m.sp \/ part >= m.sp + 2 * m.depth
    BY <1>2, <1>11, <2>1, <2>2, SMT
  <2>4. stored.depth = m.depth
    BY <2>3, <1>3
  <2>5. n.depth = m.depth + 1
    BY <2>4, <1>7, <1>11 DEF rest
  <2>6. InMemory(n)
    <3>1. n.sp + 2 * n.depth <= 65536
      BY <2>5, <1>7, <1>2, <1>11, <2>1, <2>2, SMT
    <3>2. ASSUME NEW addr \in Int, n.sp <= addr, addr < n.sp + 2 * n.depth
          PROVE  addr \in Ram
      <4>1. CASE addr = top \/ addr = top + 1
        BY <4>1, <1>2, <1>11
      <4>2. CASE addr # top /\ addr # top + 1
        <5>1. m.sp <= addr /\ addr < m.sp + 2 * m.depth
          BY <3>2, <4>2, <1>2, <1>7, <1>11, <2>1, <2>2, <2>5, SMT
        <5> QED BY <5>1 DEF Sound, InMemory
      <4> QED BY <4>1, <4>2
    <3> QED BY <3>1, <3>2 DEF InMemory
  <2>7. Sound(n)
    BY <2>6, <1>6 DEF Sound
  <2>8. StackWord(n, 1) = data
    <3>1. Wrap(n.sp + 2 * (1 - 1)) = n.sp
      BY <1>7, <1>2, <2>2, WrapIs
    <3> QED BY <3>1, <1>9, <1>11 DEF StackWord, Popped
  <2>9. ASSUME NEW k \in 1 .. m.depth, NEW j, j = k + 1 PROVE StackWord(n, j) = StackWord(m, k)
    <3> DEFINE lo == m.sp + 2 * (k - 1)
               hi == m.sp + 2 * (k - 1) + 1
    <3>1. lo \in Ram /\ hi \in Ram /\ StackWord(m, k) = m.mem[lo] + 256 * m.mem[hi]
      BY WordOfStack
    <3>2. StackWord(n, j) = n.mem[n.sp + 2 * (j - 1)] + 256 * n.mem[n.sp + 2 * (j - 1) + 1]
      <4>1. j \in 1 .. n.depth
        BY <2>1, <2>5, <2>9
      <4> QED BY <4>1, <2>7, WordOfStack
    <3>3. n.sp + 2 * (j - 1) = lo /\ n.sp + 2 * (j - 1) + 1 = hi
      BY <1>2, <1>7, <1>11, <2>1, <2>2, <2>9, SMT
    <3>4. lo \notin {top, Wrap(top + 1)} /\ hi \notin {top, Wrap(top + 1)}
      BY <1>2, <1>11, <2>1, <2>2, SMT
    <3> HIDE DEF lo, hi
    <3>5. n.mem[lo] = m.mem[lo] /\ n.mem[hi] = m.mem[hi]
      BY <3>1, <3>4, <1>3, <1>7
    <3> QED BY <3>1, <3>2, <3>3, <3>5
  <2>10. Pushes(m, n, data)
    BY <2>5, <2>8, <2>9 DEF Pushes
  <2> QED BY <2>5, <2>7, <2>10, <1>7, <1>8, <1>9, <1>11 DEF top
<1> QED BY <1>10, <1>11

(* cpu_pop_short takes the top word off.                                     *)
LEMMA PopShort ==
  ASSUME NEW m, Sound(m), NEW n, n = cpu_pop_short(m)
  PROVE  /\ Sound(n) /\ Pops(m, n) /\ SameRegisters(m, n) /\ SameControl(m, n)
         /\ n.writes = m.writes
         /\ Popped(m) \in Word
         /\ m.depth # 0 => Popped(m) = StackWord(m, 1)
<1> DEFINE s == Wrap(m.sp + 2)
           rest == IF m.depth = 0 THEN 0 ELSE m.depth - 1
<1>1. m \in Machine /\ m.sp \in Word /\ m.depth \in Nat /\ m.sp + 2 * m.depth <= 65536
  BY DEF Sound, Machine, InMemory
<1>2. m.sp \in Int /\ m.sp + 2 \in Int /\ 0 <= m.sp /\ m.sp < 65536
  BY <1>1, WordIs
<1>3. s \in Word
  BY <1>2, WrapIs
<1>4. rest \in Nat
  BY <1>1
<1>5. n = [m EXCEPT !.sp = s, !.depth = rest]
  BY <1>1 DEF cpu_pop_short, Machine
<1>6. rest # 0 => s = m.sp + 2
  <2>1. rest # 0 => m.sp + 2 < 65536
    BY <1>1, <1>2
  <2>2. m.sp + 2 < 65536 => m.sp + 2 \in Word
    BY <1>2, WordIs
  <2> HIDE DEF rest
  <2> QED BY <2>1, <2>2, <1>2, WrapIs
<1>7. rest # 0 => rest = m.depth - 1
  OBVIOUS
<1>8. rest = IF m.depth = 0 THEN 0 ELSE m.depth - 1
  OBVIOUS
<1> HIDE DEF s, rest
<1>9. n \in Machine
  <2>1. m \in Machine
    BY <1>1
  <2> QED BY <2>1, <1>3, <1>4, <1>5 DEF Machine
<1>10. /\ n.sp = s /\ n.depth = rest /\ n.mem = m.mem /\ n.writes = m.writes
       /\ SameRegisters(m, n) /\ SameControl(m, n)
  BY <1>1, <1>5 DEF Machine, SameRegisters, SameControl
<1>11. s \in Int /\ s < 65536
  BY <1>3, WordIs
<1>12. InMemory(n)
  <2>1. CASE rest = 0
    BY <2>1, <1>10, <1>11, SMT DEF InMemory
  <2>2. CASE rest # 0
    <3>1. n.sp + 2 * n.depth = m.sp + 2 * m.depth /\ m.sp <= n.sp
      BY <2>2, <1>1, <1>2, <1>6, <1>7, <1>10, SMT
    <3> QED BY <3>1, <1>1, <1>2, <1>4, <1>10, <1>11, SMT DEF Sound, InMemory
  <2> QED BY <2>1, <2>2
<1>13. Sound(n)
  BY <1>9, <1>12 DEF Sound
<1>14. ASSUME NEW k \in 1 .. n.depth, NEW j, j = k + 1 PROVE StackWord(n, k) = StackWord(m, j)
  <2>1. j \in 1 .. m.depth
    BY <1>14, <1>1, <1>4, <1>7, <1>10, SMT
  <2>2. StackWord(m, j) = m.mem[m.sp + 2 * (j - 1)] + 256 * m.mem[m.sp + 2 * (j - 1) + 1]
    BY <2>1, WordOfStack
  <2>3. StackWord(n, k) = n.mem[n.sp + 2 * (k - 1)] + 256 * n.mem[n.sp + 2 * (k - 1) + 1]
    BY <1>13, WordOfStack
  <2>4. n.sp + 2 * (k - 1) = m.sp + 2 * (j - 1) /\ n.sp + 2 * (k - 1) + 1 = m.sp + 2 * (j - 1) + 1
    BY <1>14, <1>1, <1>2, <1>4, <1>6, <1>10, SMT
  <2> QED BY <2>2, <2>3, <2>4, <1>10
<1>15. Pops(m, n)
  BY <1>8, <1>10, <1>14 DEF Pops
<1>16. Popped(m) \in Word
  BY <1>1, ReadsAreBytes DEF Popped
<1>17. m.depth # 0 => Popped(m) = StackWord(m, 1)
  <2>1. Wrap(m.sp + 2 * (1 - 1)) = m.sp
    BY <1>1, <1>2, WrapIs
  <2> QED BY <2>1 DEF Popped, StackWord
<1> QED BY <1>10, <1>13, <1>15, <1>16, <1>17

(* The pairs of registers. *)
LEMMA PairsAreWords ==
  ASSUME NEW m \in Machine, NEW t \in {"BC", "DE", "HL", "AF"}
  PROVE  Pair(m, t) \in Word
<1>1. m.r \in Regs /\ m.f \in Flags
  BY DEF Machine
<1>2. m.r.A \in Byte /\ m.r.B \in Byte /\ m.r.C \in Byte /\ m.r.D \in Byte /\ m.r.E \in Byte
      /\ m.r.H \in Byte /\ m.r.L \in Byte
  BY <1>1 DEF Regs, Reg8
<1>3. 128 * Bit(m.f.z) + 64 * Bit(m.f.n) + 32 * Bit(m.f.h) + 16 * Bit(m.f.c) \in Byte
  BY <1>1, ByteIs, SMT DEF Bit, Flags
<1>4. 256 * m.r.B + m.r.C \in Word /\ 256 * m.r.D + m.r.E \in Word /\ 256 * m.r.H + m.r.L \in Word
  BY <1>2, ByteIs, WordIs, SMT
<1>5. 256 * m.r.A + 128 * Bit(m.f.z) + 64 * Bit(m.f.n) + 32 * Bit(m.f.h) + 16 * Bit(m.f.c) \in Word
  BY <1>1, <1>2, ByteIs, WordIs, SMT DEF Bit, Flags
<1> QED BY <1>4, <1>5, Zenon DEF Pair

SameButRegisters(m, n) == SameStack(m, n) /\ SameControl(m, n) /\ n.writes = m.writes

(* Nothing on the stack changes while mem and sp stay.                       *)
LEMMA Untouched ==
  ASSUME NEW m, Sound(m), NEW n \in Machine, SameStack(m, n)
  PROVE  Sound(n) /\ Buried(m, n)
<1>1. InMemory(n)
  BY DEF Sound, InMemory, SameStack
<1>2. m.depth \in Nat
  BY DEF Sound, Machine
<1>3. Buried(m, n)
  BY <1>2 DEF Buried, SameStack, StackWord, mem_read_short, mem_read_byte
<1> QED BY <1>1, <1>3 DEF Sound

(* Stores to registers and flags change nothing else: a register ...         *)
LEMMA RegisterFits ==
  ASSUME NEW m \in Machine, NEW t \in Reg8, NEW b \in Byte, NEW n, n = [m EXCEPT !.r[t] = b]
  PROVE  n \in Machine /\ SameButRegisters(m, n)
  BY DEF Machine, Regs, SameButRegisters, SameStack, SameControl

(* ... F ...                                                                 *)
LEMMA FlagsFit ==
  ASSUME NEW m \in Machine, NEW g \in Flags, NEW n, n = [m EXCEPT !.f = g]
  PROVE  n \in Machine /\ SameButRegisters(m, n)
  BY DEF Machine, SameButRegisters, SameStack, SameControl

(* ... and a pair of registers.                                              *)
LEMMA SetPairFits ==
  ASSUME NEW m \in Machine, NEW t \in {"BC", "DE", "HL", "AF"}, NEW data \in Word, NEW n, n = SetPair(m, t, data)
  PROVE  n \in Machine /\ SameButRegisters(m, n)
<1> DEFINE hi == data \div 256
           lo == data % 256
           g  == [z |-> 7 \in SetBits(lo), n |-> 6 \in SetBits(lo),
                  h |-> 5 \in SetBits(lo), c |-> 4 \in SetBits(lo)]
<1>1. hi \in Byte /\ lo \in Byte
  BY TwoBytes
<1>2. g \in Flags
  BY DEF Flags
<1>3. \/ n = [m EXCEPT !.r.B = hi, !.r.C = lo] \/ n = [m EXCEPT !.r.D = hi, !.r.E = lo]
      \/ n = [m EXCEPT !.r.H = hi, !.r.L = lo] \/ n = [m EXCEPT !.r.A = hi, !.f = g]
  BY Zenon DEF SetPair
<1> HIDE DEF hi, lo, g
<1>4. ASSUME NEW hiname \in Reg8, NEW loname \in Reg8, n = [m EXCEPT !.r[hiname] = hi, !.r[loname] = lo]
      PROVE  n \in Machine /\ SameButRegisters(m, n)
  <2> DEFINE half == [m EXCEPT !.r[hiname] = hi]
  <2>1. n = [half EXCEPT !.r[loname] = lo]
    BY <1>4
  <2>2. half \in Machine /\ SameButRegisters(m, half)
    BY <1>1, RegisterFits
  <2> HIDE DEF half
  <2>3. n \in Machine /\ SameButRegisters(half, n)
    BY <1>1, <2>1, <2>2, RegisterFits
  <2> QED BY <2>2, <2>3 DEF SameButRegisters, SameStack, SameControl
<1>5. ASSUME n = [m EXCEPT !.r.A = hi, !.f = g]
      PROVE  n \in Machine /\ SameButRegisters(m, n)
  <2> DEFINE half == [m EXCEPT !.r.A = hi]
  <2>1. n = [half EXCEPT !.f = g]
    BY <1>5
  <2>2. half \in Machine /\ SameButRegisters(m, half)
    BY <1>1, RegisterFits DEF Reg8
  <2> HIDE DEF half
  <2>3. n \in Machine /\ SameButRegisters(half, n)
    BY <1>2, <2>1, <2>2, FlagsFit
  <2> QED BY <2>2, <2>3 DEF SameButRegisters, SameStack, SameControl
<1> QED BY <1>3, <1>4, <1>5 DEF Reg8

(* get_op_8 and get_op_16 return bytes and words, whatever the target.       *)
LEMMA OperandsFit ==
  ASSUME NEW m \in Machine, NEW code \in Code, NEW t
  PROVE  get_op_8(m, t, code) \in Byte /\ get_op_16(m, t, code) \in Word
<1>1. code[2] \in Byte /\ code[3] \in Byte
  BY DEF Code
<1>2. m.r \in Regs /\ m.sp \in Word
  BY DEF Machine
<1>3. Pair(m, "AF") % 256 \in Byte /\ m.sp % 256 \in Byte
  BY <1>2, PairsAreWords, ByteIs, WordIs, SMT
<1>4. \A addr : mem_read_byte(m, addr) \in Byte
  BY ReadsAreBytes
<1>5. \h67 \in Byte /\ \h69 \in Word /\ code[2] \in Word
  BY <1>1, ByteIs, WordIs, SMT
<1>6. t \in Reg8 => m.r[t] \in Byte
  BY <1>2 DEF Regs
<1>7. mem_read_d8(code) \in Byte /\ mem_read_d8(code) \in Word /\ mem_read_d16(code) \in Word
  BY <1>1, <1>5, ByteIs, WordIs, SMT DEF mem_read_d8, mem_read_d16
<1>8. get_op_8(m, t, code) \in Byte
  BY <1>3, <1>4, <1>5, <1>6, <1>7, Zenon DEF get_op_8
<1>9. get_op_16(m, t, code) \in Word
  BY <1>2, <1>5, <1>7, PairsAreWords, Zenon DEF get_op_16
<1> QED BY <1>8, <1>9

(* Operands behind an address are at one of sixteen bits.                    *)
LEMMA AddressesAreWords ==
  ASSUME NEW m \in Machine, NEW code \in Code, NEW t
  PROVE  Address(m, t, code) \in Word
<1>1. code[2] \in Byte /\ code[3] \in Byte
  BY DEF Code
<1>2. m.r.C \in Byte
  BY DEF Machine, Regs, Reg8
<1>3. HighPage(m.r.C) \in Word /\ HighPage(mem_read_d8(code)) \in Word /\ mem_read_d16(code) \in Word
  BY <1>1, <1>2, ByteIs, WordIs, SMT DEF HighPage, mem_read_d8, mem_read_d16
<1>4. Pair(m, "BC") \in Word /\ Pair(m, "DE") \in Word /\ Pair(m, "HL") \in Word
  BY PairsAreWords
<1> QED BY <1>3, <1>4, Zenon DEF Address

------------------------------------------------------------------------------
(* Arithmetic. *)

(* AluProofs, of the registers A and B and of F.                             *)
Ops == INSTANCE AluProofs WITH Operands <- Byte, a <- r.A, b <- r.B, flags <- f

Outcome8  == [r : Byte, f : Flags]
Outcome16 == [r : Word, f : Flags]

(* AluProofs is about these bytes and flags.                                 *)
LEMMA SameBytes ==
  Ops!OperandsAssumption /\ Ops!Outcomes = Outcome8 /\ Ops!Byte = Byte /\ Ops!Flags = Flags
  BY DEF Ops!OperandsAssumption, Ops!Outcomes, Outcome8, Ops!Byte, Byte, Ops!Flags, Flags

(* What the instructions leave in a register and in F fits them.             *)
LEMMA TwoOperandFits ==
  ASSUME NEW x \in Byte, NEW y \in Byte, NEW g \in Flags, NEW op \in TwoOperandOps
  PROVE  TwoOperand(op, x, y, g) \in Outcome8
<1>1. /\ Ops!cpu_add(x, y, g) = cpu_add(x, y, g)
      /\ Ops!cpu_adc(x, y, g) = cpu_adc(x, y, g)
      /\ Ops!cpu_sub(x, y, g) = cpu_sub(x, y, g)
      /\ Ops!cpu_sbc(x, y, g) = cpu_sbc(x, y, g)
      /\ Ops!cpu_cp(x, y, g) = cpu_cp(x, y, g)
  BY Zenon DEF Ops!cpu_add, cpu_add, Ops!cpu_adc, cpu_adc, Ops!cpu_sub, cpu_sub, Ops!cpu_sbc, cpu_sbc,
               Ops!cpu_cp, cpu_cp, Ops!Bit, Bit, Ops!Nibble, Nibble
<1>2. /\ Ops!cpu_and(x, y, g) = cpu_and(x, y, g)
      /\ Ops!cpu_or(x, y, g) = cpu_or(x, y, g)
      /\ Ops!cpu_xor(x, y, g) = cpu_xor(x, y, g)
  BY DEF Ops!cpu_and, cpu_and, Ops!cpu_or, cpu_or, Ops!cpu_xor, cpu_xor, Ops!Logical, Logical,
         Ops!Value, Value, Ops!SetBits, SetBits
<1>3. /\ cpu_add(x, y, g) \in Outcome8 /\ cpu_adc(x, y, g) \in Outcome8
      /\ cpu_sub(x, y, g) \in Outcome8 /\ cpu_sbc(x, y, g) \in Outcome8 /\ cpu_cp(x, y, g) \in Outcome8
  BY <1>1, SameBytes, Ops!ArithmeticIsByte
<1>4. cpu_and(x, y, g) \in Outcome8 /\ cpu_or(x, y, g) \in Outcome8 /\ cpu_xor(x, y, g) \in Outcome8
  BY <1>2, SameBytes, Ops!LogicIsByte
<1> QED BY <1>3, <1>4, Zenon DEF TwoOperand, TwoOperandOps

(* The same for one operand ...                                              *)
LEMMA OneOperandFits ==
  ASSUME NEW x \in Byte, NEW g \in Flags, NEW t, NEW op \in OneOperandOps
  PROVE  OneOperand(op, x, t, g) \in Outcome8
<1>1. /\ Ops!cpu_inc(x, g) = cpu_inc(x, g)
      /\ Ops!cpu_dec(x, g) = cpu_dec(x, g)
  BY Zenon DEF Ops!cpu_inc, cpu_inc, Ops!cpu_dec, cpu_dec, Ops!Nibble, Nibble
<1>2. cpu_inc(x, g) \in Outcome8 /\ cpu_dec(x, g) \in Outcome8
  BY <1>1, SameBytes, Ops!ArithmeticIsByte
<1>3. /\ Ops!cpu_rlc(x, g) = cpu_rlc(x, g) /\ Ops!cpu_rrc(x, g) = cpu_rrc(x, g)
      /\ Ops!cpu_rl(x, g) = cpu_rl(x, g)   /\ Ops!cpu_rr(x, g) = cpu_rr(x, g)
      /\ Ops!cpu_sla(x, g) = cpu_sla(x, g) /\ Ops!cpu_sra(x, g) = cpu_sra(x, g)
      /\ Ops!cpu_srl(x, g) = cpu_srl(x, g) /\ Ops!cpu_swap(x, g) = cpu_swap(x, g)
  BY Zenon DEF Ops!cpu_rlc, cpu_rlc, Ops!cpu_rrc, cpu_rrc, Ops!cpu_rl, cpu_rl, Ops!cpu_rr, cpu_rr,
               Ops!cpu_sla, cpu_sla, Ops!cpu_sra, cpu_sra, Ops!cpu_srl, cpu_srl, Ops!cpu_swap, cpu_swap,
               Ops!Shifted, Shifted, Ops!Bit, Bit, Ops!Nibble, Nibble
<1>4. /\ cpu_rlc(x, g) \in Outcome8 /\ cpu_rrc(x, g) \in Outcome8
      /\ cpu_rl(x, g) \in Outcome8 /\ cpu_rr(x, g) \in Outcome8
      /\ cpu_sla(x, g) \in Outcome8 /\ cpu_sra(x, g) \in Outcome8
      /\ cpu_srl(x, g) \in Outcome8 /\ cpu_swap(x, g) \in Outcome8
  BY <1>3, SameBytes, Ops!ShiftsAreBytes
<1>5. \A out \in Outcome8 : ZeroCleared(out) \in Outcome8
  BY DEF ZeroCleared, Outcome8, Flags
<1>6. /\ Ops!cpu_res(Number(t), x, g) = cpu_res(Number(t), x, g)
      /\ Ops!cpu_set(Number(t), x, g) = cpu_set(Number(t), x, g)
  BY Zenon DEF Ops!cpu_res, cpu_res, Ops!cpu_set, cpu_set, Ops!Value, Value, Ops!SetBits, SetBits
<1>7. cpu_res(Number(t), x, g) \in Outcome8 /\ cpu_set(Number(t), x, g) \in Outcome8
  BY <1>6, SameBytes, Ops!LogicIsByte
<1> QED BY <1>2, <1>4, <1>5, <1>7, Zenon DEF OneOperand, OneOperandOps

(* ... for the accumulator and the flags alone ...                           *)
LEMMA AccumulatorFits ==
  ASSUME NEW x \in Byte, NEW g \in Flags, NEW op \in AccumulatorOps
  PROVE  OnAccumulator(op, x, g) \in Outcome8
<1>1. /\ Ops!cpu_daa(x, g) = cpu_daa(x, g) /\ Ops!cpu_cpl(x, g) = cpu_cpl(x, g)
      /\ Ops!cpu_scf(x, g) = cpu_scf(x, g) /\ Ops!cpu_ccf(x, g) = cpu_ccf(x, g)
  BY DEF Ops!cpu_daa, cpu_daa, Ops!DaaLow, DaaLow, Ops!DaaHigh, DaaHigh, Ops!Nibble, Nibble, Ops!Bit, Bit,
         Ops!cpu_cpl, cpu_cpl, Ops!cpu_scf, cpu_scf, Ops!cpu_ccf, cpu_ccf
<1>2. /\ cpu_daa(x, g) \in Outcome8 /\ cpu_cpl(x, g) \in Outcome8
      /\ cpu_scf(x, g) \in Outcome8 /\ cpu_ccf(x, g) \in Outcome8
  BY <1>1, SameBytes, Ops!DaaIsByte, Ops!LogicIsByte
<1> QED BY <1>2, Zenon DEF OnAccumulator, AccumulatorOps

(* ... and for words.                                                        *)
LEMMA WordsFit ==
  ASSUME NEW x \in Word, NEW y \in Word, NEW g \in Flags, NEW op \in WordOps
  PROVE  Words(op, x, y, g) \in Outcome16
<1>1. cpu_add16(x, y, g) \in Outcome16
  <2>1. (x + y) % 65536 \in Word
    BY WordIs, SMT
  <2> QED BY <2>1 DEF cpu_add16, Outcome16, Flags
<1>2. cpu_add_spd8(x, y) \in Outcome16
  <2>1. (x + Signed(y)) % 65536 \in Word
    BY WordIs, SMT DEF Signed
  <2> QED BY <2>1 DEF cpu_add_spd8, Outcome16, Flags
<1>3. Wrap(x + 1) \in Word /\ Wrap(x - 1) \in Word
  BY WordIs, WrapIs
<1>4. /\ [r |-> Wrap(x + 1), f |-> g] \in Outcome16
      /\ [r |-> Wrap(x - 1), f |-> g] \in Outcome16
      /\ [r |-> y, f |-> g] \in Outcome16
  BY <1>3 DEF Outcome16
<1> QED BY <1>1, <1>2, <1>4, Zenon DEF Words, WordOps

------------------------------------------------------------------------------
(* What an instruction does to the stack, the program counter and memory. *)

Writable8  == Reg8 \cup MemoryTargets \cup {"F"}
Writable16 == {"BC", "DE", "HL", "AF", "SP", "D16_AS_ADDR"}

(* An instruction that leaves the program counter behind itself, pushes and  *)
(* pops nothing, and stores w bytes.                                          *)
Plain(m, n, w) ==
  Sound(n) /\ Buried(m, n) /\ n.pc = m.pc /\ n.taken = m.taken /\ n.writes = m.writes + w

(* Where nothing is stored, the stack stays.                                 *)
LEMMA PlainIfUntouched ==
  ASSUME NEW m, Sound(m), NEW n \in Machine, SameStack(m, n), n.pc = m.pc, n.taken = m.taken,
         n.writes = m.writes
  PROVE  Plain(m, n, 0)
<1>1. m.writes \in Nat
  BY DEF Sound, Machine
<1> QED BY <1>1, Untouched DEF Plain

(* The exit of the emulator changes nothing but alive.                       *)
LEMMA ExitFits ==
  ASSUME NEW m, Sound(m)
  PROVE  Plain(m, Exit(m), 0)
<1> DEFINE n == Exit(m)
<1>1. m \in Machine
  BY DEF Sound
<1>2. n \in Machine /\ SameStack(m, n) /\ n.pc = m.pc /\ n.taken = m.taken /\ n.writes = m.writes
  BY <1>1 DEF Exit, Machine, SameStack
<1> HIDE DEF n
<1>3. Plain(m, n, 0)
  BY <1>2, PlainIfUntouched
<1> QED BY <1>3 DEF n

(* set_dest_8 stores a byte when its target is in memory, and exits when it  *)
(* has none to store to.                                                     *)
LEMMA SetDest8 ==
  ASSUME NEW m, Sound(m), NEW code \in Code, NEW data \in Byte, NEW t, NEW n, n = set_dest_8(m, t, code, data)
  PROVE  /\ Plain(m, n, IF t \in MemoryTargets THEN 1 ELSE 0)
         /\ t \in Writable8 => n.alive = m.alive
<1>1. m \in Machine
  BY DEF Sound
<1>2. CASE t \in Reg8
  <2>0. t # "F" /\ t \notin MemoryTargets
    BY <1>2 DEF Reg8, MemoryTargets
  <2>1. n = [m EXCEPT !.r[t] = data]
    BY <2>0, <1>2, Zenon DEF set_dest_8
  <2>2. n \in Machine /\ SameButRegisters(m, n)
    BY <1>1, <1>2, <2>1, RegisterFits
  <2>3. Plain(m, n, 0)
    BY <2>2, PlainIfUntouched DEF SameButRegisters, SameControl
  <2> QED BY <2>0, <2>2, <2>3 DEF SameButRegisters, SameControl
<1>3. CASE t = "F"
  <2> DEFINE word == 256 * m.r.A + data
  <2>0. t \notin Reg8 /\ t \notin MemoryTargets
    BY <1>3 DEF Reg8, MemoryTargets
  <2>1. n = SetPair(m, "AF", word)
    BY <2>0, <1>3, Zenon DEF set_dest_8
  <2>2. word \in Word
    BY <1>1, TwoBytes DEF Machine, Regs, Reg8
  <2> HIDE DEF word
  <2>3. n \in Machine /\ SameButRegisters(m, n)
    BY <1>1, <2>1, <2>2, SetPairFits
  <2>4. Plain(m, n, 0)
    BY <2>3, PlainIfUntouched DEF SameButRegisters, SameControl
  <2> QED BY <2>0, <2>3, <2>4 DEF SameButRegisters, SameControl
<1>4. CASE t \in MemoryTargets
  <2> DEFINE addr == Address(m, t, code)
  <2>1. n = mem_write_byte(m, addr, data)
    BY <1>4, Zenon DEF set_dest_8, Reg8, MemoryTargets
  <2>2. addr \in Word
    BY <1>1, AddressesAreWords
  <2> HIDE DEF addr
  <2>3. /\ Sound(n) /\ Buried(m, n) /\ SameControl(m, n) /\ n.writes = m.writes + 1
    BY <2>1, <2>2, WriteByte
  <2> QED BY <2>3, <1>4 DEF Plain, SameControl
<1>5. CASE t \notin Writable8
  <2>1. n = Exit(m) /\ t \notin MemoryTargets
    BY <1>5, Zenon DEF set_dest_8, Writable8
  <2> QED BY <2>1, <1>5, ExitFits
<1> QED BY <1>2, <1>3, <1>4, <1>5 DEF Writable8

(* set_dest_16 stores two bytes at an address behind the opcode, and exits   *)
(* when it has no target.                                                    *)
LEMMA SetDest16 ==
  ASSUME NEW m, Sound(m), NEW code \in Code, NEW data \in Word, NEW t, NEW n, n = set_dest_16(m, t, code, data)
  PROVE  /\ Plain(m, n, IF t = "D16_AS_ADDR" THEN 2 ELSE 0)
         /\ t \in Writable16 => n.alive = m.alive
         /\ t \in {"BC", "DE", "HL", "AF"} => SameButRegisters(m, n)
<1>1. m \in Machine
  BY DEF Sound
<1>2. CASE t \in {"BC", "DE", "HL", "AF"}
  <2>1. n = SetPair(m, t, data)
    BY <1>2, Zenon DEF set_dest_16
  <2>2. n \in Machine /\ SameButRegisters(m, n)
    BY <1>1, <1>2, <2>1, SetPairFits
  <2>3. Plain(m, n, 0)
    BY <2>2, PlainIfUntouched DEF SameButRegisters, SameControl
  <2>4. t # "D16_AS_ADDR"
    BY <1>2
  <2> QED BY <2>2, <2>3, <2>4 DEF SameButRegisters, SameControl
<1>3. CASE t = "SP"
  <2> DEFINE none == 0
  <2>1. n = [m EXCEPT !.sp = data, !.depth = none]
    BY <1>3, Zenon DEF set_dest_16
  <2>2. n \in Machine /\ n.sp = data /\ n.depth = none /\ SameControl(m, n) /\ n.writes = m.writes
    <3>1. none \in Nat
      OBVIOUS
    <3> HIDE DEF none
    <3> QED BY <1>1, <2>1, <3>1 DEF Machine, SameControl
  <2>3. InMemory(n)
    BY <2>2, WordIs, SMT DEF InMemory
  <2>4. Buried(m, n)
    BY <1>1, <2>2 DEF Buried, Machine
  <2>5. m.writes \in Nat
    BY <1>1 DEF Machine
  <2> QED BY <2>2, <2>3, <2>4, <2>5, <1>3 DEF Plain, Sound, SameControl
<1>4. CASE t = "D16_AS_ADDR"
  <2> DEFINE addr == mem_read_d16(code)
  <2>1. n = mem_write_short(m, addr, data)
    BY <1>4, Zenon DEF set_dest_16
  <2>2. addr \in Word
    BY TwoBytes DEF mem_read_d16, Code
  <2> HIDE DEF addr
  <2>3. /\ Sound(n) /\ Buried(m, n) /\ SameControl(m, n) /\ n.writes = m.writes + 2
    BY <2>1, <2>2, WriteShort
  <2> QED BY <2>3, <1>4 DEF Plain, SameControl
<1>5. CASE t \notin Writable16
  <2>1. n = Exit(m) /\ t # "D16_AS_ADDR" /\ t \notin {"BC", "DE", "HL", "AF"}
    BY <1>5, Zenon DEF set_dest_16, Writable16
  <2> QED BY <2>1, <1>5, ExitFits
<1> QED BY <1>2, <1>3, <1>4, <1>5 DEF Writable16

(* Plain effects, with registers changed before.                             *)
LEMMA PlainAfter ==
  ASSUME NEW m, Sound(m), NEW o \in Machine, SameButRegisters(m, o), NEW w, NEW n, Plain(o, n, w)
  PROVE  Plain(m, n, w)
<1>1. Buried(m, o)
  BY Untouched DEF SameButRegisters
<1>2. m \in Machine /\ n \in Machine
  BY DEF Sound, Plain
<1>3. Buried(m, n)
  BY <1>1, <1>2, BuriedTwice DEF Plain
<1> QED BY <1>3 DEF Plain, SameButRegisters, SameControl

RegisterOps ==
  TwoOperandOps \cup AccumulatorOps \cup {"BIT", "LD_SP_PLUS_D8", "DI", "EI", "HALT", "NOP", "STOP"}

(* A result in A, with its flags.                                            *)
LEMMA SetAFits ==
  ASSUME NEW m, Sound(m), NEW out \in Outcome8, NEW n, n = SetA(m, out)
  PROVE  n \in Machine /\ SameButRegisters(m, n)
<1>1. m \in Machine /\ out.r \in Byte /\ out.f \in Flags
  BY DEF Sound, Outcome8
<1> DEFINE half == [m EXCEPT !.r.A = out.r]
<1>2. n = [half EXCEPT !.f = out.f]
  BY DEF SetA
<1>3. half \in Machine /\ SameButRegisters(m, half)
  BY <1>1, RegisterFits DEF Reg8
<1> HIDE DEF half
<1>4. n \in Machine /\ SameButRegisters(half, n)
  BY <1>1, <1>2, <1>3, FlagsFit
<1> QED BY <1>3, <1>4 DEF SameButRegisters, SameStack, SameControl

(* Instructions on registers alone store nothing and end nowhere.            *)
LEMMA RegisterOpsArePlain ==
  ASSUME NEW m, Sound(m), NEW code \in Code, NEW here, NEW i, i.op \in RegisterOps,
         NEW n, n = Executed(m, i, code, here)
  PROVE  Plain(m, n, 0) /\ n.alive = m.alive
<1> DEFINE x8  == get_op_8(m, i.t1, code)
           y8  == get_op_8(m, i.t2, code)
           x16 == get_op_16(m, i.t1, code)
<1>1. m \in Machine /\ m.f \in Flags /\ m.r.A \in Byte
  BY DEF Sound, Machine, Regs, Reg8
<1>2. x8 \in Byte /\ y8 \in Byte /\ x16 \in Word
  BY <1>1, OperandsFit
<1>3. SUFFICES n \in Machine /\ SameStack(m, n) /\ n.pc = m.pc /\ n.taken = m.taken
               /\ n.writes = m.writes /\ n.alive = m.alive
  BY PlainIfUntouched
<1>4. SUFFICES ASSUME ~(n \in Machine /\ SameButRegisters(m, n)) PROVE
                 n \in Machine /\ SameStack(m, n) /\ n.pc = m.pc /\ n.taken = m.taken
                 /\ n.writes = m.writes /\ n.alive = m.alive
  BY DEF SameButRegisters, SameControl
<1>5. CASE i.op \in TwoOperandOps
  <2>1. n = SetA(m, TwoOperand(i.op, x8, y8, m.f))
    BY <1>5, Zenon DEF Executed, TwoOperandOps, OneOperandOps, AccumulatorOps, WordOps, JumpOps
  <2> HIDE DEF x8, y8, x16
  <2> QED BY <2>1, <1>1, <1>2, <1>4, <1>5, TwoOperandFits, SetAFits
<1>6. CASE i.op \in AccumulatorOps
  <2>1. n = SetA(m, OnAccumulator(i.op, m.r.A, m.f))
    BY <1>6, Zenon DEF Executed, TwoOperandOps, OneOperandOps, AccumulatorOps, WordOps, JumpOps
  <2> QED BY <2>1, <1>1, <1>4, <1>6, AccumulatorFits, SetAFits
<1>7. CASE i.op = "BIT"
  <2>1. n = [m EXCEPT !.f = cpu_bit(Number(i.t2), x8, m.f).f]
    BY <1>7, Zenon DEF Executed, TwoOperandOps, OneOperandOps, AccumulatorOps, WordOps, JumpOps
  <2> HIDE DEF x8, y8, x16
  <2>2. cpu_bit(Number(i.t2), x8, m.f).f \in Flags
    BY <1>1 DEF cpu_bit, Flags
  <2> QED BY <2>1, <2>2, <1>1, <1>4, FlagsFit
<1>8. CASE i.op = "LD_SP_PLUS_D8"
  <2> DEFINE out == cpu_ld_sp_plus_d8(x16, y8)
  <2>1. n = SetPair([m EXCEPT !.f = out.f], "HL", out.r)
    BY <1>8, Zenon DEF Executed, TwoOperandOps, OneOperandOps, AccumulatorOps, WordOps, JumpOps
  <2> HIDE DEF x8, y8, x16
  <2>2. out \in Outcome16
    <3>1. (x16 + Signed(y8)) % 65536 \in Word
      BY <1>2, ByteIs, WordIs, SMT DEF Signed
    <3> QED BY <3>1 DEF cpu_ld_sp_plus_d8, cpu_add_spd8, Outcome16, Flags
  <2> HIDE DEF out
  <2>3. out.r \in Word /\ out.f \in Flags
    BY <2>2 DEF Outcome16
  <2> DEFINE half == [m EXCEPT !.f = out.f]
  <2>4. half \in Machine /\ SameButRegisters(m, half)
    BY <1>1, <2>3, FlagsFit
  <2> HIDE DEF half
  <2>5. n = SetPair(half, "HL", out.r)
    BY <2>1 DEF half
  <2>6. n \in Machine /\ SameButRegisters(half, n)
    BY <2>3, <2>4, <2>5, SetPairFits
  <2> QED BY <2>4, <2>6 DEF SameButRegisters, SameStack, SameControl
<1>9. CASE i.op \in {"DI", "EI", "HALT", "NOP", "STOP"}
  <2>1. \/ n = [m EXCEPT !.ime = FALSE] \/ n = [m EXCEPT !.ime_next_cycle = TRUE]
        \/ n = [m EXCEPT !.halt = TRUE] \/ n = m
    BY <1>9, Zenon DEF Executed, TwoOperandOps, OneOperandOps, AccumulatorOps, WordOps, JumpOps
  <2> QED BY <2>1, <1>1 DEF Machine, SameStack
<1> QED BY <1>5, <1>6, <1>7, <1>8, <1>9 DEF RegisterOps

(* Instructions whose result is a byte store it once, if its place is in     *)
(* memory.                                                                   *)
LEMMA ByteResults ==
  ASSUME NEW m, Sound(m), NEW code \in Code, NEW here, NEW i, i.op \in OneOperandOps \cup {"LD"},
         NEW n, n = Executed(m, i, code, here)
  PROVE  /\ Plain(m, n, IF i.t1 \in MemoryTargets THEN 1 ELSE 0)
         /\ i.t1 \in Writable8 => n.alive = m.alive
<1> DEFINE x8  == get_op_8(m, i.t1, code)
           y8  == get_op_8(m, i.t2, code)
<1>1. m \in Machine /\ m.f \in Flags
  BY DEF Sound, Machine
<1>2. x8 \in Byte /\ y8 \in Byte
  BY <1>1, OperandsFit
<1>3. CASE i.op \in OneOperandOps
  <2> DEFINE out == OneOperand(i.op, x8, i.t2, m.f)
  <2>1. n = set_dest_8([m EXCEPT !.f = out.f], i.t1, code, out.r)
    BY <1>3, Zenon DEF Executed, TwoOperandOps, OneOperandOps, AccumulatorOps, WordOps, JumpOps
  <2> HIDE DEF x8, y8
  <2>2. out \in Outcome8
    BY <1>1, <1>2, <1>3, OneOperandFits
  <2> HIDE DEF out
  <2>3. out.r \in Byte /\ out.f \in Flags
    BY <2>2 DEF Outcome8
  <2> DEFINE half == [m EXCEPT !.f = out.f]
  <2>4. half \in Machine /\ SameButRegisters(m, half)
    BY <1>1, <2>3, FlagsFit
  <2> HIDE DEF half
  <2>5. n = set_dest_8(half, i.t1, code, out.r)
    BY <2>1 DEF half
  <2>6. Sound(half)
    BY <2>4, Untouched DEF SameButRegisters
  <2>7. Plain(half, n, IF i.t1 \in MemoryTargets THEN 1 ELSE 0) /\ (i.t1 \in Writable8 => n.alive = half.alive)
    BY <2>3, <2>5, <2>6, SetDest8
  <2> QED BY <2>4, <2>7, PlainAfter DEF SameButRegisters, SameControl
<1>4. CASE i.op = "LD"
  <2>1. n = set_dest_8(m, i.t1, code, y8)
    BY <1>4, Zenon DEF Executed, TwoOperandOps, OneOperandOps, AccumulatorOps, WordOps, JumpOps
  <2> HIDE DEF x8, y8
  <2> QED BY <2>1, <1>2, SetDest8
<1> QED BY <1>3, <1>4

(* Instructions whose result is a word store it in two bytes, if its place   *)
(* is in memory.                                                             *)
LEMMA WordResults ==
  ASSUME NEW m, Sound(m), NEW code \in Code, NEW here, NEW i, i.op \in WordOps,
         NEW n, n = Executed(m, i, code, here)
  PROVE  /\ Plain(m, n, IF i.t1 = "D16_AS_ADDR" THEN 2 ELSE 0)
         /\ i.t1 \in Writable16 => n.alive = m.alive
<1> DEFINE x16 == get_op_16(m, i.t1, code)
           y16 == get_op_16(m, i.t2, code)
           out == Words(i.op, x16, y16, m.f)
<1>1. m \in Machine /\ m.f \in Flags
  BY DEF Sound, Machine
<1>2. x16 \in Word /\ y16 \in Word
  BY <1>1, OperandsFit
<1>3. n = set_dest_16([m EXCEPT !.f = out.f], i.t1, code, out.r)
  BY Zenon DEF Executed, TwoOperandOps, OneOperandOps, AccumulatorOps, WordOps, JumpOps
<1> HIDE DEF x16, y16
<1>4. out \in Outcome16
  BY <1>1, <1>2, WordsFit
<1> HIDE DEF out
<1>5. out.r \in Word /\ out.f \in Flags
  BY <1>4 DEF Outcome16
<1> DEFINE half == [m EXCEPT !.f = out.f]
<1>6. half \in Machine /\ SameButRegisters(m, half)
  BY <1>1, <1>5, FlagsFit
<1> HIDE DEF half
<1>7. n = set_dest_16(half, i.t1, code, out.r)
  BY <1>3 DEF half
<1>8. Sound(half)
  BY <1>6, Untouched DEF SameButRegisters
<1>9. Plain(half, n, IF i.t1 = "D16_AS_ADDR" THEN 2 ELSE 0) /\ (i.t1 \in Writable16 => n.alive = half.alive)
  BY <1>5, <1>7, <1>8, SetDest16
<1> QED BY <1>6, <1>9, PlainAfter DEF SameButRegisters, SameControl

(* PUSH puts a word on the stack in two stores.                              *)
LEMMA PushOp ==
  ASSUME NEW m, Sound(m), NEW code \in Code, NEW here, NEW i, i.op = "PUSH",
         NEW n, n = Executed(m, i, code, here)
  PROVE  /\ Sound(n) /\ \E w \in Word : Pushes(m, n, w)
         /\ SameControl(m, n) /\ n.writes = m.writes + 2
<1> DEFINE x16 == get_op_16(m, i.t1, code)
<1>1. x16 \in Word
  BY OperandsFit DEF Sound
<1>2. n = cpu_push_short(m, x16)
  BY Zenon DEF Executed, TwoOperandOps, OneOperandOps, AccumulatorOps, WordOps, JumpOps
<1> HIDE DEF x16
<1> QED BY <1>1, <1>2, PushShort

(* POP takes the top word off the stack.                                     *)
LEMMA PopOp ==
  ASSUME NEW m, Sound(m), NEW code \in Code, NEW here, NEW i, i.op = "POP", i.t1 \in {"BC", "DE", "HL", "AF"},
         NEW n, n = Executed(m, i, code, here)
  PROVE  Sound(n) /\ Pops(m, n) /\ SameControl(m, n) /\ n.writes = m.writes
<1> DEFINE o == cpu_pop_short(m)
           data == Popped(m)
<1>1. n = set_dest_16(o, i.t1, code, data)
  BY Zenon DEF Executed, TwoOperandOps, OneOperandOps, AccumulatorOps, WordOps, JumpOps
<1>2. Sound(o) /\ Pops(m, o) /\ SameControl(m, o) /\ o.writes = m.writes /\ data \in Word
  BY PopShort
<1> HIDE DEF o, data
<1>3. Plain(o, n, IF i.t1 = "D16_AS_ADDR" THEN 2 ELSE 0) /\ SameButRegisters(o, n)
      /\ (i.t1 \in Writable16 => n.alive = o.alive)
  BY <1>1, <1>2, SetDest16
<1>4. Sound(n)
  BY <1>3 DEF Plain
<1>5. Pops(m, n)
  BY <1>2, <1>3 DEF Pops, SameButRegisters, SameStack, StackWord, mem_read_short, mem_read_byte
<1> QED BY <1>2, <1>3, <1>4, <1>5 DEF SameButRegisters, SameControl

(* A jump changes the program counter alone.                                 *)
LEMMA JumpToFits ==
  ASSUME NEW o, Sound(o), NEW addr \in Word, NEW n, n = JumpTo(o, addr)
  PROVE  /\ Sound(n) /\ SameStack(o, n) /\ n.pc = addr /\ n.taken
         /\ n.writes = o.writes /\ n.alive = o.alive
<1>1. o \in Machine
  BY DEF Sound
<1>2. /\ n \in Machine /\ SameStack(o, n) /\ n.pc = addr /\ n.taken
      /\ n.writes = o.writes /\ n.alive = o.alive
  BY <1>1 DEF JumpTo, Machine, SameStack
<1> QED BY <1>2, Untouched

JumpEffect(m, n, i) ==
  /\ IF n.taken
     THEN /\ Sound(n)
          /\ i.op \in {"CALL", "RST"} => /\ Pushes(m, n, m.pc) /\ n.writes = m.writes + 2
                                         /\ InRam(n.sp) => Popped(n) = m.pc
          /\ i.op \in {"JP", "JR"}    => SameStack(m, n) /\ n.writes = m.writes
          /\ i.op \in {"RET", "RETI"} => /\ Pops(m, n) /\ n.writes = m.writes
                                         /\ n.pc = Popped(m)
     ELSE Plain(m, n, 0) /\ i.op # "RST" /\ i.t1 # "NONE"
  /\ i.op = "RST" \/ i.t1 \in CondTargets => n.alive = m.alive

(* CALL and RST push the address behind them.                                *)
LEMMA CallEffect ==
  ASSUME NEW m, Sound(m), NEW addr \in Word, NEW i, i.op \in {"CALL", "RST"},
         NEW n, n = JumpTo(cpu_push_short(m, m.pc), addr)
  PROVE  JumpEffect(m, n, i)
<1> DEFINE o == cpu_push_short(m, m.pc)
<1>1. m.pc \in Word
  BY DEF Sound, Machine
<1>2. /\ Sound(o) /\ Pushes(m, o, m.pc) /\ SameControl(m, o) /\ o.writes = m.writes + 2
      /\ InRam(o.sp) => Popped(o) = m.pc
  BY <1>1, PushShort
<1> HIDE DEF o
<1>3. n = JumpTo(o, addr)
  BY DEF o
<1>4. /\ Sound(n) /\ SameStack(o, n) /\ n.taken /\ n.writes = o.writes /\ n.alive = o.alive
  BY <1>2, <1>3, JumpToFits
<1>5. Pushes(m, n, m.pc)
  BY <1>2, <1>4 DEF Pushes, SameStack, StackWord, mem_read_short, mem_read_byte
<1>6. InRam(n.sp) => Popped(n) = m.pc
  BY <1>2, <1>4 DEF SameStack, Popped, mem_read_short, mem_read_byte
<1> QED BY <1>2, <1>4, <1>5, <1>6 DEF JumpEffect, SameControl

(* RET and RETI go where the top word says.                                  *)
LEMMA ReturnEffect ==
  ASSUME NEW m, Sound(m), NEW i, i.op \in {"RET", "RETI"}, NEW n,
         n \in {JumpTo(cpu_pop_short(m), Popped(m)), [JumpTo(cpu_pop_short(m), Popped(m)) EXCEPT !.ime = TRUE]}
  PROVE  JumpEffect(m, n, i)
<1> DEFINE o == cpu_pop_short(m)
           addr == Popped(m)
           p == JumpTo(o, addr)
<1>1. Sound(o) /\ Pops(m, o) /\ SameControl(m, o) /\ o.writes = m.writes /\ addr \in Word
  BY PopShort
<1>2. n = p \/ n = [p EXCEPT !.ime = TRUE]
  OBVIOUS
<1> HIDE DEF o, addr
<1>3. /\ Sound(p) /\ SameStack(o, p) /\ p.pc = addr /\ p.taken /\ p.writes = o.writes /\ p.alive = o.alive
  BY <1>1, JumpToFits
<1> HIDE DEF p
<1>4. p \in Machine
  BY <1>3 DEF Sound
<1>5. /\ n \in Machine /\ SameStack(p, n) /\ n.pc = p.pc /\ n.taken = p.taken
      /\ n.writes = p.writes /\ n.alive = p.alive
  BY <1>2, <1>4 DEF Machine, SameStack
<1>6. Sound(n)
  BY <1>3, <1>5, Untouched
<1>7. Pops(m, n)
  BY <1>1, <1>3, <1>5 DEF Pops, SameStack, StackWord, mem_read_short, mem_read_byte
<1> QED BY <1>1, <1>3, <1>5, <1>6, <1>7 DEF JumpEffect, SameControl, addr

(* Every jump, taken or not.                                                 *)
LEMMA JumpOpsJump ==
  ASSUME NEW m, Sound(m), m.taken = FALSE, NEW code \in Code, NEW here \in Word, NEW i, i.op \in JumpOps,
         i.op = "RST" => Number(i.t1) \in 0 .. 7,
         NEW n, n = Executed(m, i, code, here)
  PROVE  JumpEffect(m, n, i)
<1> DEFINE y8  == get_op_8(m, i.t2, code)
           y16 == get_op_16(m, i.t2, code)
<1>1. m \in Machine
  BY DEF Sound
<1>2. y8 \in Byte /\ y16 \in Word
  BY <1>1, OperandsFit
<1>3. n = Jumped(m, i, code, here)
  BY Zenon DEF Executed, TwoOperandOps, OneOperandOps, AccumulatorOps, WordOps, JumpOps
<1>4. CASE i.op = "RST"
  <2> DEFINE addr == Number(i.t1) * 8
  <2>1. n = JumpTo(cpu_push_short(m, m.pc), addr)
    BY <1>3, <1>4, Zenon DEF Jumped, CondTargets
  <2>2. addr \in Word
    BY <1>4, WordIs
  <2> HIDE DEF addr
  <2> QED BY <2>1, <2>2, <1>4, CallEffect
<1>5. CASE i.op # "RST" /\ i.t1 \notin CondTargets
  <2>1. n = Exit(m)
    BY <1>3, <1>5, Zenon DEF Jumped
  <2>2. Plain(m, n, 0) /\ n.taken = FALSE
    BY <2>1, ExitFits DEF Plain
  <2>3. i.t1 # "NONE"
    BY <1>5 DEF CondTargets
  <2> QED BY <2>2, <2>3, <1>5 DEF JumpEffect
<1>6. CASE i.op # "RST" /\ i.t1 \in CondTargets /\ ~cpu_cond(m, i.t1)
  <2>1. n = m
    BY <1>3, <1>6, Zenon DEF Jumped
  <2>2. Plain(m, n, 0)
    BY <2>1, <1>1, PlainIfUntouched DEF SameStack
  <2>3. i.t1 # "NONE"
    BY <1>6, Zenon DEF cpu_cond
  <2> QED BY <2>1, <2>2, <2>3, <1>6 DEF JumpEffect
<1>7. CASE i.op # "RST" /\ i.t1 \in CondTargets /\ cpu_cond(m, i.t1)
  <2>1. CASE i.op = "CALL"
    <3>1. n = JumpTo(cpu_push_short(m, m.pc), y16)
      BY <1>3, <1>7, <2>1, Zenon DEF Jumped
    <3> HIDE DEF y8, y16
    <3> QED BY <3>1, <1>2, <2>1, CallEffect
  <2>2. CASE i.op \in {"JP", "JR"}
    <3> DEFINE away == Wrap(here + Signed(y8) + 2)
    <3>1. n = JumpTo(m, y16) \/ n = JumpTo(m, away)
      BY <1>3, <1>7, <2>2, Zenon DEF Jumped
    <3> HIDE DEF y8, y16
    <3>2. away \in Word
      BY <1>2, ByteIs, WordIs, WrapIs, SMT DEF Signed
    <3> HIDE DEF away
    <3>3. \E addr \in Word : n = JumpTo(m, addr)
      BY <3>1, <3>2, <1>2, Zenon
    <3>4. Sound(n) /\ SameStack(m, n) /\ n.taken /\ n.writes = m.writes /\ n.alive = m.alive
      BY <3>3, JumpToFits
    <3> QED BY <3>4, <2>2 DEF JumpEffect
  <2>3. CASE i.op \in {"RET", "RETI"}
    <3>1. n \in {JumpTo(cpu_pop_short(m), Popped(m)), [JumpTo(cpu_pop_short(m), Popped(m)) EXCEPT !.ime = TRUE]}
      BY <1>3, <1>7, <2>3, Zenon DEF Jumped
    <3> QED BY <3>1, <2>3, ReturnEffect
  <2> QED BY <2>1, <2>2, <2>3, <1>7 DEF JumpOps
<1> QED BY <1>4, <1>5, <1>6, <1>7

(* An instruction the switch has no case for exits, with the stack as it     *)
(* was.                                                                      *)
LEMMA OtherOps ==
  ASSUME NEW m, Sound(m), NEW code \in Code, NEW here, NEW i,
         i.op \notin RegisterOps \cup OneOperandOps \cup WordOps \cup JumpOps \cup {"LD", "PUSH", "POP"},
         NEW n, n = Executed(m, i, code, here)
  PROVE  Plain(m, n, 0)
<1>1. n = Exit(m)
  BY Zenon DEF Executed, RegisterOps, TwoOperandOps, OneOperandOps, AccumulatorOps, WordOps, JumpOps
<1> QED BY <1>1, ExitFits

(* HL_POS and HL_NEG change HL alone.                                        *)
LEMMA MoveHLFits ==
  ASSUME NEW m \in Machine, NEW i, NEW n, n = MoveHL(m, i)
  PROVE  n \in Machine /\ SameButRegisters(m, n)
<1> DEFINE up   == Wrap(Pair(m, "HL") + 1)
           down == Wrap(Pair(m, "HL") - 1)
<1>1. n \in {SetPair(m, "HL", up), SetPair(m, "HL", down), m}
  BY Zenon DEF MoveHL
<1>2. up \in Word /\ down \in Word
  BY PairsAreWords, WordIs, WrapIs
<1> HIDE DEF up, down
<1>3. ASSUME NEW w \in Word, n = SetPair(m, "HL", w) PROVE n \in Machine /\ SameButRegisters(m, n)
  BY <1>3, SetPairFits
<1>4. CASE n = m
  BY <1>4 DEF SameButRegisters, SameStack, SameControl
<1> QED BY <1>1, <1>2, <1>3, <1>4

(* All an instruction does outside the registers. *)
Effect(m, n, i) ==
  /\ Sound(n)
  /\ i.op \in JumpOps => JumpEffect(m, n, i)
  /\ i.op = "PUSH" => /\ \E w \in Word : Pushes(m, n, w)
                      /\ n.pc = m.pc /\ n.taken = m.taken /\ n.alive = m.alive /\ n.writes = m.writes + 2
  /\ i.op = "POP" => /\ Pops(m, n)
                     /\ n.pc = m.pc /\ n.taken = m.taken /\ n.alive = m.alive /\ n.writes = m.writes
  /\ i.op \in OneOperandOps \cup {"LD"} => /\ Plain(m, n, IF i.t1 \in MemoryTargets THEN 1 ELSE 0)
                                           /\ i.t1 \in Writable8 => n.alive = m.alive
  /\ i.op \in WordOps => /\ Plain(m, n, IF i.t1 = "D16_AS_ADDR" THEN 2 ELSE 0)
                         /\ i.t1 \in Writable16 => n.alive = m.alive
  /\ i.op \in RegisterOps => Plain(m, n, 0) /\ n.alive = m.alive
  /\ i.op \notin JumpOps \cup {"PUSH", "POP"} => Buried(m, n) /\ n.pc = m.pc /\ n.taken = m.taken

(* What the entries for instructions that use the stack have to say. *)
Shaped(i) ==
  /\ i.length \in 0 .. 3
  /\ i.op = "POP" => i.t1 \in {"BC", "DE", "HL", "AF"}
  /\ i.op = "RST" => Number(i.t1) \in 0 .. 7
  /\ i.op \in {"PUSH", "POP", "RST"} => i.length = 1
  /\ i.op = "CALL" => i.length = 3

(* The switch of cpu_step, case by case.                                     *)
LEMMA ExecutedEffect ==
  ASSUME NEW m, Sound(m), m.taken = FALSE, NEW code \in Code, NEW here \in Word, NEW i, Shaped(i),
         NEW n, n = Executed(m, i, code, here)
  PROVE  Effect(m, n, i)
<1>0. /\ i.op = "RST" => Number(i.t1) \in 0 .. 7
      /\ i.op = "POP" => i.t1 \in {"BC", "DE", "HL", "AF"}
  BY DEF Shaped
<1>1. CASE i.op \in JumpOps
  <2>1. JumpEffect(m, n, i)
    BY <1>0, <1>1, JumpOpsJump
  <2>2. Sound(n)
    BY <2>1 DEF JumpEffect, Plain
  <2>3. i.op \notin {"PUSH", "POP"} \cup OneOperandOps \cup {"LD"} \cup WordOps \cup RegisterOps
    BY <1>1, Zenon DEF JumpOps, OneOperandOps, WordOps, RegisterOps, TwoOperandOps, AccumulatorOps
  <2> QED BY <2>1, <2>2, <2>3, <1>1 DEF Effect
<1>2. CASE i.op = "PUSH"
  <2>1. /\ Sound(n) /\ \E w \in Word : Pushes(m, n, w)
        /\ SameControl(m, n) /\ n.writes = m.writes + 2
    BY <1>2, PushOp
  <2>2. i.op \notin {"POP"} \cup OneOperandOps \cup {"LD"} \cup WordOps \cup RegisterOps \cup JumpOps
    BY <1>2, Zenon DEF JumpOps, OneOperandOps, WordOps, RegisterOps, TwoOperandOps, AccumulatorOps
  <2> QED BY <2>1, <2>2, <1>2 DEF Effect, SameControl
<1>3. CASE i.op = "POP"
  <2>1. Sound(n) /\ Pops(m, n) /\ SameControl(m, n) /\ n.writes = m.writes
    BY <1>0, <1>3, PopOp
  <2>2. i.op \notin {"PUSH"} \cup OneOperandOps \cup {"LD"} \cup WordOps \cup RegisterOps \cup JumpOps
    BY <1>3, Zenon DEF JumpOps, OneOperandOps, WordOps, RegisterOps, TwoOperandOps, AccumulatorOps
  <2> QED BY <2>1, <2>2, <1>3 DEF Effect, SameControl
<1>4. CASE i.op \in OneOperandOps \cup {"LD"}
  <2>1. /\ Plain(m, n, IF i.t1 \in MemoryTargets THEN 1 ELSE 0)
        /\ i.t1 \in Writable8 => n.alive = m.alive
    BY <1>4, ByteResults
  <2>2. i.op \notin {"PUSH", "POP"} \cup WordOps \cup RegisterOps \cup JumpOps
    BY <1>4, Zenon DEF JumpOps, OneOperandOps, WordOps, RegisterOps, TwoOperandOps, AccumulatorOps
  <2> QED BY <2>1, <2>2, <1>4 DEF Effect, Plain
<1>5. CASE i.op \in WordOps
  <2>1. /\ Plain(m, n, IF i.t1 = "D16_AS_ADDR" THEN 2 ELSE 0)
        /\ i.t1 \in Writable16 => n.alive = m.alive
    BY <1>5, WordResults
  <2>2. i.op \notin {"PUSH", "POP"} \cup OneOperandOps \cup {"LD"} \cup RegisterOps \cup JumpOps
    BY <1>5, Zenon DEF JumpOps, OneOperandOps, WordOps, RegisterOps, TwoOperandOps, AccumulatorOps
  <2> QED BY <2>1, <2>2, <1>5 DEF Effect, Plain
<1>6. CASE i.op \in RegisterOps
  <2>1. Plain(m, n, 0) /\ n.alive = m.alive
    BY <1>6, RegisterOpsArePlain
  <2>2. i.op \notin {"PUSH", "POP"} \cup OneOperandOps \cup {"LD"} \cup WordOps \cup JumpOps
    BY <1>6, Zenon DEF JumpOps, OneOperandOps, WordOps, RegisterOps, TwoOperandOps, AccumulatorOps
  <2> QED BY <2>1, <2>2, <1>6 DEF Effect, Plain
<1>7. CASE i.op \notin RegisterOps \cup OneOperandOps \cup WordOps \cup JumpOps \cup {"LD", "PUSH", "POP"}
  <2>1. Plain(m, n, 0)
    BY <1>7, OtherOps
  <2> QED BY <2>1, <1>7 DEF Effect, Plain
<1> QED BY <1>1, <1>2, <1>3, <1>4, <1>5, <1>6, <1>7

(* Plain effects, with registers changed after.                              *)
LEMMA PlainThen ==
  ASSUME NEW m, Sound(m), NEW o, NEW n \in Machine, NEW w, Plain(m, o, w), SameButRegisters(o, n)
  PROVE  Plain(m, n, w)
<1>1. Sound(o) /\ m \in Machine /\ o \in Machine
  BY DEF Plain, Sound
<1>2. Sound(n) /\ Buried(o, n)
  BY <1>1, Untouched DEF SameButRegisters
<1>3. Buried(m, n)
  BY <1>1, <1>2, BuriedTwice DEF Plain
<1> QED BY <1>2, <1>3 DEF Plain, SameButRegisters, SameControl

(* Any effect, with registers changed after.                                 *)
LEMMA EffectThen ==
  ASSUME NEW m, Sound(m), NEW i, NEW o, Effect(m, o, i), NEW n \in Machine, SameButRegisters(o, n)
  PROVE  Effect(m, n, i)
<1>1. Sound(o) /\ m \in Machine /\ o \in Machine
  BY DEF Effect, Sound
<1>2. Sound(n) /\ Buried(o, n)
  BY <1>1, Untouched DEF SameButRegisters
<1>3. ASSUME Buried(m, o) PROVE Buried(m, n)
  BY <1>1, <1>2, <1>3, BuriedTwice
<1>4. \A w : Pushes(m, o, w) => Pushes(m, n, w)
  BY DEF Pushes, SameButRegisters, SameStack, StackWord, mem_read_short, mem_read_byte
<1>5. Pops(m, o) => Pops(m, n)
  BY DEF Pops, SameButRegisters, SameStack, StackWord, mem_read_short, mem_read_byte
<1>6. Popped(n) = Popped(o) /\ n.sp = o.sp
  BY DEF SameButRegisters, SameStack, Popped, mem_read_short, mem_read_byte
<1>7. n.pc = o.pc /\ n.taken = o.taken /\ n.alive = o.alive /\ n.writes = o.writes
  BY DEF SameButRegisters, SameControl
<1>8. \A w : Plain(m, o, w) => Plain(m, n, w)
  BY PlainThen
<1>9. SameStack(m, o) => SameStack(m, n)
  BY DEF SameButRegisters, SameStack
<1>10. JumpEffect(m, o, i) => JumpEffect(m, n, i)
  BY <1>2, <1>4, <1>5, <1>6, <1>7, <1>8, <1>9 DEF JumpEffect
<1> QED BY <1>2, <1>3, <1>4, <1>5, <1>7, <1>8, <1>10 DEF Effect

(* The machine as an instruction finds it. *)
Started(i) ==
  [Now EXCEPT !.ime = @ \/ ime_next_cycle, !.ime_next_cycle = FALSE, !.pc = Wrap(@ + i.length)]

(* One cpu_step: the program counter goes behind the instruction, then the   *)
(* instruction has its effect.                                               *)
LEMMA OutcomeEffect ==
  ASSUME Sound(Now), NEW code \in Code, NEW i, i = Fetched(code), Shaped(i),
         NEW m, m = Started(i), NEW n, n = Outcome(code)
  PROVE  /\ Sound(m) /\ SameStack(Now, m) /\ m.pc = Wrap(pc + i.length) /\ m.taken = FALSE
         /\ m.writes = 0 /\ m.alive = alive
         /\ Effect(m, n, i)
<1> DEFINE next == Wrap(pc + i.length)
           flag == ime \/ ime_next_cycle
           o == Executed(m, i, code, pc)
<1>1. Now \in Machine /\ pc \in Word /\ i.length \in 0 .. 3
  BY DEF Sound, Machine, Now, Shaped
<1>2. next \in Word
  BY <1>1, WordIs, WrapIs
<1>3. flag \in BOOLEAN
  OBVIOUS
<1>4. m = [Now EXCEPT !.ime = flag, !.ime_next_cycle = FALSE, !.pc = next]
  BY DEF Started, Now
<1> HIDE DEF next, flag
<1>5. m \in Machine /\ m.pc = next /\ m.alive = Now.alive /\ m.taken = Now.taken /\ m.writes = Now.writes
      /\ SameStack(Now, m)
  <2>1. Now \in Machine
    BY <1>1
  <2> QED BY <2>1, <1>2, <1>3, <1>4 DEF Machine, SameStack
<1>6. Sound(m)
  BY <1>5, Untouched
<1>7. m.taken = FALSE /\ m.alive = alive /\ m.writes = 0
  BY <1>5 DEF Now
<1>8. n = MoveHL(o, i)
  BY Zenon DEF Outcome, Started
<1>9. Effect(m, o, i)
  BY <1>1, <1>6, <1>7, ExecutedEffect
<1> HIDE DEF o
<1>10. n \in Machine /\ SameButRegisters(o, n)
  BY <1>8, <1>9, MoveHLFits DEF Effect, Sound
<1>11. Effect(m, n, i)
  BY <1>6, <1>9, <1>10, EffectThen
<1> QED BY <1>5, <1>6, <1>7, <1>11 DEF next

------------------------------------------------------------------------------
(* The stack as a sequence. *)

StackOf(m) == [k \in 1 .. m.depth |-> StackWord(m, k)]

(* It is a sequence of words, as long as depth says.                         *)
LEMMA StackIsWords ==
  ASSUME NEW m, Sound(m)
  PROVE  /\ StackOf(m) \in Seq(Word) /\ Len(StackOf(m)) = m.depth /\ m.depth \in Nat
         /\ \A k \in 1 .. m.depth : StackOf(m)[k] = StackWord(m, k)
         /\ StackOf(m) = <<>> <=> m.depth = 0
<1>1. m \in Machine /\ m.depth \in Nat
  BY DEF Sound, Machine
<1>2. \A k \in 1 .. m.depth : StackWord(m, k) \in Word
  BY <1>1, ReadsAreBytes DEF StackWord
<1> DEFINE W(k) == StackWord(m, k)
<1> HIDE DEF W
<1>3. StackOf(m) = [k \in 1 .. m.depth |-> W(k)]
  BY DEF StackOf, W
<1>4. \A k \in 1 .. m.depth : W(k) \in Word
  BY <1>2 DEF W
<1> DEFINE s == StackOf(m)
<1>5. s \in Seq(Word) /\ Len(s) = m.depth /\ \A k \in 1 .. m.depth : s[k] = W(k)
  BY <1>1, <1>3, <1>4
<1>6. s = <<>> <=> m.depth = 0
  <2> HIDE DEF s
  <2> QED BY <1>1, <1>5
<1> QED BY <1>1, <1>5, <1>6 DEF W

(* Where a store falls on the stack, the words above it are left.            *)
LEMMA BuriedIsTop ==
  ASSUME NEW m, Sound(m), NEW n, Sound(n), Buried(m, n)
  PROVE  StackOf(n) \in Stack!Tops(StackOf(m))
<1> DEFINE s == StackOf(m)
           t == StackOf(n)
<1>1. s \in Seq(Word) /\ Len(s) = m.depth /\ \A k \in 1 .. m.depth : s[k] = StackWord(m, k)
  BY StackIsWords
<1>2. t \in Seq(Word) /\ Len(t) = n.depth /\ \A k \in 1 .. n.depth : t[k] = StackWord(n, k)
  BY StackIsWords
<1>3. m.depth \in Nat /\ n.depth \in 0 .. m.depth
  BY StackIsWords DEF Buried
<1> HIDE DEF s, t
<1>4. \A k \in 1 .. n.depth : t[k] = s[k]
  BY <1>1, <1>2, <1>3 DEF Buried
<1>5. t = SubSeq(s, 1, n.depth)
  BY <1>1, <1>2, <1>3, <1>4
<1> QED BY <1>1, <1>3, <1>5 DEF Stack!Tops, s, t

(* A push is a push of the sequence ...                                      *)
LEMMA PushesIsPushed ==
  ASSUME NEW m, Sound(m), NEW n, Sound(n), NEW w \in Word, Pushes(m, n, w)
  PROVE  StackOf(n) \in Stack!Pushed(StackOf(m), w)
<1> DEFINE s == StackOf(m)
           t == StackOf(n)
<1>1. s \in Seq(Word) /\ Len(s) = m.depth /\ \A k \in 1 .. m.depth : s[k] = StackWord(m, k)
  BY StackIsWords
<1>2. t \in Seq(Word) /\ Len(t) = n.depth /\ \A k \in 1 .. n.depth : t[k] = StackWord(n, k)
  BY StackIsWords
<1>3. m.depth \in Nat /\ n.depth \in Nat /\ (n.depth = 0 => t = <<>>)
  BY StackIsWords
<1> HIDE DEF s, t
<1>4. CASE n.depth = 0
  BY <1>3, <1>4 DEF Stack!Pushed, t
<1>5. CASE n.depth # 0
  <2>1. n.depth = m.depth + 1 /\ StackWord(n, 1) = w /\ \A k \in 1 .. m.depth : StackWord(n, k + 1) = StackWord(m, k)
    BY <1>5 DEF Pushes
  <2>2. t[1] = w
    BY <2>1, <1>2, <1>3
  <2>3. \A k \in 1 .. m.depth : t[k + 1] = s[k]
    BY <2>1, <1>1, <1>2, <1>3
  <2>4. t = <<w>> \o s
    BY <2>1, <2>2, <2>3, <1>1, <1>2, <1>3
  <2> QED BY <2>4 DEF Stack!Pushed, s, t
<1> QED BY <1>4, <1>5

(* ... and a pop takes its first word off.                                   *)
LEMMA PopsIsTail ==
  ASSUME NEW m, Sound(m), NEW n, Sound(n), Pops(m, n)
  PROVE  /\ StackOf(n) = IF StackOf(m) = <<>> THEN <<>> ELSE Tail(StackOf(m))
         /\ StackOf(m) # <<>> => Head(StackOf(m)) = Popped(m)
<1> DEFINE s == StackOf(m)
           t == StackOf(n)
<1>1. /\ s \in Seq(Word) /\ Len(s) = m.depth /\ \A k \in 1 .. m.depth : s[k] = StackWord(m, k)
      /\ s = <<>> <=> m.depth = 0
  BY StackIsWords
<1>2. /\ t \in Seq(Word) /\ Len(t) = n.depth /\ \A k \in 1 .. n.depth : t[k] = StackWord(n, k)
      /\ t = <<>> <=> n.depth = 0
  BY StackIsWords
<1>3. m.depth \in Nat /\ n.depth \in Nat
  BY StackIsWords
<1>4. m.depth # 0 => Popped(m) = StackWord(m, 1)
  BY PopShort
<1> HIDE DEF s, t
<1>5. CASE m.depth = 0
  BY <1>1, <1>2, <1>5 DEF Pops, s, t
<1>6. CASE m.depth # 0
  <2>1. n.depth = m.depth - 1 /\ \A k \in 1 .. n.depth : StackWord(n, k) = StackWord(m, k + 1)
    BY <1>6 DEF Pops
  <2>2. \A k \in 1 .. n.depth : t[k] = s[k + 1]
    BY <2>1, <1>1, <1>2, <1>3
  <2>3. t = Tail(s)
    BY <2>1, <2>2, <1>1, <1>2, <1>3, <1>6
  <2>4. Head(s) = Popped(m)
    BY <1>1, <1>3, <1>4, <1>6
  <2> QED BY <2>3, <2>4, <1>1, <1>6 DEF s, t
<1> QED BY <1>5, <1>6

------------------------------------------------------------------------------
(* What an entry of the table has to say of its instruction. *)

(* The numbers of bytes and of machine cycles, as in Bytes, Reads and        *)
(* Internal, for an instruction with or without the prefix.                   *)
Operand(t) == IF t \in {"D8", "D8_AS_ADDR"} THEN 1 ELSE IF t \in {"D16", "D16_AS_ADDR"} THEN 2 ELSE 0

Size(i, prefixed) ==
  IF prefixed THEN 2 ELSE 1 + Operand(i.t1) + Operand(i.t2) + (IF i.op = "STOP" THEN 1 ELSE 0)

OneIf(b) == IF b THEN 1 ELSE 0

Fetches(i) ==
  IF i.op \in TwoOperandOps \cup {"LD", "JR", "LD_SP_PLUS_D8"} THEN OneIf(i.t2 \in MemoryTargets)
  ELSE IF i.op \in OneOperandOps \cup {"BIT"} THEN OneIf(i.t1 \in MemoryTargets) ELSE 0

Returns(i, taken) == IF i.op = "POP" \/ (i.op \in {"RET", "RETI"} /\ taken) THEN 2 ELSE 0

Stores(i, taken) ==
  IF i.op \in OneOperandOps \cup {"LD"} THEN OneIf(i.t1 \in MemoryTargets)
  ELSE IF i.op \in WordOps THEN (IF i.t1 = "D16_AS_ADDR" THEN 2 ELSE 0)
  ELSE IF i.op = "PUSH" \/ (i.op \in {"CALL", "RST"} /\ taken) THEN 2 ELSE 0

Idle(i, taken) ==
  IF i.op = "STOP" THEN -1
  ELSE IF i.op = "JP" /\ i.t2 = "HL" THEN 0
  ELSE IF i.op \in {"PUSH", "ADD16", "INC16", "DEC16", "LD_SP_PLUS_D8"} \/ (i.op = "LD16" /\ i.t2 = "HL") THEN 1
  ELSE IF i.op = "ADD_SPD8" THEN 2
  ELSE IF i.op = "RET" /\ i.t1 # "NONE" THEN 1 + OneIf(taken)
  ELSE OneIf(taken)

(* A jump of one condition is taken or not; one without always is.            *)
Possible(i, taken) ==
  /\ taken => i.op \in JumpOps
  /\ i.op \in JumpOps /\ (i.op = "RST" \/ i.t1 = "NONE") => taken

Timed(i, prefixed) ==
  \A taken \in BOOLEAN :
    Possible(i, taken) =>
      (IF taken THEN i.taken ELSE i.not_taken)
        = Size(i, prefixed) + Fetches(i) + Returns(i, taken) + Stores(i, taken) + Idle(i, taken)

Sized(i, prefixed) ==
  i.length = Size(i, prefixed) \/ (i.op = "JP" /\ i.t1 = "NONE")

Operable(i) ==
  /\ i.op \in TwoOperandOps => i.t1 = "A" /\ i.t2 \in Readable8
  /\ i.op \in OneOperandOps \cup {"BIT"} => i.t1 \in Readable8
  /\ i.op \in {"LD", "JR", "LD_SP_PLUS_D8"} => i.t2 \in Readable8
  /\ i.op \in {"ADD16", "ADD_SPD8"} => i.t1 \in Readable16 /\ i.t2 \in Readable16
  /\ i.op \in {"INC16", "DEC16", "PUSH", "LD_SP_PLUS_D8"} => i.t1 \in Readable16
  /\ i.op \in {"LD16", "CALL", "JP"} => i.t2 \in Readable16

Executable(i) ==
  \/ i.op \in RegisterOps \cup {"PUSH", "POP", "RST"}
  \/ i.op \in OneOperandOps \cup {"LD"} /\ i.t1 \in Writable8
  \/ i.op \in WordOps /\ i.t1 \in Writable16
  \/ i.op \in JumpOps /\ i.t1 \in CondTargets

Fit(i, prefixed) ==
  Shaped(i) /\ Sized(i, prefixed) /\ Timed(i, prefixed) /\ Operable(i) /\ Executable(i)

USE DEF Fit, Shaped, Sized, Timed, Possible, Size, Operand, Fetches, Returns, Stores, Idle, OneIf,
        Operable, Executable, Readable8, Readable16, Writable8, Writable16, CondTargets, Reg8,
        MemoryTargets, TwoOperandOps, OneOperandOps, WordOps, JumpOps, RegisterOps, AccumulatorOps

(* Entries that fit, by what they are: arithmetic on A ...                   *)
LEMMA TwoOperandRows ==
  ASSUME NEW i, i.op \in TwoOperandOps, i.t1 = "A", i.taken = i.not_taken,
         \/ i.t2 \in Reg8 /\ i.length = 1 /\ i.taken = 1
         \/ i.t2 = "HL_AS_ADDR" /\ i.length = 1 /\ i.taken = 2
         \/ i.t2 = "D8" /\ i.length = 2 /\ i.taken = 2
  PROVE  Fit(i, FALSE)
  OBVIOUS

(* ... counting bytes and rotating A ...                                     *)
LEMMA OneOperandRows ==
  \A i : /\ i.op \in {"INC", "DEC", "RLCA", "RRCA", "RLA", "RRA"}
         /\ i.t2 = "NONE" /\ i.taken = i.not_taken /\ i.length = 1
         /\ (i.t1 \in Reg8 /\ i.taken = 1) \/ (i.t1 = "HL_AS_ADDR" /\ i.taken = 3)
         => Fit(i, FALSE)
  OBVIOUS

(* ... rotations and single bits ...                                         *)
LEMMA PrefixedRows ==
  ASSUME NEW i, i.op \in (OneOperandOps \ {"INC", "DEC", "RLCA", "RRCA", "RLA", "RRA"}) \cup {"BIT"},
         i.taken = i.not_taken, i.length = 2,
         \/ i.t1 \in Reg8 /\ i.taken = 2
         \/ i.t1 = "HL_AS_ADDR" /\ i.taken = IF i.op = "BIT" THEN 3 ELSE 4
  PROVE  Fit(i, TRUE)
  OBVIOUS

(* Loads whose operands are registers or behind HL, and those of constants.  *)
LEMMA LoadRows ==
  ASSUME NEW i, i.op = "LD", i.taken = i.not_taken,
         \/ i.t1 \in Reg8 /\ i.t2 \in Reg8 /\ i.length = 1 /\ i.taken = 1
         \/ i.t1 \in Reg8 /\ i.t2 = "HL_AS_ADDR" /\ i.length = 1 /\ i.taken = 2
         \/ i.t1 = "HL_AS_ADDR" /\ i.t2 \in Reg8 /\ i.length = 1 /\ i.taken = 2
         \/ i.t1 \in Reg8 /\ i.t2 = "D8" /\ i.length = 2 /\ i.taken = 2
         \/ i.t1 = "HL_AS_ADDR" /\ i.t2 = "D8" /\ i.length = 2 /\ i.taken = 3
  PROVE  Fit(i, FALSE)
  OBVIOUS

(* Loads of A that go through a pointer. *)
LEMMA PointerRows ==
  ASSUME NEW i, i.op = "LD", i.taken = i.not_taken, "A" \in {i.t1, i.t2},
         NEW t, t \in {i.t1, i.t2},
         \/ t \in {"BC_AS_ADDR", "DE_AS_ADDR", "HL_POS", "HL_NEG", "C_AS_ADDR"} /\ i.length = 1 /\ i.taken = 2
         \/ t = "D8_AS_ADDR" /\ i.length = 2 /\ i.taken = 3
         \/ t = "D16_AS_ADDR" /\ i.length = 3 /\ i.taken = 4
  PROVE  Fit(i, FALSE)
  OBVIOUS

(* Words.                                                                    *)
LEMMA WordRows ==
  ASSUME NEW i, i.taken = i.not_taken,
         \/ /\ i.op \in {"INC16", "DEC16"} /\ i.t1 \in {"BC", "DE", "HL", "SP"} /\ i.t2 = "NONE"
            /\ i.length = 1 /\ i.taken = 2
         \/ /\ i.op = "ADD16" /\ i.t1 = "HL" /\ i.t2 \in {"BC", "DE", "HL", "SP"}
            /\ i.length = 1 /\ i.taken = 2
         \/ i.op = "ADD_SPD8" /\ i.t1 = "SP" /\ i.t2 = "D8" /\ i.length = 2 /\ i.taken = 4
         \/ i.op = "LD_SP_PLUS_D8" /\ i.t1 = "SP" /\ i.t2 = "D8" /\ i.length = 2 /\ i.taken = 3
         \/ /\ i.op = "LD16" /\ i.t1 \in {"BC", "DE", "HL", "SP"} /\ i.t2 = "D16"
            /\ i.length = 3 /\ i.taken = 3
         \/ i.op = "LD16" /\ i.t1 = "D16_AS_ADDR" /\ i.t2 = "SP" /\ i.length = 3 /\ i.taken = 5
         \/ i.op = "LD16" /\ i.t1 = "SP" /\ i.t2 = "HL" /\ i.length = 1 /\ i.taken = 2
  PROVE  Fit(i, FALSE)
  OBVIOUS

(* PUSH and POP.                                                             *)
LEMMA StackRows ==
  ASSUME NEW i, i.taken = i.not_taken, i.t1 \in {"BC", "DE", "HL", "AF"}, i.t2 = "NONE", i.length = 1,
         (i.op = "PUSH" /\ i.taken = 4) \/ (i.op = "POP" /\ i.taken = 3)
  PROVE  Fit(i, FALSE)
  OBVIOUS

(* Instructions without operands.                                            *)
LEMMA ControlRows ==
  ASSUME NEW i, i.taken = i.not_taken, i.t1 = "NONE", i.t2 = "NONE", i.taken = 1,
         \/ i.op \in {"NOP", "HALT", "DI", "EI", "DAA", "CPL", "SCF", "CCF"} /\ i.length = 1
         \/ i.op = "STOP" /\ i.length = 2
  PROVE  Fit(i, FALSE)
  OBVIOUS

(* Jumps, with a condition and without.                                      *)
LEMMA JumpRows ==
  ASSUME NEW i,
         \/ i.t1 = "NONE" /\ i.taken = i.not_taken
         \/ i.t1 \in {"C_NZ", "C_Z", "C_NC", "C_C"},
         \/ /\ i.op = "JP" /\ i.t2 = "D16" /\ i.length = 3 /\ i.taken = 4
            /\ i.t1 # "NONE" => i.not_taken = 3
         \/ i.op = "JP" /\ i.t1 = "NONE" /\ i.t2 = "HL" /\ i.length = 3 /\ i.taken = 1
         \/ /\ i.op = "JR" /\ i.t2 = "D8" /\ i.length = 2 /\ i.taken = 3
            /\ i.t1 # "NONE" => i.not_taken = 2
         \/ /\ i.op = "CALL" /\ i.t2 = "D16" /\ i.length = 3 /\ i.taken = 6
            /\ i.t1 # "NONE" => i.not_taken = 3
         \/ i.op \in {"RET", "RETI"} /\ i.t1 = "NONE" /\ i.t2 = "NONE" /\ i.length = 1 /\ i.taken = 4
         \/ i.op = "RET" /\ i.t1 # "NONE" /\ i.t2 = "NONE" /\ i.length = 1 /\ i.taken = 5 /\ i.not_taken = 2
  PROVE  Fit(i, FALSE)
  OBVIOUS

(* The n-th Target has the number n.                                         *)
LEMMA NumberOfNth == ASSUME NEW n \in 0 .. 7 PROVE Number(Nth(n)) = n
<1> DEFINE c == CHOOSE k \in DOMAIN TargetNames : TargetNames[k] = Nth(n)
<1>1. n + 1 \in DOMAIN TargetNames /\ TargetNames[n + 1] = Nth(n)
  BY DEF TargetNames, Nth
<1>2. \A k \in DOMAIN TargetNames : TargetNames[k] = Nth(n) => k = n + 1
  BY DEF TargetNames, Nth
<1>3. c = n + 1
  BY <1>1, <1>2
<1>4. Number(Nth(n)) = c - 1
  BY Zenon DEF Number
<1> HIDE DEF c
<1> QED BY <1>3, <1>4

(* The vectors of RST are the first eight Targets.                           *)
LEMMA RestartRows ==
  ASSUME NEW i, i.op = "RST", i.t2 = "NONE", i.taken = i.not_taken, i.length = 1, i.taken = 4,
         NEW n \in 0 .. 7, i.t1 = Nth(n)
  PROVE  Fit(i, FALSE)
<1>1. Number(i.t1) = n
  BY NumberOfNth
<1>2. Nth(n) \in {"NONE", "A", "B", "C", "D", "E", "F", "H"}
  BY DEF Nth, TargetNames
<1>3. Operand(i.t1) = 0
  BY <1>2 DEF Operand
<1> QED BY <1>1, <1>2, <1>3

HIDE DEF Fit, Shaped, Sized, Timed, Possible, Size, Operand, Fetches, Returns, Stores, Idle, OneIf,
         Operable, Executable, Readable8, Readable16, Writable8, Writable16, CondTargets, Reg8,
         MemoryTargets, TwoOperandOps, OneOperandOps, WordOps, JumpOps, RegisterOps, AccumulatorOps

(* consec_targets are registers, but for the byte behind HL.                 *)
LEMMA ConsecIs ==
  ASSUME NEW n \in 0 .. 7
  PROVE  (n = 6 /\ consec(n) = "HL_AS_ADDR") \/ (n # 6 /\ consec(n) \in Reg8)
  BY DEF consec, consec_targets, Reg8

(* Every entry fits: the opcodes below 0x40 ...                              *)
LEMMA FirstQuarterFits ==
  ASSUME NEW y \in 0 .. 7, NEW z \in 0 .. 7, NEW i, i = FirstQuarter(y, z)
  PROVE  Fit(i, FALSE)
<1> DEFINE pair == y \div 2 + 1
           t == consec(y)
<1>1. pair \in 1 .. 4
  OBVIOUS
<1>2. Pairs[pair] \in {"BC", "DE", "HL", "SP"}
      /\ Pointers[pair] \in {"BC_AS_ADDR", "DE_AS_ADDR", "HL_POS", "HL_NEG"}
  BY <1>1 DEF Pairs, Pointers
<1>3. (t = "HL_AS_ADDR" /\ \A a, b : Costs(t, a, b) = b) \/ (t \in Reg8 /\ \A a, b : Costs(t, a, b) = a)
  BY ConsecIs DEF Costs, Reg8
<1>4. CASE z = 0
  <2>1. i \in {si("NOP", 1, 1, "NONE", "NONE"), si("LD16", 3, 5, "D16_AS_ADDR", "SP"),
               si("STOP", 2, 1, "NONE", "NONE"), si("JR", 2, 3, "NONE", "D8"),
               sij("JR", 2, 3, 2, "C_NZ", "D8"), sij("JR", 2, 3, 2, "C_Z", "D8"),
               sij("JR", 2, 3, 2, "C_NC", "D8"), sij("JR", 2, 3, 2, "C_C", "D8")}
    BY <1>4 DEF FirstQuarter
  <2> QED BY <2>1, ControlRows, WordRows, JumpRows DEF si, sij
<1>5. CASE z \in {1, 3}
  <2>1. i \in {si("LD16", 3, 3, Pairs[pair], "D16"), si("ADD16", 1, 2, "HL", Pairs[pair]),
               si("INC16", 1, 2, Pairs[pair], "NONE"), si("DEC16", 1, 2, Pairs[pair], "NONE")}
    BY <1>5 DEF FirstQuarter
  <2> HIDE DEF pair
  <2> QED BY <2>1, <1>2, WordRows DEF si, sij
<1>6. CASE z = 2
  <2>1. i \in {si("LD", 1, 2, Pointers[pair], "A"), si("LD", 1, 2, "A", Pointers[pair])}
    BY <1>6 DEF FirstQuarter
  <2> HIDE DEF pair
  <2> QED BY <2>1, <1>2, PointerRows DEF si, sij
<1>7. CASE z \in {4, 5}
  <2> DEFINE cost == Costs(t, 1, 3)
  <2>1. i \in {si("INC", 1, cost, t, "NONE"), si("DEC", 1, cost, t, "NONE")}
    BY <1>7 DEF FirstQuarter
  <2>2. (t = "HL_AS_ADDR" /\ cost = 3) \/ (t \in Reg8 /\ cost = 1)
    BY <1>3
  <2> HIDE DEF t, cost
  <2>3. /\ i.op \in {"INC", "DEC"} /\ i.length = 1 /\ i.taken = cost /\ i.not_taken = cost
        /\ i.t1 = t /\ i.t2 = "NONE"
    BY <2>1 DEF si, sij
  <2>4. /\ i.op \in {"INC", "DEC", "RLCA", "RRCA", "RLA", "RRA"} /\ i.taken = i.not_taken
        /\ (i.t1 \in Reg8 /\ i.taken = 1) \/ (i.t1 = "HL_AS_ADDR" /\ i.taken = 3)
    BY <2>2, <2>3
  <2> QED BY <2>3, <2>4, OneOperandRows, Zenon
<1>8. CASE z = 6
  <2>1. i = si("LD", 2, Costs(t, 2, 3), t, "D8")
    BY <1>8 DEF FirstQuarter
  <2> HIDE DEF t
  <2> QED BY <2>1, <1>3, LoadRows DEF si, sij
<1>9. CASE z = 7
  <2>1. i = si(Accumulator(y), 1, 1, IF y < 4 THEN "A" ELSE "NONE", "NONE")
    BY <1>9 DEF FirstQuarter
  <2> DEFINE op == Accumulator(y)
  <2>2. CASE y < 4
    <3>1. op \in {"RLCA", "RRCA", "RLA", "RRA"} /\ i = si(op, 1, 1, "A", "NONE") /\ "A" \in Reg8
      BY <2>1, <2>2 DEF Accumulator, Reg8
    <3> HIDE DEF op
    <3>2. /\ i.op = op /\ i.length = 1 /\ i.taken = 1 /\ i.not_taken = 1 /\ i.t1 = "A" /\ i.t2 = "NONE"
      BY <3>1 DEF si, sij
    <3>3. /\ i.op \in {"INC", "DEC", "RLCA", "RRCA", "RLA", "RRA"} /\ i.taken = i.not_taken
          /\ (i.t1 \in Reg8 /\ i.taken = 1) \/ (i.t1 = "HL_AS_ADDR" /\ i.taken = 3)
      BY <3>1, <3>2
    <3> QED BY <3>2, <3>3, OneOperandRows, Zenon
  <2>3. CASE ~(y < 4)
    <3>1. op \in {"DAA", "CPL", "SCF", "CCF"} /\ i = si(op, 1, 1, "NONE", "NONE")
      BY <2>1, <2>3 DEF Accumulator
    <3> HIDE DEF op
    <3> QED BY <3>1, ControlRows DEF si, sij
  <2> QED BY <2>2, <2>3
<1>10. z \in {0, 1, 2, 3, 4, 5, 6, 7}
  OBVIOUS
<1> QED BY <1>4, <1>5, <1>6, <1>7, <1>8, <1>9, <1>10, Zenon

(* ... those below 0xC0 ...                                                  *)
LEMMA MiddleFits ==
  ASSUME NEW x \in {1, 2}, NEW y \in 0 .. 7, NEW z \in 0 .. 7, NEW i, i = Unprefixed(x, y, z)
  PROVE  Fit(i, FALSE)
<1> DEFINE s == consec(y)
           t == consec(z)
           op == Arithmetic(y)
<1>1. (z = 6 /\ t = "HL_AS_ADDR" /\ \A a, b : Costs(t, a, b) = b)
      \/ (z # 6 /\ t \in Reg8 /\ \A a, b : Costs(t, a, b) = a)
  BY ConsecIs DEF Costs, Reg8
<1>2. (y = 6 /\ s = "HL_AS_ADDR") \/ (y # 6 /\ s \in Reg8)
  BY ConsecIs
<1>3. CASE x = 1
  <2>1. CASE y = 6 /\ z = 6
    <3>1. i = si("HALT", 1, 1, "NONE", "NONE")
      BY <1>3, <2>1 DEF Unprefixed
    <3> QED BY <3>1, ControlRows DEF si, sij
  <2>2. CASE ~(y = 6 /\ z = 6)
    <3>1. i = si("LD", 1, IF 6 \in {y, z} THEN 2 ELSE 1, s, t)
      BY <1>3, <2>2 DEF Unprefixed
    <3> HIDE DEF s, t
    <3> QED BY <3>1, <2>2, <1>1, <1>2, LoadRows DEF si, sij
  <2> QED BY <2>1, <2>2
<1>4. CASE x = 2
  <2>1. i = si(op, 1, Costs(t, 1, 2), "A", t)
    BY <1>4 DEF Unprefixed
  <2>2. op \in TwoOperandOps
    BY DEF Arithmetic, TwoOperandOps
  <2> HIDE DEF t, op
  <2> QED BY <2>1, <2>2, <1>1, TwoOperandRows DEF si, sij
<1> QED BY <1>3, <1>4

(* ... the last quarter, but for the opcodes that mean nothing ...           *)
LEMMA LastQuarterFits ==
  ASSUME NEW y \in 0 .. 7, NEW z \in 0 .. 7, NEW i, i = LastQuarter(y, z), 192 + 8 * y + z \notin Undefined
  PROVE  Fit(i, FALSE)
<1> DEFINE pair == StackPairs[y \div 2 + 1]
           cond == Conditions[y + 1]
           op == Arithmetic(y)
<1>1. pair \in {"BC", "DE", "HL", "AF"}
  <2>1. y \div 2 + 1 \in 1 .. 4
    OBVIOUS
  <2> QED BY <2>1 DEF StackPairs
<1>2. y < 4 => cond \in {"C_NZ", "C_Z", "C_NC", "C_C"}
  BY DEF Conditions
<1>3. CASE z = 0
  <2>1. \/ y < 4 /\ i = sij("RET", 1, 5, 2, cond, "NONE")
        \/ i \in {si("LD", 2, 3, "D8_AS_ADDR", "A"), si("ADD_SPD8", 2, 4, "SP", "D8"),
                  si("LD", 2, 3, "A", "D8_AS_ADDR"), si("LD_SP_PLUS_D8", 2, 3, "SP", "D8")}
    BY <1>3 DEF LastQuarter
  <2> HIDE DEF cond
  <2> QED BY <2>1, <1>2, JumpRows, PointerRows, WordRows DEF si, sij
<1>4. CASE z = 1
  <2>1. i \in {si("POP", 1, 3, pair, "NONE"), si("RET", 1, 4, "NONE", "NONE"), si("RETI", 1, 4, "NONE", "NONE"),
               si("JP", 3, 1, "NONE", "HL"), si("LD16", 1, 2, "SP", "HL")}
    BY <1>4 DEF LastQuarter
  <2> HIDE DEF pair
  <2> QED BY <2>1, <1>1, StackRows, JumpRows, WordRows DEF si, sij
<1>5. CASE z = 2
  <2>1. \/ y < 4 /\ i = sij("JP", 3, 4, 3, cond, "D16")
        \/ i \in {si("LD", 1, 2, "C_AS_ADDR", "A"), si("LD", 3, 4, "D16_AS_ADDR", "A"),
                  si("LD", 1, 2, "A", "C_AS_ADDR"), si("LD", 3, 4, "A", "D16_AS_ADDR")}
    BY <1>5 DEF LastQuarter
  <2> HIDE DEF cond
  <2> QED BY <2>1, <1>2, JumpRows, PointerRows DEF si, sij
<1>6. CASE z = 3
  <2>1. y \in {0, 6, 7}
    BY <1>6 DEF Undefined
  <2>2. i \in {si("JP", 3, 4, "NONE", "D16"), si("DI", 1, 1, "NONE", "NONE"), si("EI", 1, 1, "NONE", "NONE")}
    BY <2>1, <1>6 DEF LastQuarter
  <2> QED BY <2>2, JumpRows, ControlRows DEF si, sij
<1>7. CASE z = 4
  <2>1. y < 4
    BY <1>7 DEF Undefined
  <2>2. i = sij("CALL", 3, 6, 3, cond, "D16")
    BY <2>1, <1>7 DEF LastQuarter
  <2> HIDE DEF cond
  <2> QED BY <2>1, <2>2, <1>2, JumpRows DEF sij
<1>8. CASE z = 5
  <2>1. y \in {0, 1, 2, 4, 6}
    BY <1>8 DEF Undefined
  <2>2. i \in {si("PUSH", 1, 4, pair, "NONE"), si("CALL", 3, 6, "NONE", "D16")}
    BY <2>1, <1>8 DEF LastQuarter, Even
  <2> HIDE DEF pair
  <2> QED BY <2>2, <1>1, StackRows, JumpRows DEF si, sij
<1>9. CASE z = 6
  <2>1. i = si(op, 2, 2, "A", "D8")
    BY <1>9 DEF LastQuarter
  <2>2. op \in TwoOperandOps
    BY DEF Arithmetic, TwoOperandOps
  <2> HIDE DEF op
  <2> QED BY <2>1, <2>2, TwoOperandRows DEF si, sij
<1>10. CASE z = 7
  <2>1. i = si("RST", 1, 4, Nth(y), "NONE")
    BY <1>10 DEF LastQuarter
  <2> QED BY <2>1, RestartRows DEF si, sij
<1>11. z \in {0, 1, 2, 3, 4, 5, 6, 7}
  OBVIOUS
<1> QED BY <1>3, <1>4, <1>5, <1>6, <1>7, <1>8, <1>9, <1>10, <1>11, Zenon

(* ... and those behind the prefix.                                          *)
LEMMA PrefixedFits ==
  ASSUME NEW x \in 0 .. 3, NEW y \in 0 .. 7, NEW z \in 0 .. 7, NEW i, i = Prefixed(x, y, z)
  PROVE  Fit(i, TRUE)
<1> DEFINE t == consec(z)
           op == Rotation(y)
<1>1. (t = "HL_AS_ADDR" /\ \A a, b : Costs(t, a, b) = b) \/ (t \in Reg8 /\ \A a, b : Costs(t, a, b) = a)
  BY ConsecIs DEF Costs, Reg8
<1>2. op \in {"RLC", "RRC", "RL", "RR", "SLA", "SRA", "SWAP", "SRL"}
  BY DEF Rotation
<1>3. i \in {si(op, 2, Costs(t, 2, 4), t, "NONE"), si("BIT", 2, Costs(t, 2, 3), t, Nth(y)),
             si("RES", 2, Costs(t, 2, 4), t, Nth(y)), si("SET", 2, Costs(t, 2, 4), t, Nth(y))}
  BY DEF Prefixed
<1> HIDE DEF t, op
<1> QED BY <1>1, <1>2, <1>3, PrefixedRows DEF si, sij, OneOperandOps

(* An opcode that means nothing has no length, and does not touch the stack. *)
LEMMA NoInstructionFits == Shaped(NoInstruction)
  BY DEF Shaped, NoInstruction, si, sij

(* Undefined are the places of the last quarter without an instruction.      *)
LEMMA LastQuarterShaped ==
  ASSUME NEW y \in 0 .. 7, NEW z \in 0 .. 7, 192 + 8 * y + z \in Undefined
  PROVE  LastQuarter(y, z) = NoInstruction
<1>1. \/ z = 3 /\ y \in {1, 2, 3, 4, 5}
      \/ z = 4 /\ y \in {4, 5, 6, 7}
      \/ z = 5 /\ y \in {3, 5, 7}
  BY DEF Undefined
<1>2. CASE z = 3 /\ y \in {1, 2, 3, 4, 5}
  BY <1>2 DEF LastQuarter
<1>3. CASE z = 4 /\ y \in {4, 5, 6, 7}
  BY <1>3 DEF LastQuarter
<1>4. CASE z = 5 /\ y \in {3, 5, 7}
  <2>1. y # 1 /\ ~Even(y)
    BY <1>4 DEF Even
  <2> QED BY <1>4, <2>1 DEF LastQuarter
<1> QED BY <1>1, <1>2, <1>3, <1>4

(* Each entry of the table fits; those of no instruction have no length. *)
LEMMA EntriesFit ==
  ASSUME NEW index \in 0 .. 511, NEW i, i = ByBits(index)
  PROVE  /\ Shaped(i)
         /\ index >= 256 => Fit(i, TRUE)
         /\ ~(index >= 256) /\ index \notin Undefined => Fit(i, FALSE)
<1>1. PICK p \in 0 .. 1, x \in 0 .. 3, y \in 0 .. 7, z \in 0 .. 7 : index = 256 * p + 64 * x + 8 * y + z
  BY Decomposed
<1>2. Quarter(index) = x /\ Row(index) = y /\ Col(index) = z /\ (index >= 256 <=> p = 1)
  BY <1>1, Bits
<1>3. \A b : Fit(i, b) => Shaped(i)
  BY DEF Fit
<1>4. CASE p = 1
  <2>1. i = Prefixed(x, y, z)
    BY <1>2, <1>4 DEF ByBits
  <2>2. Fit(i, TRUE)
    BY <2>1, PrefixedFits
  <2> QED BY <1>2, <1>4, <2>2, <1>3
<1>5. CASE p = 0
  <2>1. i = Unprefixed(x, y, z) /\ ~(index >= 256)
    BY <1>2, <1>5 DEF ByBits
  <2>2. CASE x = 0
    <3>1. i = FirstQuarter(y, z)
      BY <2>1, <2>2 DEF Unprefixed
    <3>2. Fit(i, FALSE)
      BY <3>1, FirstQuarterFits
    <3> QED BY <3>2, <2>1, <1>3
  <2>3. CASE x \in {1, 2}
    <3>1. Fit(i, FALSE)
      BY <2>1, <2>3, MiddleFits
    <3> QED BY <3>1, <2>1, <1>3
  <2>4. CASE x = 3
    <3>1. i = LastQuarter(y, z) /\ index = 192 + 8 * y + z
      BY <2>1, <2>4, <1>1, <1>5 DEF Unprefixed
    <3>2. CASE index \in Undefined
      <4>1. Shaped(i)
        BY <3>1, <3>2, LastQuarterShaped, NoInstructionFits
      <4> QED BY <4>1, <3>2, <2>1
    <3>3. CASE index \notin Undefined
      <4>1. Fit(i, FALSE)
        BY <3>1, <3>3, LastQuarterFits
      <4> QED BY <4>1, <2>1, <1>3
    <3> QED BY <3>2, <3>3
  <2>5. x = 0 \/ x \in {1, 2} \/ x = 3
    OBVIOUS
  <2> QED BY <2>2, <2>3, <2>4, <2>5, Zenon
<1>6. p = 0 \/ p = 1
  OBVIOUS
<1> QED BY <1>4, <1>5, <1>6, Zenon

IndexOf(code) == IF code[1] = Prefix THEN 256 + code[2] ELSE code[1]

(* The second half of the table is for opcodes behind the prefix.            *)
LEMMA IndexIs ==
  ASSUME NEW code \in Code
  PROVE  /\ IndexOf(code) \in 0 .. 511
         /\ IndexOf(code) >= 256 <=> code[1] = Prefix
         /\ IndexOf(code) \in Undefined => code[1] \in Undefined /\ code[1] # Prefix
<1>1. code[1] \in Byte /\ code[2] \in Byte
  BY DEF Code
<1>2. \A u \in Undefined : u < 256
  BY DEF Undefined
<1> QED BY <1>1, <1>2, ByteIs, SMT DEF IndexOf, Prefix

(* What cpu_step finds in the table. *)
LEMMA FetchedFits ==
  ASSUME NEW code \in Code, NEW i, i = Fetched(code)
  PROVE  /\ Shaped(i)
         /\ Cardinality(Meanings[IndexOf(code)]) = 1
         /\ code[1] = Prefix => Fit(i, TRUE)
         /\ code[1] \notin Undefined => Fit(i, FALSE)
<1> DEFINE index == IndexOf(code)
<1>1. index \in 0 .. 511 /\ (index >= 256 <=> code[1] = Prefix)
      /\ (index \in Undefined => code[1] \in Undefined /\ code[1] # Prefix)
  BY IndexIs
<1>2. i = Instructions[index]
  BY Zenon DEF Fetched, instruction_get, IndexOf
<1> HIDE DEF index
<1>3. Meanings[index] = {ByBits(index)}
  BY <1>1, TableFollowsBits DEF TableIsRegular
<1>4. i = CHOOSE instr \in Meanings[index] : TRUE
  <2>1. Meanings[index] # {}
    BY <1>3
  <2> QED BY <1>1, <1>2, <2>1, Zenon DEF Instructions
<1>5. i = ByBits(index)
  BY <1>3, <1>4
<1>6. Cardinality(Meanings[index]) = 1
  BY <1>3, FS_Singleton
<1>7. /\ Shaped(i)
      /\ index >= 256 => Fit(i, TRUE)
      /\ ~(index >= 256) /\ index \notin Undefined => Fit(i, FALSE)
  BY <1>1, <1>5, EntriesFit
<1>8. Prefix \in Undefined
  BY DEF Prefix, Undefined
<1> QED BY <1>1, <1>6, <1>7, <1>8 DEF index

------------------------------------------------------------------------------
(* Types. *)

(* Registers and memory fit their widths, and the words the program has on   *)
(* the stack are in memory.                                                   *)
StateOK ==
  /\ prog \in Programs
  /\ turn \in {"step", "irq"}
  /\ Sound(Now)

(* The fields of Now.                                                        *)
LEMMA NowIs ==
  /\ Now.r = r /\ Now.f = f /\ Now.sp = sp /\ Now.pc = pc /\ Now.mem = mem /\ Now.depth = depth
  /\ Now.alive = alive /\ Now.writes = 0 /\ Now.taken = FALSE
  BY DEF Now

(* The variables after a step are those of the machine it leads to.          *)
LEMMA BecomesSound ==
  ASSUME NEW n, Sound(n), Becomes(n)
  PROVE  Sound(Now') /\ StackOf(Now)' = StackOf(n) /\ pc' = n.pc
<1>1. n \in Machine
  BY DEF Sound
<1>2. Now' \in Machine /\ SameStack(n, Now')
  BY <1>1 DEF Becomes, Now, Machine, SameStack
<1>3. Sound(Now')
  BY <1>2, Untouched
<1>4. StackOf(Now)' = StackOf(n)
  BY <1>2 DEF StackOf, SameStack, StackWord, mem_read_short, mem_read_byte
<1> QED BY <1>3, <1>4 DEF Becomes

(* The registers as regs initialises them, an empty stack and memory of      *)
(* zeros.                                                                    *)
LEMMA InitialState == Init => StateOK
<1> SUFFICES ASSUME Init PROVE StateOK
  OBVIOUS
<1>1. /\ \h11 \in Byte /\ 0 \in Byte /\ \hFF \in Byte /\ \h56 \in Byte /\ \h0D \in Byte
  BY ByteIs
<1>2. r \in Regs
  BY <1>1 DEF Init, Regs, Reg8
<1>3. f \in Flags
  <2>1. f = [z |-> TRUE, n |-> FALSE, h |-> FALSE, c |-> FALSE]
    BY DEF Init
  <2> QED BY <2>1 DEF Flags
<1>4. sp \in Word /\ pc \in Word
  BY WordIs DEF Init
<1>5. mem \in [Ram -> Byte]
  BY <1>1 DEF Init
<1>6. depth \in Nat /\ depth = 0
  BY DEF Init
<1>7. Now \in Machine
  <2>1. ime = FALSE /\ ime_next_cycle = FALSE /\ halt = FALSE /\ alive = TRUE
    BY DEF Init
  <2> QED BY <2>1, <1>2, <1>3, <1>4, <1>5, <1>6 DEF Now, Machine
<1>8. InMemory(Now)
  BY <1>4, <1>6, NowIs, WordIs, SMT DEF InMemory
<1> QED BY <1>7, <1>8 DEF Init, StateOK, Sound

(* What the cpu_step, the interrupt requests and the dispatch leave behind.  *)
LEMMA StepIsSound ==
  ASSUME StateOK, NEW code \in prog.code, NEW i, i = Fetched(code), NEW n, n = Outcome(code),
         NEW m, m = Started(i)
  PROVE  /\ Shaped(i)
         /\ Sound(m) /\ SameStack(Now, m) /\ m.pc = Wrap(pc + i.length) /\ m.taken = FALSE
         /\ Effect(m, n, i) /\ Sound(n)
<1>1. code \in Code
  BY CpuAssumption DEF StateOK
<1>2. Shaped(i)
  BY <1>1, FetchedFits
<1>3. Sound(Now)
  BY DEF StateOK
<1>4. /\ Sound(m) /\ SameStack(Now, m) /\ m.pc = Wrap(pc + i.length) /\ m.taken = FALSE
      /\ Effect(m, n, i)
  BY <1>1, <1>2, <1>3, OutcomeEffect
<1> QED BY <1>2, <1>4 DEF Effect

(* IF and IE are in memory that keeps them.                                  *)
LEMMA RegistersOfRequests == IRR_ADDR \in Ram /\ IE_ADDR \in Ram /\ IRR_ADDR \in Word
<1>1. IRR_ADDR \in Ram /\ IE_ADDR \in Ram
  BY SMT, CpuAssumption
<1> QED BY <1>1, RamIsWords

(* Setting and clearing a bit of IF leaves a byte.                           *)
LEMMA RequestsAreBytes ==
  ASSUME StateOK, NEW bit
  PROVE  Value(SetBits(mem[IRR_ADDR]) \cup {bit}) \in Byte /\ Value(SetBits(mem[IRR_ADDR]) \ {bit}) \in Byte
<1> DEFINE x == mem[IRR_ADDR]
           g == [z |-> TRUE, n |-> TRUE, h |-> TRUE, c |-> TRUE]
<1>1. x \in Byte
  BY RegistersOfRequests DEF StateOK, Sound, Machine, Now
<1>2. g \in Flags
  BY DEF Flags
<1> HIDE DEF x, g
<1>3. Ops!cpu_set(bit, x, g) \in Outcome8 /\ Ops!cpu_res(bit, x, g) \in Outcome8
  BY <1>1, <1>2, SameBytes, Ops!LogicIsByte
<1>4. Ops!cpu_set(bit, x, g).r \in Byte /\ Ops!cpu_res(bit, x, g).r \in Byte
  BY <1>3 DEF Outcome8
<1>5. /\ Ops!cpu_set(bit, x, g).r = Value(SetBits(x) \cup {bit})
      /\ Ops!cpu_res(bit, x, g).r = Value(SetBits(x) \ {bit})
  BY DEF Ops!cpu_set, Ops!cpu_res, Ops!Value, Value, Ops!SetBits, SetBits
<1> QED BY <1>4, <1>5 DEF x

(* A request stores to IF, and may cut a stack that lies there.              *)
LEMMA RequestIsSound ==
  ASSUME StateOK, NEW bit, NEW n,
         n = mem_write_byte(Now, IRR_ADDR, Value(SetBits(mem[IRR_ADDR]) \cup {bit}))
  PROVE  Sound(n) /\ Buried(Now, n) /\ n.pc = pc
<1> DEFINE data == Value(SetBits(mem[IRR_ADDR]) \cup {bit})
<1>1. data \in Byte /\ Sound(Now) /\ IRR_ADDR \in Word
  BY RequestsAreBytes, RegistersOfRequests DEF StateOK
<1> HIDE DEF data
<1>2. n = mem_write_byte(Now, IRR_ADDR, data)
  BY DEF data
<1>3. Sound(n) /\ Buried(Now, n) /\ SameControl(Now, n)
  BY <1>1, <1>2, WriteByte
<1> QED BY <1>3, NowIs DEF SameControl

(* A handler finds the address it interrupted on what is left of the stack.  *)
LEMMA DispatchIsSound ==
  ASSUME StateOK, NEW bit \in 0 .. 4, NEW n, n = Interrupted(Dispatched(bit))
  PROVE  /\ Sound(n) /\ n.pc = Vector(bit)
         /\ \E o : Sound(o) /\ Buried(Now, o) /\ Pushes(o, n, pc)
<1> DEFINE data == Value(SetBits(mem[IRR_ADDR]) \ {bit})
           o == mem_write_byte(Now, IRR_ADDR, data)
           p == cpu_push_short(o, pc)
           addr == Vector(bit)
           q == Dispatched(bit)
           rest == IF InRam(q.sp) THEN Intact(Now, IRR_ADDR) + 1 ELSE 0
<1>1. data \in Byte /\ Sound(Now) /\ IRR_ADDR \in Word /\ IRR_ADDR \in Ram /\ pc \in Word
  BY RequestsAreBytes, RegistersOfRequests DEF StateOK, Sound, Machine, Now
<1>2. addr \in Word
  BY WordIs DEF Vector
<1>3. q = [p EXCEPT !.ime = FALSE, !.halt = FALSE, !.pc = addr]
  BY DEF Dispatched
<1>4. n = [q EXCEPT !.depth = rest]
  BY DEF Interrupted
<1> HIDE DEF data, addr, q
<1>5. Sound(o) /\ Buried(Now, o) /\ o.depth = Intact(Now, IRR_ADDR)
  BY <1>1, WriteByte
<1> HIDE DEF o
<1>6. /\ Sound(p) /\ Pushes(o, p, pc) /\ p.depth = IF InRam(p.sp) THEN o.depth + 1 ELSE 0
  BY <1>1, <1>5, PushShort
<1> HIDE DEF p
<1>7. p \in Machine
  BY <1>6 DEF Sound
<1>8. q \in Machine /\ SameStack(p, q) /\ q.pc = addr
  BY <1>2, <1>3, <1>7 DEF Machine, SameStack
<1>9. rest = q.depth
  BY <1>5, <1>6, <1>8 DEF SameStack
<1> HIDE DEF rest
<1>10. n \in Machine /\ SameStack(q, n) /\ n.pc = addr
  BY <1>4, <1>8, <1>9 DEF Machine, SameStack
<1>11. SameStack(p, n)
  BY <1>8, <1>10 DEF SameStack
<1>12. Sound(n)
  BY <1>6, <1>10, <1>11, Untouched
<1>13. Pushes(o, n, pc)
  BY <1>6, <1>11 DEF Pushes, SameStack, StackWord, mem_read_short, mem_read_byte
<1> QED BY <1>5, <1>10, <1>12, <1>13 DEF addr

(* What is dispatched is one of the five interrupts.                         *)
LEMMA InterruptBitOf ==
  ASSUME NEW bit, bit \in Pending \cap InterruptBits
  PROVE  bit \in 0 .. 4
  BY DEF InterruptBits

(* No call of the loop stores a value out of its range or counts words of    *)
(* the stack that memory does not keep.                                      *)
LEMMA StaysSound == StateOK /\ [Next]_vars => StateOK'
<1> SUFFICES ASSUME StateOK, [Next]_vars PROVE StateOK'
  OBVIOUS
<1>1. CASE cpu_step
  <2>1. PICK code \in prog.code : Becomes(Outcome(code))
    BY <1>1 DEF cpu_step
  <2> DEFINE i == Fetched(code)
             n == Outcome(code)
             m == Started(i)
  <2>2. Sound(n)
    BY StepIsSound
  <2> HIDE DEF n
  <2>3. Sound(Now')
    BY <2>1, <2>2, BecomesSound DEF n
  <2> QED BY <2>3, <1>1 DEF cpu_step, StateOK
<1>2. CASE cpu_step_halted
  <2>1. Now' = Now
    BY <1>2 DEF cpu_step_halted, Now
  <2> QED BY <2>1, <1>2 DEF cpu_step_halted, StateOK
<1>3. ASSUME NEW bit \in prog.requests, cpu_req_interrupt(bit) PROVE StateOK'
  <2> DEFINE n == mem_write_byte(Now, IRR_ADDR, Value(SetBits(mem[IRR_ADDR]) \cup {bit}))
  <2>1. Sound(n)
    BY RequestIsSound
  <2>2. Becomes(n)
    BY <1>3 DEF cpu_req_interrupt
  <2> HIDE DEF n
  <2>3. Sound(Now')
    BY <2>1, <2>2, BecomesSound
  <2> QED BY <2>3, <1>3 DEF cpu_req_interrupt, StateOK
<1>4. CASE cpu_run_interrupts
  <2>1. CASE NoInterrupt
    <3>1. Now \in Machine /\ Sound(Now)
      BY DEF StateOK, Sound
    <3>2. halt' \in BOOLEAN
      BY <2>1 DEF NoInterrupt
    <3>3. UNCHANGED <<r, f, sp, pc, ime, ime_next_cycle, mem, alive, depth>>
      BY <2>1 DEF NoInterrupt
    <3>4. Now' \in Machine /\ SameStack(Now, Now')
      BY <3>1, <3>2, <3>3 DEF Now, Machine, SameStack
    <3>5. Sound(Now')
      BY <3>1, <3>4, Untouched
    <3> QED BY <3>5, <1>4 DEF cpu_run_interrupts, StateOK
  <2>2. CASE Dispatch
    <3>1. PICK bit \in Pending \cap InterruptBits : Becomes(Interrupted(Dispatched(bit)))
      BY <2>2 DEF Dispatch
    <3> DEFINE n == Interrupted(Dispatched(bit))
    <3>2. Sound(n)
      BY InterruptBitOf, DispatchIsSound
    <3> HIDE DEF n
    <3>3. Sound(Now')
      BY <3>1, <3>2, BecomesSound DEF n
    <3> QED BY <3>3, <1>4 DEF cpu_run_interrupts, StateOK
  <2> QED BY <2>1, <2>2, <1>4 DEF cpu_run_interrupts
<1>5. CASE UNCHANGED vars
  <2>1. Now' = Now
    BY <1>5 DEF vars, Now
  <2> QED BY <2>1, <1>5 DEF vars, StateOK
<1> QED BY <1>1, <1>2, <1>3, <1>4, <1>5 DEF Next

(* Registers, flags and memory stay within their widths, and the words       *)
(* counted as on the stack are in memory that keeps them: the invariant the  *)
(* other theorems about the CPU rest on.                                     *)
THEOREM StateAlwaysOK == Spec => []StateOK
<1>1. Init => StateOK
  BY InitialState
<1>2. StateOK /\ [Next]_vars => StateOK'
  BY StaysSound
<1> QED BY <1>1, <1>2, PTL DEF Spec

------------------------------------------------------------------------------
(* The refinement. *)

(* What CallStack has for its stack, before and after a step.                *)
LEMMA StackIs ==
  /\ [k \in 1 .. depth |-> mem_read_short(Now, Wrap(sp + 2 * (k - 1)))] = StackOf(Now)
  /\ [k \in 1 .. depth |-> mem_read_short(Now, Wrap(sp + 2 * (k - 1)))]' = StackOf(Now)'
  BY DEF StackOf, StackWord, Now

(* Addresses behind an instruction, in CallStack and here.                   *)
LEMMA AfterIs ==
  ASSUME StateOK, NEW n \in 0 .. 3
  PROVE  Stack!After(n) = Wrap(pc + n) /\ Stack!After(n) \in Word /\ (n = 0 => Stack!After(n) = pc)
<1>1. pc \in Word /\ pc \in Int
  BY WordIs DEF StateOK, Sound, Machine, Now
<1>2. Stack!After(n) = Wrap(pc + n)
  BY DEF Stack!After, Wrap
<1>3. pc + n \in Int
  BY <1>1
<1> QED BY <1>1, <1>2, <1>3, WrapIs

(* The steps of CallStack, from what the machine does: going on, with words  *)
(* overwritten ...                                                           *)
LEMMA OverwriteStep ==
  ASSUME pc' \in {pc} \cup {Stack!After(n) : n \in 1 .. 3},
         StackOf(Now)' \in Stack!Tops(StackOf(Now))
  PROVE  Stack!Overwrite
  BY StackIs DEF Stack!Overwrite

(* ... a push ...                                                            *)
LEMMA PushWordStep ==
  ASSUME StateOK, StateOK', pc' = Stack!After(1), NEW w \in Word,
         StackOf(Now)' \in Stack!Pushed(StackOf(Now), w)
  PROVE  Stack!PushWord
<1>1. StackOf(Now)' = <<>> \/ StackOf(Now)' = <<w>> \o StackOf(Now)
  BY DEF Stack!Pushed
<1> DEFINE s == StackOf(Now)
           t == StackOf(Now)'
<1>2. s \in Seq(Word)
  BY StackIsWords DEF StateOK
<1>3. t = <<>> \/ t = <<w>> \o s
  BY <1>1
<1> HIDE DEF s, t
<1>4. t = <<>> \/ (t # <<>> /\ Head(t) \in Word /\ Tail(t) = s)
  <2>1. ASSUME t = <<w>> \o s PROVE t # <<>> /\ Head(t) \in Word /\ Tail(t) = s
    BY <1>2, <2>1
  <2> QED BY <1>3, <2>1
<1> QED BY <1>4, StackIs DEF Stack!PushWord, s, t

(* ... a pop ...                                                             *)
LEMMA PopWordStep ==
  ASSUME pc' = Stack!After(1),
         StackOf(Now)' = IF StackOf(Now) = <<>> THEN <<>> ELSE Tail(StackOf(Now))
  PROVE  Stack!PopWord
  BY StackIs DEF Stack!PopWord

(* ... a call ...                                                            *)
LEMMA CallStep ==
  ASSUME pc' \in Word, NEW length \in {1, 3}, StackOf(Now)' \in Stack!Pushed(StackOf(Now), Stack!After(length))
  PROVE  Stack!Call
  BY StackIs DEF Stack!Call

(* ... a return ...                                                          *)
LEMMA ReturnStep ==
  ASSUME pc' \in Word,
         StackOf(Now) # <<>> => pc' = Head(StackOf(Now)),
         StackOf(Now)' = IF StackOf(Now) = <<>> THEN <<>> ELSE Tail(StackOf(Now))
  PROVE  Stack!Return
  BY StackIs DEF Stack!Return

(* ... a jump ...                                                            *)
LEMMA JumpStep ==
  ASSUME pc' \in Word, StackOf(Now)' = StackOf(Now)
  PROVE  Stack!Jump
  BY StackIs DEF Stack!Jump

(* ... the dispatch of an interrupt ...                                      *)
LEMMA InterruptedStep ==
  ASSUME NEW bit \in 0 .. 4, pc' = Vector(bit), NEW s \in Stack!Tops(StackOf(Now)),
         StackOf(Now)' \in Stack!Pushed(s, pc)
  PROVE  Stack!Interrupted
  BY StackIs DEF Stack!Interrupted, InterruptBits

(* ... and none.                                                             *)
LEMMA StutterStep ==
  ASSUME pc' = pc, StackOf(Now)' = StackOf(Now)
  PROVE  UNCHANGED Stack!vars
  BY StackIs DEF Stack!vars

(* Every cpu_step is a step of CallStack ...                                 *)
LEMMA StepOfStack ==
  ASSUME StateOK, StateOK', cpu_step
  PROVE  Stack!Next
<1>1. PICK code \in prog.code : Becomes(Outcome(code))
  BY DEF cpu_step
<1> DEFINE i == Fetched(code)
           n == Outcome(code)
           m == Started(i)
<1>2. /\ Shaped(i) /\ Sound(m) /\ SameStack(Now, m) /\ m.pc = Wrap(pc + i.length) /\ m.taken = FALSE
      /\ Effect(m, n, i) /\ Sound(n)
  BY StepIsSound
<1> HIDE DEF i, n, m
<1>3. StackOf(Now)' = StackOf(n) /\ pc' = n.pc
  BY <1>1, <1>2, BecomesSound DEF n
<1>4. StackOf(m) = StackOf(Now)
  BY <1>2 DEF StackOf, SameStack, StackWord, mem_read_short, mem_read_byte
<1>5. i.length \in 0 .. 3
  BY <1>2 DEF Shaped
<1>6. m.pc = Stack!After(i.length) /\ m.pc \in Word
  BY <1>2, <1>5, AfterIs
<1>7. n.pc \in Word
  BY <1>2 DEF Sound, Machine
<1>8. ASSUME Buried(m, n), n.pc = m.pc PROVE Stack!Next
  <2>1. StackOf(Now)' \in Stack!Tops(StackOf(Now))
    BY <1>2, <1>3, <1>4, <1>8, BuriedIsTop
  <2>2. pc' \in {pc} \cup {Stack!After(k) : k \in 1 .. 3}
    BY <1>3, <1>5, <1>6, <1>8, AfterIs
  <2> QED BY <2>1, <2>2, OverwriteStep DEF Stack!Next
<1>9. CASE i.op = "PUSH"
  <2>1. i.length = 1
    BY <1>2, <1>9 DEF Shaped
  <2>2. PICK w \in Word : Pushes(m, n, w)
    BY <1>2, <1>9 DEF Effect
  <2>3. n.pc = m.pc
    BY <1>2, <1>9 DEF Effect
  <2>4. StackOf(Now)' \in Stack!Pushed(StackOf(Now), w)
    BY <2>2, <1>2, <1>3, <1>4, PushesIsPushed
  <2>5. pc' = Stack!After(1)
    BY <2>1, <2>3, <1>3, <1>6
  <2> QED BY <2>4, <2>5, PushWordStep DEF Stack!Next
<1>10. CASE i.op = "POP"
  <2>1. i.length = 1
    BY <1>2, <1>10 DEF Shaped
  <2>2. Pops(m, n) /\ n.pc = m.pc
    BY <1>2, <1>10 DEF Effect
  <2>3. StackOf(Now)' = IF StackOf(Now) = <<>> THEN <<>> ELSE Tail(StackOf(Now))
    BY <2>2, <1>2, <1>3, <1>4, PopsIsTail
  <2>4. pc' = Stack!After(1)
    BY <2>1, <2>2, <1>3, <1>6
  <2> QED BY <2>3, <2>4, PopWordStep DEF Stack!Next
<1>11. CASE i.op \in JumpOps
  <2>1. JumpEffect(m, n, i)
    BY <1>2, <1>11 DEF Effect
  <2>2. CASE ~n.taken
    BY <2>1, <2>2, <1>8 DEF JumpEffect, Plain
  <2>3. CASE n.taken /\ i.op \in {"CALL", "RST"}
    <3>1. i.length \in {1, 3}
      BY <1>2, <2>3 DEF Shaped
    <3>2. Pushes(m, n, m.pc)
      BY <2>1, <2>3 DEF JumpEffect
    <3>3. StackOf(Now)' \in Stack!Pushed(StackOf(Now), m.pc)
      BY <3>2, <1>2, <1>3, <1>4, <1>6, PushesIsPushed
    <3>4. StackOf(Now)' \in Stack!Pushed(StackOf(Now), Stack!After(i.length))
      BY <3>3, <1>6
    <3> QED BY <3>1, <3>4, <1>3, <1>7, CallStep DEF Stack!Next
  <2>4. CASE n.taken /\ i.op \in {"JP", "JR"}
    <3>1. SameStack(m, n)
      BY <2>1, <2>4 DEF JumpEffect
    <3>2. StackOf(n) = StackOf(m)
      BY <3>1 DEF StackOf, SameStack, StackWord, mem_read_short, mem_read_byte
    <3> QED BY <3>2, <1>3, <1>4, <1>7, JumpStep DEF Stack!Next
  <2>5. CASE n.taken /\ i.op \in {"RET", "RETI"}
    <3>1. Pops(m, n) /\ n.pc = Popped(m)
      BY <2>1, <2>5 DEF JumpEffect
    <3>2. /\ StackOf(n) = IF StackOf(m) = <<>> THEN <<>> ELSE Tail(StackOf(m))
          /\ StackOf(m) # <<>> => Head(StackOf(m)) = Popped(m)
      BY <3>1, <1>2, PopsIsTail
    <3> QED BY <3>1, <3>2, <1>3, <1>4, <1>7, ReturnStep DEF Stack!Next
  <2> QED BY <2>2, <2>3, <2>4, <2>5, <1>11 DEF JumpOps
<1>12. CASE i.op \notin JumpOps \cup {"PUSH", "POP"}
  BY <1>2, <1>8, <1>12 DEF Effect
<1> QED BY <1>9, <1>10, <1>11, <1>12

(* ... every request of an interrupt is ...                                  *)
LEMMA RequestOfStack ==
  ASSUME StateOK, StateOK', NEW bit, cpu_req_interrupt(bit)
  PROVE  Stack!Next
<1> DEFINE n == mem_write_byte(Now, IRR_ADDR, Value(SetBits(mem[IRR_ADDR]) \cup {bit}))
<1>1. Sound(n) /\ Buried(Now, n) /\ n.pc = pc
  BY RequestIsSound
<1>2. Becomes(n)
  BY DEF cpu_req_interrupt
<1> HIDE DEF n
<1>3. StackOf(Now)' = StackOf(n) /\ pc' = n.pc
  BY <1>1, <1>2, BecomesSound
<1>4. StackOf(Now)' \in Stack!Tops(StackOf(Now))
  BY <1>1, <1>3, BuriedIsTop DEF StateOK
<1> QED BY <1>1, <1>3, <1>4, OverwriteStep DEF Stack!Next

(* ... and every dispatch.                                                   *)
LEMMA DispatchOfStack ==
  ASSUME StateOK, StateOK', Dispatch
  PROVE  Stack!Next
<1>1. PICK bit \in Pending \cap InterruptBits : Becomes(Interrupted(Dispatched(bit)))
  BY DEF Dispatch
<1> DEFINE n == Interrupted(Dispatched(bit))
<1>2. bit \in 0 .. 4
  BY InterruptBitOf
<1>3. /\ Sound(n) /\ n.pc = Vector(bit)
      /\ \E o : Sound(o) /\ Buried(Now, o) /\ Pushes(o, n, pc)
  BY <1>2, DispatchIsSound
<1> HIDE DEF n
<1>4. StackOf(Now)' = StackOf(n) /\ pc' = n.pc
  BY <1>1, <1>3, BecomesSound DEF n
<1>5. PICK o : Sound(o) /\ Buried(Now, o) /\ Pushes(o, n, pc)
  BY <1>3
<1>6. pc \in Word /\ Sound(Now)
  BY DEF StateOK, Sound, Machine, Now
<1>7. StackOf(o) \in Stack!Tops(StackOf(Now))
  BY <1>5, <1>6, BuriedIsTop
<1>8. StackOf(Now)' \in Stack!Pushed(StackOf(o), pc)
  BY <1>3, <1>4, <1>5, <1>6, PushesIsPushed
<1> QED BY <1>2, <1>3, <1>4, <1>7, <1>8, InterruptedStep DEF Stack!Next

(* Memory and SP implement a stack of calls: whatever code runs, wherever    *)
(* the stack is (on IF and IE too) and whenever interrupts are requested, a  *)
(* return goes behind its call or to the interrupted instruction unless the  *)
(* program stored over that word or moved SP.                                *)
THEOREM CallsNest == Spec => ImplementsCallStack
<1>1. Init /\ StateOK => Stack!Init
  <2> SUFFICES ASSUME Init, StateOK PROVE Stack!Init
    OBVIOUS
  <2>1. pc \in Word
    BY DEF StateOK, Sound, Machine, Now
  <2>2. StackOf(Now) = <<>>
    BY StackIsWords, NowIs DEF Init, StateOK
  <2> QED BY <2>1, <2>2, StackIs DEF Stack!Init
<1>2. StateOK /\ StateOK' /\ [Next]_vars => [Stack!Next]_Stack!vars
  <2> SUFFICES ASSUME StateOK, StateOK', [Next]_vars PROVE Stack!Next \/ UNCHANGED Stack!vars
    OBVIOUS
  <2>1. CASE cpu_step
    BY <2>1, StepOfStack
  <2>2. CASE cpu_step_halted
    <3>1. pc' = pc /\ Now' = Now
      BY <2>2 DEF cpu_step_halted, Now
    <3>2. StackOf(Now)' = StackOf(Now)
      BY <3>1 DEF StackOf
    <3> QED BY <3>1, <3>2, StutterStep
  <2>3. ASSUME NEW bit \in prog.requests, cpu_req_interrupt(bit) PROVE Stack!Next
    BY <2>3, RequestOfStack
  <2>4. CASE cpu_run_interrupts /\ NoInterrupt
    <3>1. pc' = pc /\ SameStack(Now, Now')
      BY <2>4 DEF NoInterrupt, SameStack, Now
    <3>2. StackOf(Now)' = StackOf(Now)
      BY <3>1 DEF StackOf, SameStack, StackWord, mem_read_short, mem_read_byte
    <3> QED BY <3>1, <3>2, StutterStep
  <2>5. CASE cpu_run_interrupts /\ Dispatch
    BY <2>5, DispatchOfStack
  <2>6. CASE UNCHANGED vars
    <3>1. pc' = pc /\ Now' = Now
      BY <2>6 DEF vars, Now
    <3>2. StackOf(Now)' = StackOf(Now)
      BY <3>1 DEF StackOf
    <3> QED BY <3>1, <3>2, StutterStep
  <2> QED BY <2>1, <2>2, <2>3, <2>4, <2>5, <2>6 DEF Next, cpu_run_interrupts
<1>3. Spec => []StateOK
  BY StateAlwaysOK
<1>4. Init => StateOK
  BY InitialState
<1> QED BY <1>1, <1>2, <1>3, <1>4, PTL DEF Spec, ImplementsCallStack, Stack!Spec

------------------------------------------------------------------------------
(* The properties of the instructions. *)

(* The operands of a byte an instruction uses.                               *)
LEMMA Used8Is ==
  ASSUME NEW i
  PROVE  /\ i.op \in TwoOperandOps => Used8(i) = {i.t1, i.t2}
         /\ i.op \in OneOperandOps \cup {"BIT"} => Used8(i) = {i.t1}
         /\ i.op \in {"LD", "JR", "LD_SP_PLUS_D8"} => Used8(i) = {i.t2}
         /\ i.op \notin TwoOperandOps \cup OneOperandOps \cup {"BIT", "LD", "JR", "LD_SP_PLUS_D8"} =>
              Used8(i) = {}
<1>1. ASSUME i.op \in TwoOperandOps PROVE Used8(i) = {i.t1, i.t2}
  <2>1. i.op \notin OneOperandOps \cup {"BIT"} /\ i.op \notin {"LD", "JR", "LD_SP_PLUS_D8"}
    BY <1>1 DEF TwoOperandOps, OneOperandOps
  <2> QED BY <1>1, <2>1, Zenon DEF Used8
<1>2. ASSUME i.op \in OneOperandOps \cup {"BIT"} PROVE Used8(i) = {i.t1}
  <2>1. i.op \notin TwoOperandOps /\ i.op \notin {"LD", "JR", "LD_SP_PLUS_D8"}
    BY <1>2 DEF TwoOperandOps, OneOperandOps
  <2> QED BY <1>2, <2>1, Zenon DEF Used8
<1>3. ASSUME i.op \in {"LD", "JR", "LD_SP_PLUS_D8"} PROVE Used8(i) = {i.t2}
  <2>1. i.op \notin TwoOperandOps /\ i.op \notin OneOperandOps \cup {"BIT"}
    BY <1>3 DEF TwoOperandOps, OneOperandOps
  <2> QED BY <1>3, <2>1, Zenon DEF Used8
<1>4. ASSUME i.op \notin TwoOperandOps \cup OneOperandOps \cup {"BIT", "LD", "JR", "LD_SP_PLUS_D8"}
      PROVE  Used8(i) = {}
  <2>1. /\ i.op \notin TwoOperandOps /\ i.op \notin OneOperandOps \cup {"BIT"}
        /\ i.op \notin {"LD", "JR", "LD_SP_PLUS_D8"}
    BY <1>4
  <2> QED BY <2>1, Zenon DEF Used8
<1> QED BY <1>1, <1>2, <1>3, <1>4

(* No operand the result depends on is the placeholder 0x69 ...              *)
LEMMA Used16Fits ==
  ASSUME NEW i, Operable(i)
  PROVE  Used16(i) \subseteq Readable16
<1>1. Used16(i) \in {{i.t1, i.t2}, {i.t1}, {i.t2}, {}}
  BY Zenon DEF Used16
<1>2. CASE i.op \in {"ADD16", "ADD_SPD8"}
  BY <1>1, <1>2 DEF Operable
<1>3. CASE i.op \in {"INC16", "DEC16", "PUSH", "LD_SP_PLUS_D8"}
  <2>1. i.op \notin {"ADD16", "ADD_SPD8"} /\ i.op \notin {"LD16", "CALL", "JP"}
    BY <1>3
  <2>2. Used16(i) = {i.t1}
    BY <1>3, <2>1, Zenon DEF Used16
  <2> QED BY <1>3, <2>2 DEF Operable
<1>4. CASE i.op \in {"LD16", "CALL", "JP"}
  <2>1. i.op \notin {"ADD16", "ADD_SPD8"} /\ i.op \notin {"INC16", "DEC16", "PUSH", "LD_SP_PLUS_D8"}
    BY <1>4
  <2>2. Used16(i) = {i.t2}
    BY <1>4, <2>1, Zenon DEF Used16
  <2> QED BY <1>4, <2>2 DEF Operable
<1>5. CASE /\ i.op \notin {"ADD16", "ADD_SPD8"} /\ i.op \notin {"LD16", "CALL", "JP"}
           /\ i.op \notin {"INC16", "DEC16", "PUSH", "LD_SP_PLUS_D8"}
  <2>1. Used16(i) = {}
    BY <1>5, Zenon DEF Used16
  <2> QED BY <2>1
<1> QED BY <1>2, <1>3, <1>4, <1>5, Zenon

(* ... or 0x67.                                                              *)
LEMMA Used8Fits ==
  ASSUME NEW i, Operable(i)
  PROVE  Used8(i) \subseteq Readable8
<1>1. "A" \in Readable8
  BY DEF Readable8, Reg8
<1> QED BY <1>1, Used8Is DEF Operable

(* At most one of the bytes used is in memory.                               *)
LEMMA FetchesIs ==
  ASSUME NEW i, Operable(i)
  PROVE  Cardinality(Used8(i) \cap MemoryTargets) = Fetches(i)
<1>1. \A t : Cardinality({t} \cap MemoryTargets) = OneIf(t \in MemoryTargets)
  <2> SUFFICES ASSUME NEW t PROVE Cardinality({t} \cap MemoryTargets) = OneIf(t \in MemoryTargets)
    OBVIOUS
  <2>1. CASE t \in MemoryTargets
    <3>1. {t} \cap MemoryTargets = {t}
      BY <2>1
    <3> QED BY <2>1, <3>1, FS_Singleton DEF OneIf
  <2>2. CASE t \notin MemoryTargets
    <3>1. {t} \cap MemoryTargets = {}
      BY <2>2
    <3> QED BY <2>2, <3>1, FS_EmptySet DEF OneIf
  <2> QED BY <2>1, <2>2
<1>2. CASE i.op \in TwoOperandOps
  <2>1. "A" \notin MemoryTargets /\ i.t1 = "A"
    BY <1>2 DEF MemoryTargets, Operable
  <2>2. Used8(i) \cap MemoryTargets = {i.t2} \cap MemoryTargets
    BY <1>2, <2>1, Used8Is
  <2> QED BY <1>1, <1>2, <2>2 DEF Fetches
<1>3. CASE i.op \in {"LD", "JR", "LD_SP_PLUS_D8"}
  <2>1. Used8(i) = {i.t2}
    BY <1>3, Used8Is
  <2> QED BY <1>1, <1>3, <2>1 DEF Fetches
<1>4. CASE i.op \in OneOperandOps \cup {"BIT"}
  <2>1. Used8(i) = {i.t1}
    BY <1>4, Used8Is
  <2>2. i.op \notin TwoOperandOps \cup {"LD", "JR", "LD_SP_PLUS_D8"}
    BY <1>4 DEF TwoOperandOps, OneOperandOps
  <2> QED BY <1>1, <1>4, <2>1, <2>2 DEF Fetches
<1>5. CASE i.op \notin TwoOperandOps \cup OneOperandOps \cup {"BIT", "LD", "JR", "LD_SP_PLUS_D8"}
  <2>1. Used8(i) \cap MemoryTargets = {}
    BY <1>5, Used8Is
  <2> QED BY <1>5, <2>1, FS_EmptySet DEF Fetches
<1> QED BY <1>2, <1>3, <1>4, <1>5

(* Bytes of code, and what Size has for them.                                *)
LEMMA BytesIs ==
  ASSUME NEW code, NEW i, i = Fetched(code)
  PROVE  /\ code[1] = Prefix => Bytes(code) = Size(i, TRUE)
         /\ code[1] # Prefix => Bytes(code) = Size(i, FALSE)
<1>1. \A t : Immediates(t) = Operand(t)
  <2> SUFFICES ASSUME NEW t PROVE Immediates(t) = Operand(t)
    OBVIOUS
  <2>1. CASE t \in {"D8", "D8_AS_ADDR"}
    <3>1. t \notin {"D16", "D16_AS_ADDR"}
      BY <2>1
    <3>2. Immediates(t) = 1
      BY <2>1, <3>1, Zenon DEF Immediates
    <3> QED BY <2>1, <3>2 DEF Operand
  <2>2. CASE t \in {"D16", "D16_AS_ADDR"}
    <3>1. t \notin {"D8", "D8_AS_ADDR"}
      BY <2>2
    <3>2. Immediates(t) = 2
      BY <2>2, <3>1, Zenon DEF Immediates
    <3> QED BY <2>2, <3>1, <3>2 DEF Operand
  <2>3. CASE t \notin {"D8", "D8_AS_ADDR"} /\ t \notin {"D16", "D16_AS_ADDR"}
    <3>1. Immediates(t) = 0
      BY <2>3, Zenon DEF Immediates
    <3> QED BY <2>3, <3>1 DEF Operand
  <2> QED BY <2>1, <2>2, <2>3
<1> QED BY <1>1 DEF Bytes, Size, Bit

(* Internal cycles, and what Idle has for them.                              *)
LEMMA InternalIs ==
  ASSUME NEW i, NEW m
  PROVE  Internal(i, m) = Idle(i, m.taken)
<1>1. CASE i.op = "STOP"
  <2>1. Internal(i, m) = -1
    BY <1>1, Zenon DEF Internal
  <2> QED BY <1>1, <2>1 DEF Idle
<1>2. CASE i.op = "JP" /\ i.t2 = "HL"
  <2>1. Internal(i, m) = 0
    BY <1>2, Zenon DEF Internal
  <2> QED BY <1>2, <2>1 DEF Idle
<1>3. CASE i.op \in {"PUSH", "ADD16", "INC16", "DEC16", "LD_SP_PLUS_D8"}
  <2>1. Internal(i, m) = 1
    BY <1>3, Zenon DEF Internal
  <2> QED BY <1>3, <2>1 DEF Idle
<1>4. CASE i.op = "LD16" /\ i.t2 = "HL"
  <2>1. Internal(i, m) = 1
    BY <1>4, Zenon DEF Internal
  <2> QED BY <1>4, <2>1 DEF Idle
<1>5. CASE i.op = "ADD_SPD8"
  <2>1. Internal(i, m) = 2
    BY <1>5, Zenon DEF Internal
  <2> QED BY <1>5, <2>1 DEF Idle
<1>6. CASE i.op = "RET" /\ i.t1 # "NONE"
  <2>1. Internal(i, m) = 1 + Bit(m.taken)
    BY <1>6, Zenon DEF Internal
  <2> QED BY <1>6, <2>1 DEF Idle, Bit, OneIf
<1>7. CASE /\ i.op \notin {"STOP", "PUSH", "ADD16", "INC16", "DEC16", "LD_SP_PLUS_D8", "ADD_SPD8"}
           /\ ~(i.op = "JP" /\ i.t2 = "HL") /\ ~(i.op = "LD16" /\ i.t2 = "HL")
           /\ ~(i.op = "RET" /\ i.t1 # "NONE")
  <2>1. i.op # "STOP" /\ i.op # "ADD_SPD8" /\ i.op \notin {"PUSH", "ADD16", "INC16", "DEC16", "LD_SP_PLUS_D8"}
    BY <1>7
  <2>2. Internal(i, m) = Bit(m.taken)
    BY <1>7, <2>1, Zenon DEF Internal
  <2> QED BY <1>7, <2>2 DEF Idle, Bit, OneIf
<1> QED BY <1>1, <1>2, <1>3, <1>4, <1>5, <1>6, <1>7

(* What an instruction of the table does, jump taken or not.                 *)
LEMMA DefinedEffect ==
  ASSUME StateOK, NEW code \in Defined, NEW i, i = Fetched(code), NEW n, n = Outcome(code)
  PROVE  /\ code \in Code /\ n.alive /\ n.taken \in BOOLEAN
         /\ Operable(i) /\ i.length \in 0 .. 3
         /\ n.taken => i.op \in JumpOps
         /\ i.op \in JumpOps /\ (i.op = "RST" \/ i.t1 = "NONE") => n.taken
         /\ n.writes = Stores(i, n.taken)
         /\ ~n.taken => n.pc = Wrap(pc + i.length)
         /\ n.taken /\ i.op \in {"CALL", "RST"} /\ InRam(n.sp) => Popped(n) = Wrap(pc + i.length)
<1> DEFINE m == Started(i)
<1>1. code \in prog.code /\ alive /\ (code[1] \notin Undefined \/ code[1] = Prefix)
  BY DEF Defined, AtPc
<1>2. code \in Code
  BY <1>1, CpuAssumption DEF StateOK
<1>3. Operable(i) /\ Executable(i) /\ Shaped(i)
  <2>1. Fit(i, TRUE) \/ Fit(i, FALSE)
    BY <1>1, <1>2, FetchedFits
  <2> QED BY <2>1 DEF Fit
<1>4. /\ Sound(m) /\ m.pc = Wrap(pc + i.length) /\ m.taken = FALSE /\ m.writes = 0 /\ m.alive = alive
      /\ Effect(m, n, i)
  BY <1>2, <1>3, OutcomeEffect DEF StateOK
<1> HIDE DEF m
<1>5. n.taken \in BOOLEAN /\ i.length \in 0 .. 3
  BY <1>3, <1>4 DEF Effect, Sound, Machine, Shaped
<1>6. m.alive
  BY <1>1, <1>4
<1>7. ~m.taken
  BY <1>4
<1>8. CASE i.op \in JumpOps
  <2>1. JumpEffect(m, n, i)
    BY <1>4, <1>8 DEF Effect
  <2>2. i.op = "RST" \/ i.t1 \in CondTargets
    BY <1>3, <1>8 DEF Executable, JumpOps, RegisterOps, TwoOperandOps, AccumulatorOps, OneOperandOps, WordOps
  <2>3. n.alive
    BY <1>6, <2>1, <2>2 DEF JumpEffect
  <2>4. i.op \notin OneOperandOps \cup {"LD", "PUSH"} \cup WordOps
    BY <1>8 DEF JumpOps, OneOperandOps, WordOps
  <2>5. CASE n.taken
    <3>1. n.writes = IF i.op \in {"CALL", "RST"} THEN 2 ELSE 0
      BY <1>4, <1>8, <2>1, <2>5 DEF JumpEffect, JumpOps
    <3>2. n.writes = Stores(i, n.taken)
      BY <2>4, <2>5, <3>1 DEF Stores
    <3>3. i.op \in {"CALL", "RST"} /\ InRam(n.sp) => Popped(n) = Wrap(pc + i.length)
      BY <1>4, <2>1, <2>5 DEF JumpEffect
    <3> QED BY <1>2, <1>3, <1>5, <1>8, <2>3, <2>5, <3>2, <3>3
  <2>6. CASE ~n.taken
    <3>1. Plain(m, n, 0) /\ i.op # "RST" /\ i.t1 # "NONE"
      BY <2>1, <2>6 DEF JumpEffect
    <3>2. n.writes = 0 /\ n.pc = Wrap(pc + i.length)
      BY <1>4, <3>1 DEF Plain
    <3>3. n.writes = Stores(i, n.taken)
      BY <2>4, <2>6, <3>2 DEF Stores
    <3> QED BY <1>2, <1>3, <1>5, <1>8, <2>3, <2>6, <3>1, <3>2, <3>3
  <2> QED BY <2>5, <2>6
<1>9. CASE i.op \notin JumpOps
  <2>1. n.pc = m.pc /\ n.taken = m.taken
    BY <1>4, <1>9 DEF Effect
  <2>2. ~n.taken
    BY <1>7, <2>1
  <2>3. n.alive /\ n.writes = Stores(i, n.taken)
    <3>1. CASE i.op = "PUSH"
      <4>1. i.op \notin OneOperandOps \cup {"LD"} \cup WordOps
        BY <3>1 DEF OneOperandOps, WordOps
      <4>2. n.alive = m.alive /\ n.writes = m.writes + 2
        BY <1>4, <3>1 DEF Effect
      <4>3. n.writes = 2
        BY <1>4, <4>2
      <4> QED BY <1>6, <3>1, <4>1, <4>2, <4>3 DEF Stores
    <3>2. CASE i.op = "POP"
      <4>1. i.op \notin OneOperandOps \cup {"LD"} \cup WordOps
        BY <3>2 DEF OneOperandOps, WordOps
      <4>2. n.alive = m.alive /\ n.writes = m.writes
        BY <1>4, <3>2 DEF Effect
      <4> QED BY <1>4, <1>6, <3>2, <4>1, <4>2 DEF Stores
    <3>3. CASE i.op \in OneOperandOps \cup {"LD"}
      <4>1. i.t1 \in Writable8
        BY <1>3, <3>3 DEF Executable, JumpOps, RegisterOps, TwoOperandOps, AccumulatorOps, OneOperandOps, WordOps
      <4>3. Plain(m, n, IF i.t1 \in MemoryTargets THEN 1 ELSE 0) /\ n.alive = m.alive
        BY <1>4, <3>3, <4>1 DEF Effect
      <4>4. n.writes = IF i.t1 \in MemoryTargets THEN 1 ELSE 0
        BY <1>4, <4>3 DEF Plain
      <4> QED BY <1>6, <3>3, <4>3, <4>4 DEF Stores, OneIf
    <3>4. CASE i.op \in WordOps
      <4>1. i.t1 \in Writable16
        BY <1>3, <3>4 DEF Executable, JumpOps, RegisterOps, TwoOperandOps, AccumulatorOps, OneOperandOps, WordOps
      <4>2. i.op \notin OneOperandOps \cup {"LD"}
        BY <3>4 DEF OneOperandOps, WordOps
      <4>3. Plain(m, n, IF i.t1 = "D16_AS_ADDR" THEN 2 ELSE 0) /\ n.alive = m.alive
        BY <1>4, <3>4, <4>1 DEF Effect
      <4>4. n.writes = IF i.t1 = "D16_AS_ADDR" THEN 2 ELSE 0
        BY <1>4, <4>3 DEF Plain
      <4> QED BY <1>6, <3>4, <4>2, <4>3, <4>4 DEF Stores
    <3>5. CASE i.op \in RegisterOps
      <4>1. i.op \notin OneOperandOps \cup {"LD", "PUSH", "CALL", "RST"} \cup WordOps
        BY <3>5 DEF OneOperandOps, WordOps, RegisterOps, TwoOperandOps, AccumulatorOps
      <4>3. Plain(m, n, 0) /\ n.alive = m.alive
        BY <1>4, <3>5, <4>1 DEF Effect
      <4>4. n.writes = 0
        BY <1>4, <4>3 DEF Plain
      <4> QED BY <1>6, <3>5, <4>1, <4>3, <4>4 DEF Stores
    <3> QED BY <1>3, <1>9, <3>1, <3>2, <3>3, <3>4, <3>5 DEF Executable, JumpOps
  <2> QED BY <1>2, <1>3, <1>4, <1>5, <1>9, <2>1, <2>2, <2>3
<1> QED BY <1>8, <1>9

(* Every opcode has one place in the table and runs with all its operands,   *)
(* to an end that is not exit(1): the tables of instruction_init, the switch *)
(* of cpu_step and the operands of get_op_8 and get_op_16 fit each other,    *)
(* for every program.                                                        *)
THEOREM EveryOpcodeIsExecuted == Spec => []EveryOpcodeExecutes
<1>1. StateOK => EveryOpcodeExecutes
  <2> SUFFICES ASSUME StateOK, NEW code \in Defined
               PROVE  /\ Cardinality(Meanings[IndexOf(code)]) = 1
                      /\ Used8(Fetched(code)) \subseteq Readable8
                      /\ Used16(Fetched(code)) \subseteq Readable16
                      /\ Outcome(code).alive
    BY DEF EveryOpcodeExecutes, IndexOf
  <2>1. code \in Code /\ Outcome(code).alive /\ Operable(Fetched(code))
    BY DefinedEffect
  <2>2. Cardinality(Meanings[IndexOf(code)]) = 1
    BY <2>1, FetchedFits
  <2>3. Used8(Fetched(code)) \subseteq Readable8 /\ Used16(Fetched(code)) \subseteq Readable16
    BY <2>1, Used8Fits, Used16Fits
  <2> QED BY <2>1, <2>2, <2>3
<1> QED BY <1>1, StateAlwaysOK, PTL

(* Execution goes on behind the operands that were read, whether cpu_step    *)
(* falls through or a call returns, for every opcode and operand.            *)
THEOREM AlwaysGoesOnBehindOperands == Spec => []GoesOnBehindOperands
<1>1. StateOK => GoesOnBehindOperands
  <2> SUFFICES ASSUME StateOK, NEW code \in Defined, NEW m, m = Outcome(code),
                      NEW next, next = Wrap(pc + Bytes(code))
               PROVE  IF m.taken THEN Fetched(code).op \in {"CALL", "RST"} /\ InRam(m.sp) => Popped(m) = next
                      ELSE m.pc = next
    BY DEF GoesOnBehindOperands
  <2> DEFINE i == Fetched(code)
  <2>1. /\ code \in Code
        /\ i.op \in JumpOps /\ (i.op = "RST" \/ i.t1 = "NONE") => m.taken
        /\ ~m.taken => m.pc = Wrap(pc + i.length)
        /\ m.taken /\ i.op \in {"CALL", "RST"} /\ InRam(m.sp) => Popped(m) = Wrap(pc + i.length)
    BY DefinedEffect
  <2>2. i.length = Bytes(code) \/ (i.op = "JP" /\ i.t1 = "NONE")
    <3>1. (code[1] = Prefix /\ Fit(i, TRUE)) \/ (code[1] # Prefix /\ Fit(i, FALSE))
      BY <2>1, FetchedFits DEF Defined
    <3> QED BY <3>1, BytesIs DEF Fit, Sized
  <2> HIDE DEF i
  <2>3. CASE i.length = Bytes(code)
    BY <2>1, <2>3 DEF i
  <2>4. CASE i.op = "JP" /\ i.t1 = "NONE"
    <3>1. m.taken /\ i.op \notin {"CALL", "RST"}
      BY <2>1, <2>4 DEF JumpOps
    <3> QED BY <3>1 DEF i
  <2> QED BY <2>2, <2>3, <2>4
<1> QED BY <1>1, StateAlwaysOK, PTL

(* cpu_step returns one cycle for each byte it fetches, reads or stores and  *)
(* for each internal step, jump taken or not, for every opcode and operand.  *)
THEOREM CyclesAlwaysMatchAccesses == Spec => []CyclesMatchAccesses
<1>1. StateOK => CyclesMatchAccesses
  <2> SUFFICES ASSUME StateOK, NEW code \in Defined, NEW i, i = Fetched(code), NEW m, m = Outcome(code)
               PROVE  Cycles(i, m) = Bytes(code) + Reads(i, m) + m.writes + Internal(i, m)
    BY DEF CyclesMatchAccesses
  <2>1. /\ code \in Code /\ m.taken \in BOOLEAN /\ Operable(i)
        /\ m.taken => i.op \in JumpOps
        /\ i.op \in JumpOps /\ (i.op = "RST" \/ i.t1 = "NONE") => m.taken
        /\ m.writes = Stores(i, m.taken)
    BY DefinedEffect
  <2>2. Possible(i, m.taken)
    BY <2>1 DEF Possible
  <2>3. Reads(i, m) = Fetches(i) + Returns(i, m.taken)
    <3>1. 2 * Bit(i.op = "POP" \/ (i.op \in {"RET", "RETI"} /\ m.taken)) = Returns(i, m.taken)
      BY DEF Returns, Bit
    <3> QED BY <3>1, <2>1, FetchesIs DEF Reads
  <2>4. Internal(i, m) = Idle(i, m.taken)
    BY InternalIs
  <2>5. ASSUME NEW size, Bytes(code) = size,
               (IF m.taken THEN i.taken ELSE i.not_taken)
                 = size + Fetches(i) + Returns(i, m.taken) + Stores(i, m.taken) + Idle(i, m.taken),
               size \in Int, Fetches(i) \in Int, Returns(i, m.taken) \in Int
        PROVE  Cycles(i, m) = Bytes(code) + Reads(i, m) + m.writes + Internal(i, m)
    BY <2>1, <2>3, <2>4, <2>5 DEF Cycles
  <2>6. Fetches(i) \in Int /\ Returns(i, m.taken) \in Int /\ Size(i, TRUE) \in Int /\ Size(i, FALSE) \in Int
    BY DEF Fetches, Returns, OneIf, Size, Operand
  <2>7. CASE code[1] = Prefix
    <3>1. Fit(i, TRUE) /\ Bytes(code) = Size(i, TRUE)
      BY <2>1, <2>7, FetchedFits, BytesIs
    <3> QED BY <3>1, <2>1, <2>2, <2>5, <2>6 DEF Fit, Timed
  <2>8. CASE code[1] # Prefix
    <3>1. Fit(i, FALSE) /\ Bytes(code) = Size(i, FALSE)
      BY <2>1, <2>8, FetchedFits, BytesIs DEF Defined
    <3> QED BY <3>1, <2>1, <2>2, <2>5, <2>6 DEF Fit, Timed
  <2> QED BY <2>7, <2>8
<1> QED BY <1>1, StateAlwaysOK, PTL
===============================================================================
