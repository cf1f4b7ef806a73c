-------------------------------- MODULE Decode --------------------------------
(***************************************************************************)
(* The instruction table of src/instructions.c: what instruction_init puts  *)
(* at each of the 512 indices cpu_step can look up, the second 256 being    *)
(* the opcodes after the prefix 0xCB.  The table is a set of entries        *)
(* <<index, instruction>>, one per assignment of the code, so that two      *)
(* assignments of one index stay visible.                                    *)
(***************************************************************************)
EXTENDS Integers, FiniteSets

(* The enum Target, in its order: bit numbers and RST vectors are stored in  *)
(* the same field.                                                            *)
TargetNames ==
  <<"NONE", "A", "B", "C", "D", "E", "F", "H", "L", "AF", "BC", "DE", "HL", "HL_POS", "HL_NEG",
    "C_AS_ADDR", "BC_AS_ADDR", "DE_AS_ADDR", "HL_AS_ADDR", "SP", "D8", "D8_AS_ADDR", "D16",
    "D16_AS_ADDR", "C_Z", "C_C", "C_NZ", "C_NC">>

Target    == {TargetNames[n] : n \in DOMAIN TargetNames}
Number(t) == (CHOOSE n \in DOMAIN TargetNames : TargetNames[n] = t) - 1
Nth(n)    == TargetNames[n + 1]

(* The macros sij and si: with si the cycles do not depend on a condition.   *)
sij(op, length, taken, not_taken, t1, t2) ==
  [op |-> op, length |-> length, taken |-> taken, not_taken |-> not_taken, t1 |-> t1, t2 |-> t2]

si(op, length, cycles, t1, t2) == sij(op, length, cycles, cycles, t1, t2)

consec_targets == <<"B", "C", "D", "E", "H", "L", "HL_AS_ADDR", "A">>

(* Instructions on each of consec_targets take longer with one of them.      *)
Costs(t, plain, memory) == IF t = "HL_AS_ADDR" THEN memory ELSE plain

def_consec_ops(base, op) ==
  {<<base + i, si(op, 1, Costs(consec_targets[i + 1], 1, 2), "A", consec_targets[i + 1])>> :
     i \in 0 .. 7}

(* Mutant: the prefix is not counted.                                        *)
def_consec_ops_16_one_byte(base, op, memory, t2) ==
  {<<base + 256 + i, si(op, 1, Costs(consec_targets[i + 1], 2, memory), consec_targets[i + 1], t2)>> :
     i \in 0 .. 7}

(* def_consec_ops_16_none, _n and _bit: memory is 4, 4 and 3.                *)
def_consec_ops_16(base, op, memory, t2) ==
  {<<base + 256 + i, si(op, 2, Costs(consec_targets[i + 1], 2, memory), consec_targets[i + 1], t2)>> :
     i \in 0 .. 7}

(* Four instructions in a column, one for each of four targets.              *)
Column(base, Entry(_), targets) == {<<base + 16 * i, Entry(targets[i + 1])>> : i \in 0 .. 3}

Pairs      == <<"BC", "DE", "HL", "SP">>
StackPairs == <<"BC", "DE", "HL", "AF">>
Pointers   == <<"BC_AS_ADDR", "DE_AS_ADDR", "HL_POS", "HL_NEG">>

(* The order of the conditions in opcodes 0x20, 0xC0 and so on.              *)
Conditions == <<"C_NZ", "C_Z", "C_NC", "C_C">>

OnCondition(base, Entry(_)) == {<<base + 8 * i, Entry(Conditions[i + 1])>> : i \in 0 .. 3}

------------------------------------------------------------------------------
(* instruction_init, by kind of instruction. *)

Undefined ==
  {\hCB, \hD3, \hDB, \hDD, \hE3, \hE4, \hEB, \hEC, \hED, \hF4, \hFC, \hFD}

ArithmeticEntries ==
  (UNION {def_consec_ops(\h80, "ADD"), def_consec_ops(\h88, "ADC"),
          def_consec_ops(\h90, "SUB"), def_consec_ops(\h98, "SBC"),
          def_consec_ops(\hA0, "AND"), def_consec_ops(\hA8, "XOR"),
          def_consec_ops(\hB0, "OR"),  def_consec_ops(\hB8, "CP")})
  \cup {<<\hC6 + 8 * i, si(<<"ADD", "ADC", "SUB", "SBC", "AND", "XOR", "OR", "CP">>[i + 1],
                           2, 2, "A", "D8")>> : i \in 0 .. 7}

CountEntries ==
  {<<\h04 + 8 * i, si("INC", 1, Costs(consec_targets[i + 1], 1, 3), consec_targets[i + 1], "NONE")>> :
     i \in 0 .. 7}
  \cup {<<\h05 + 8 * i, si("DEC", 1, Costs(consec_targets[i + 1], 1, 3), consec_targets[i + 1], "NONE")>> :
     i \in 0 .. 7}
  \cup Column(\h03, LAMBDA t : si("INC16", 1, 2, t, "NONE"), Pairs)
  \cup Column(\h0B, LAMBDA t : si("DEC16", 1, 2, t, "NONE"), Pairs)
  \cup Column(\h09, LAMBDA t : si("ADD16", 1, 2, "HL", t), Pairs)
  \cup {<<\hE8, si("ADD_SPD8", 2, 4, "SP", "D8")>>}

AccumulatorEntries ==
  {<<\h07, si("RLCA", 1, 1, "A", "NONE")>>, <<\h0F, si("RRCA", 1, 1, "A", "NONE")>>,
   <<\h17, si("RLA", 1, 1, "A", "NONE")>>,  <<\h1F, si("RRA", 1, 1, "A", "NONE")>>}
  \cup {<<\h27 + 8 * i, si(<<"DAA", "CPL", "SCF", "CCF">>[i + 1], 1, 1, "NONE", "NONE")>> : i \in 0 .. 3}

ControlEntries ==
  {<<\h00, si("NOP", 1, 1, "NONE", "NONE")>>, <<\h10, si("STOP", 2, 1, "NONE", "NONE")>>,
   <<\h76, si("HALT", 1, 1, "NONE", "NONE")>>, <<\hF3, si("DI", 1, 1, "NONE", "NONE")>>,
   <<\hFB, si("EI", 1, 1, "NONE", "NONE")>>}

JumpEntries ==
  {<<\hC3, si("JP", 3, 4, "NONE", "D16")>>, <<\hE9, si("JP", 3, 1, "NONE", "HL")>>,
   <<\h18, si("JR", 2, 3, "NONE", "D8")>>, <<\hCD, si("CALL", 3, 6, "NONE", "D16")>>,
   <<\hC9, si("RET", 1, 4, "NONE", "NONE")>>, <<\hD9, si("RETI", 1, 4, "NONE", "NONE")>>}
  \cup OnCondition(\hC2, LAMBDA t : sij("JP", 3, 4, 3, t, "D16"))
  \cup OnCondition(\h20, LAMBDA t : sij("JR", 2, 3, 2, t, "D8"))
  \cup OnCondition(\hC4, LAMBDA t : sij("CALL", 3, 6, 3, t, "D16"))
  \cup OnCondition(\hC0, LAMBDA t : sij("RET", 1, 5, 2, t, "NONE"))
  \cup {<<\hC7 + 8 * i, si("RST", 1, 4, Nth(i), "NONE")>> : i \in 0 .. 7}

StackEntries ==
  Column(\hC1, LAMBDA t : si("POP", 1, 3, t, "NONE"), StackPairs)
  \cup Column(\hC5, LAMBDA t : si("PUSH", 1, 4, t, "NONE"), StackPairs)
  \cup {<<\h08, si("LD16", 3, 5, "D16_AS_ADDR", "SP")>>, <<\hF9, si("LD16", 1, 2, "SP", "HL")>>,
        <<\hF8, si("LD_SP_PLUS_D8", 2, 3, "SP", "D8")>>}
  \cup Column(\h01, LAMBDA t : si("LD16", 3, 3, t, "D16"), Pairs)

(* Mutant: the block of register loads is filled without a gap.              *)
LoadPositions_no_gap == (0 .. 7) \X (0 .. 7)

(* "continue" leaves out the load from (HL) to (HL), whose place HALT has.   *)
LoadPositions == ((0 .. 7) \X (0 .. 7)) \ {<<6, 6>>}

RegisterLoads ==
  {<<\h40 + 8 * ij[1] + ij[2],
     si("LD", 1, IF 6 \in {ij[1], ij[2]} THEN 2 ELSE 1,
        consec_targets[ij[1] + 1], consec_targets[ij[2] + 1])>> : ij \in LoadPositions}

LoadEntries ==
  RegisterLoads
  \cup {<<\h06 + 8 * i, si("LD", 2, Costs(consec_targets[i + 1], 2, 3), consec_targets[i + 1], "D8")>> :
          i \in 0 .. 7}
  \cup Column(\h02, LAMBDA t : si("LD", 1, 2, t, "A"), Pointers)
  \cup Column(\h0A, LAMBDA t : si("LD", 1, 2, "A", t), Pointers)
  \cup {<<\hE0, si("LD", 2, 3, "D8_AS_ADDR", "A")>>,  <<\hF0, si("LD", 2, 3, "A", "D8_AS_ADDR")>>,
        <<\hE2, si("LD", 1, 2, "C_AS_ADDR", "A")>>,   <<\hF2, si("LD", 1, 2, "A", "C_AS_ADDR")>>,
        <<\hEA, si("LD", 3, 4, "D16_AS_ADDR", "A")>>, <<\hFA, si("LD", 3, 4, "A", "D16_AS_ADDR")>>}

(* Mutant: BIT is taken to write memory back, as RES and SET do.             *)
BitTests_written_back == UNION {def_consec_ops_16(\h40 + 8 * j, "BIT", 4, Nth(j)) : j \in 0 .. 7}

BitTests == UNION {def_consec_ops_16(\h40 + 8 * j, "BIT", 3, Nth(j)) : j \in 0 .. 7}

(* The block of RR is assigned a second time, with the same value.           *)
PrefixedEntries ==
  (UNION {def_consec_ops_16(8 * i,
            <<"RLC", "RRC", "RL", "RR", "SLA", "SRA", "SWAP", "SRL">>[i + 1], 4, "NONE") : i \in 0 .. 7})
  \cup BitTests
  \cup (UNION {def_consec_ops_16(\h80 + 8 * j, "RES", 4, Nth(j)) : j \in 0 .. 7})
  \cup (UNION {def_consec_ops_16(\hC0 + 8 * j, "SET", 4, Nth(j)) : j \in 0 .. 7})

Entries ==
  (UNION {ArithmeticEntries, CountEntries, AccumulatorEntries, ControlEntries, JumpEntries,
          StackEntries, LoadEntries, PrefixedEntries})
  \cup {<<byte, si("UNDEFINED", 0, 0, "NONE", "NONE")>> : byte \in Undefined}

(* What the table holds at an index; instruction_get returns the last one    *)
(* assigned, and an entry of zeros when there is none.                        *)
Meanings == [index \in 0 .. 511 |-> {entry[2] : entry \in {e \in Entries : e[1] = index}}]

Instructions ==
  [index \in 0 .. 511 |->
     IF Meanings[index] = {} THEN si("UNINIT", 0, 0, "NONE", "NONE")
     ELSE CHOOSE instr \in Meanings[index] : TRUE]

instruction_get(instr_byte) == Instructions[instr_byte]
===============================================================================
