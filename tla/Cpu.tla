---------------------------------- MODULE Cpu ----------------------------------
(***************************************************************************)
(* cpu_step and cpu_run_interrupts of src/cpu.c on the registers and on      *)
(* memory: operand fetch, loads, the stack, jumps, the flags of Alu, cycle   *)
(* counts, and the dispatch of an interrupt.                                  *)
(*                                                                           *)
(* Code is in ROM, so that the bytes at pc are not changed by stores; any    *)
(* instruction of the program may be met at any of its addresses.  Memory    *)
(* that keeps what is stored is mem; elsewhere stores are lost and reads     *)
(* give 0 (which device or bank is behind an address is in Memory).  IF and  *)
(* IE are two of mem's bytes, so a stack may lie on them.                     *)
(***************************************************************************)
EXTENDS Alu, Decode, Sequences

CONSTANTS
  Ram,        (* addresses in mem                                            *)
  Programs    (* the ROM: the code instructions are made of, the addresses   *)
              (* they are at and those its sp takes (a run is followed no    *)
              (* further when pc or sp leave them), and the requests it meets *)

IRR_ADDR == \hFF0F
IE_ADDR  == \hFFFF

(* The three bytes at pc, pc + 1 and pc + 2.                                  *)
Code == Byte \X Byte \X Byte

ASSUME CpuAssumption ==
  /\ {IRR_ADDR, IE_ADDR} \subseteq Ram
  /\ \A addr \in Ram : addr \in Word /\ addr >= \h8000
  /\ \A p \in Programs :
       p.code \subseteq Code /\ p.at \subseteq Word /\ p.sp \subseteq Word /\ p.requests \subseteq 0 .. 4

Wrap(n) == n % 65536

Reg8 == {"A", "B", "C", "D", "E", "H", "L"}

VARIABLES
  prog,                       (* the program in ROM                          *)
  r,                          (* regs.a .. regs.l but f                      *)
  f,                          (* regs.f                                      *)
  sp, pc, ime, ime_next_cycle, halt,
  mem,
  alive,                      (* FALSE after exit(1)                         *)
  turn,                       (* what the loop calls next: "step" or "irq"   *)
  depth                       (* history: words on the stack not overwritten *)

vars == <<prog, r, f, sp, pc, ime, ime_next_cycle, halt, mem, alive, turn, depth>>

(* regs = { .af = 0x1180, .bc = 0x0000, ... } *)
Init ==
  /\ prog \in Programs
  /\ r = [A |-> \h11, B |-> 0, C |-> 0, D |-> \hFF, E |-> \h56, H |-> 0, L |-> \h0D]
  /\ f = [z |-> TRUE, n |-> FALSE, h |-> FALSE, c |-> FALSE]
  /\ sp = \hFFFE
  /\ pc = \h100
  /\ ime = FALSE /\ ime_next_cycle = FALSE /\ halt = FALSE
  /\ mem = [addr \in Ram |-> 0]
  /\ alive = TRUE
  /\ turn = "step"
  /\ depth = 0

(* The registers and memory, as one instruction passes them on; taken and    *)
(* writes are what it did so far.                                             *)
Now == [r |-> r, f |-> f, sp |-> sp, pc |-> pc, ime |-> ime, ime_next_cycle |-> ime_next_cycle,
        halt |-> halt, mem |-> mem, alive |-> alive, depth |-> depth, taken |-> FALSE, writes |-> 0]

Exit(m) == [m EXCEPT !.alive = FALSE]

------------------------------------------------------------------------------
(* Memory and operands. *)

mem_read_byte(m, addr) == IF addr \in Ram THEN m.mem[addr] ELSE 0

mem_read_short(m, addr) == mem_read_byte(m, addr) + 256 * mem_read_byte(m, Wrap(addr + 1))

(* Words of the stack above the one a store at addr falls on.                 *)
Intact(m, addr) ==
  IF Wrap(addr - m.sp) < 2 * m.depth THEN Wrap(addr - m.sp) \div 2 ELSE m.depth

mem_write_byte(m, addr, data) ==
  IF addr \in Ram
  THEN [m EXCEPT !.mem[addr] = data, !.writes = @ + 1, !.depth = Intact(m, addr)]
  ELSE [m EXCEPT !.writes = @ + 1]

mem_write_short(m, addr, data) ==
  mem_write_byte(mem_write_byte(m, addr, data % 256), Wrap(addr + 1), data \div 256)

Pair(m, t) ==
  CASE t = "BC" -> 256 * m.r.B + m.r.C
    [] t = "DE" -> 256 * m.r.D + m.r.E
    [] t = "HL" -> 256 * m.r.H + m.r.L
    [] t = "AF" -> 256 * m.r.A + 128 * Bit(m.f.z) + 64 * Bit(m.f.n) + 32 * Bit(m.f.h) + 16 * Bit(m.f.c)

SetPair(m, t, data) ==
  LET hi == data \div 256
      lo == data % 256
  IN  CASE t = "BC" -> [m EXCEPT !.r.B = hi, !.r.C = lo]
        [] t = "DE" -> [m EXCEPT !.r.D = hi, !.r.E = lo]
        [] t = "HL" -> [m EXCEPT !.r.H = hi, !.r.L = lo]
        [] t = "AF" -> [m EXCEPT !.r.A = hi,
                                 !.f = [z |-> 7 \in SetBits(lo), n |-> 6 \in SetBits(lo),
                                        h |-> 5 \in SetBits(lo), c |-> 4 \in SetBits(lo)]]

mem_read_d8(code)  == code[2]
mem_read_d16(code) == code[2] + 256 * code[3]

(* Targets that are a byte of memory, and its address.                        *)
MemoryTargets ==
  {"C_AS_ADDR", "BC_AS_ADDR", "DE_AS_ADDR", "HL_AS_ADDR", "HL_POS", "HL_NEG", "D8_AS_ADDR", "D16_AS_ADDR"}

HighPage(low) == \hFF00 + low

Address(m, t, code) ==
  CASE t = "C_AS_ADDR"   -> HighPage(m.r.C)
    [] t = "BC_AS_ADDR"  -> Pair(m, "BC")
    [] t = "DE_AS_ADDR"  -> Pair(m, "DE")
    [] t = "D8_AS_ADDR"  -> HighPage(mem_read_d8(code))
    [] t = "D16_AS_ADDR" -> mem_read_d16(code)
    [] OTHER             -> Pair(m, "HL")

Readable8  == Reg8 \cup MemoryTargets \cup {"F", "SP", "D8"}
Readable16 == {"D16", "BC", "DE", "HL", "AF", "SP", "D8"}

(* Operands of other targets are placeholders.                                *)
get_op_8(m, t, code) ==
  CASE t \in Reg8          -> m.r[t]
    [] t = "F"             -> Pair(m, "AF") % 256
    [] t \in MemoryTargets -> mem_read_byte(m, Address(m, t, code))
    [] t = "SP"            -> m.sp % 256
    [] t = "D8"            -> mem_read_d8(code)
    [] OTHER               -> \h67

get_op_16(m, t, code) ==
  CASE t = "D16" -> mem_read_d16(code)
    [] t \in {"BC", "DE", "HL", "AF"} -> Pair(m, t)
    [] t = "SP"  -> m.sp
    [] t = "D8"  -> mem_read_d8(code)
    [] OTHER     -> \h69

set_dest_8(m, t, code, data) ==
  CASE t \in Reg8          -> [m EXCEPT !.r[t] = data]
    [] t = "F"             -> SetPair(m, "AF", 256 * m.r.A + data)
    [] t \in MemoryTargets -> mem_write_byte(m, Address(m, t, code), data)
    [] OTHER               -> Exit(m)

set_dest_16(m, t, code, data) ==
  CASE t \in {"BC", "DE", "HL", "AF"} -> SetPair(m, t, data)
    [] t = "SP"          -> [m EXCEPT !.sp = data, !.depth = 0]
    [] t = "D16_AS_ADDR" -> mem_write_short(m, mem_read_d16(code), data)
    [] OTHER             -> Exit(m)

------------------------------------------------------------------------------
(* The stack and jumps. *)

(* Whether the word at addr is kept.                                          *)
InRam(addr) == {addr, Wrap(addr + 1)} \subseteq Ram

cpu_push_short(m, data) ==
  LET top == Wrap(m.sp - 2)
      n   == mem_write_short(m, top, data)
  IN  [n EXCEPT !.sp = top, !.depth = IF InRam(top) THEN @ + 1 ELSE 0]

cpu_pop_short(m) == [m EXCEPT !.sp = Wrap(@ + 2), !.depth = IF @ = 0 THEN 0 ELSE @ - 1]

Popped(m) == mem_read_short(m, m.sp)

JumpTo(m, addr) == [m EXCEPT !.pc = addr, !.taken = TRUE]

CondTargets == {"NONE", "C_NZ", "C_Z", "C_NC", "C_C"}

cpu_cond(m, t) ==
  CASE t = "NONE" -> TRUE
    [] t = "C_NZ" -> ~m.f.z
    [] t = "C_Z"  -> m.f.z
    [] t = "C_NC" -> ~m.f.c
    [] t = "C_C"  -> m.f.c
    [] OTHER      -> FALSE

(* m.pc is already the address of the following instruction; here is its own. *)
JumpOps == {"CALL", "JP", "JR", "RET", "RETI", "RST"}

Jumped(m, i, code, here) ==
  IF i.op = "RST"                THEN JumpTo(cpu_push_short(m, m.pc), Number(i.t1) * 8)
  ELSE IF i.t1 \notin CondTargets THEN Exit(m)
  ELSE IF ~cpu_cond(m, i.t1)      THEN m
  ELSE CASE i.op = "CALL" -> JumpTo(cpu_push_short(m, m.pc), get_op_16(m, i.t2, code))
         [] i.op = "JP"   -> JumpTo(m, get_op_16(m, i.t2, code))
         [] i.op = "JR"   -> JumpTo(m, Wrap(here + Signed(get_op_8(m, i.t2, code)) + 2))
         [] i.op = "RET"  -> JumpTo(cpu_pop_short(m), Popped(m))
         [] i.op = "RETI" -> [JumpTo(cpu_pop_short(m), Popped(m)) EXCEPT !.ime = TRUE]

------------------------------------------------------------------------------
(* The other instructions, by what they read and where the result goes. *)

TwoOperandOps == {"ADD", "ADC", "SUB", "SBC", "AND", "XOR", "OR", "CP"}

(* The result goes to A (CP's is A itself), whatever the target.              *)
TwoOperand(op, x, y, flags) ==
  CASE op = "ADD" -> cpu_add(x, y, flags)
    [] op = "ADC" -> cpu_adc(x, y, flags)
    [] op = "SUB" -> cpu_sub(x, y, flags)
    [] op = "SBC" -> cpu_sbc(x, y, flags)
    [] op = "AND" -> cpu_and(x, y, flags)
    [] op = "XOR" -> cpu_xor(x, y, flags)
    [] op = "OR"  -> cpu_or(x, y, flags)
    [] op = "CP"  -> cpu_cp(x, y, flags)

(* The result goes back to the operand, except BIT's, which has none.         *)
OneOperandOps ==
  {"INC", "DEC", "RLC", "RRC", "RL", "RR", "RLCA", "RRCA", "RLA", "RRA", "SLA", "SRA", "SRL", "SWAP",
   "RES", "SET"}

OneOperand(op, x, t2, flags) ==
  CASE op = "INC"  -> cpu_inc(x, flags)
    [] op = "DEC"  -> cpu_dec(x, flags)
    [] op = "RLC"  -> cpu_rlc(x, flags)
    [] op = "RRC"  -> cpu_rrc(x, flags)
    [] op = "RL"   -> cpu_rl(x, flags)
    [] op = "RR"   -> cpu_rr(x, flags)
    [] op = "RLCA" -> ZeroCleared(cpu_rlc(x, flags))
    [] op = "RRCA" -> ZeroCleared(cpu_rrc(x, flags))
    [] op = "RLA"  -> ZeroCleared(cpu_rl(x, flags))
    [] op = "RRA"  -> ZeroCleared(cpu_rr(x, flags))
    [] op = "SLA"  -> cpu_sla(x, flags)
    [] op = "SRA"  -> cpu_sra(x, flags)
    [] op = "SRL"  -> cpu_srl(x, flags)
    [] op = "SWAP" -> cpu_swap(x, flags)
    [] op = "RES"  -> cpu_res(Number(t2), x, flags)
    [] op = "SET"  -> cpu_set(Number(t2), x, flags)

AccumulatorOps == {"DAA", "CPL", "SCF", "CCF"}

OnAccumulator(op, x, flags) ==
  CASE op = "DAA" -> cpu_daa(x, flags)
    [] op = "CPL" -> cpu_cpl(x, flags)
    [] op = "SCF" -> cpu_scf(x, flags)
    [] op = "CCF" -> cpu_ccf(x, flags)

(* A and the flags after an instruction of Alu.                               *)
SetA(m, out)  == [m EXCEPT !.r.A = out.r, !.f = out.f]

WordOps == {"ADD16", "ADD_SPD8", "INC16", "DEC16", "LD16"}

Words(op, x, y, flags) ==
  CASE op = "ADD16"    -> cpu_add16(x, y, flags)
    [] op = "ADD_SPD8" -> cpu_add_spd8(x, y)
    [] op = "INC16"    -> [r |-> Wrap(x + 1), f |-> flags]
    [] op = "DEC16"    -> [r |-> Wrap(x - 1), f |-> flags]
    [] op = "LD16"     -> [r |-> y, f |-> flags]

Executed(m, i, code, here) ==
  LET x8  == get_op_8(m, i.t1, code)
      y8  == get_op_8(m, i.t2, code)
      x16 == get_op_16(m, i.t1, code)
      y16 == get_op_16(m, i.t2, code)
      Set8(out)  == set_dest_8([m EXCEPT !.f = out.f], i.t1, code, out.r)
      Set16(out) == set_dest_16([m EXCEPT !.f = out.f], i.t1, code, out.r)
  IN  CASE i.op \in TwoOperandOps  -> SetA(m, TwoOperand(i.op, x8, y8, m.f))
        [] i.op \in OneOperandOps  -> Set8(OneOperand(i.op, x8, i.t2, m.f))
        [] i.op = "BIT"            -> [m EXCEPT !.f = cpu_bit(Number(i.t2), x8, m.f).f]
        [] i.op \in AccumulatorOps -> SetA(m, OnAccumulator(i.op, m.r.A, m.f))
        [] i.op = "LD"             -> set_dest_8(m, i.t1, code, y8)
        [] i.op \in WordOps        -> Set16(Words(i.op, x16, y16, m.f))
        [] i.op = "LD_SP_PLUS_D8"  -> LET out == cpu_ld_sp_plus_d8(x16, y8)
                                      IN  SetPair([m EXCEPT !.f = out.f], "HL", out.r)
        [] i.op = "PUSH"           -> cpu_push_short(m, x16)
        [] i.op = "POP"            -> set_dest_16(cpu_pop_short(m), i.t1, code, Popped(m))
        [] i.op \in JumpOps        -> Jumped(m, i, code, here)
        [] i.op = "DI"             -> [m EXCEPT !.ime = FALSE]
        [] i.op = "EI"             -> [m EXCEPT !.ime_next_cycle = TRUE]
        [] i.op = "HALT"           -> [m EXCEPT !.halt = TRUE]
        [] i.op \in {"NOP", "STOP"} -> m
        [] OTHER                   -> Exit(m)

(* HL_POS and HL_NEG move HL once the operands are done with.                 *)
MoveHL(m, i) ==
  CASE "HL_NEG" \in {i.t1, i.t2} -> SetPair(m, "HL", Wrap(Pair(m, "HL") - 1))
    [] "HL_POS" \in {i.t1, i.t2} -> SetPair(m, "HL", Wrap(Pair(m, "HL") + 1))
    [] OTHER                     -> m

Prefix == \hCB

Fetched(code) == instruction_get(IF code[1] = Prefix THEN 256 + code[2] ELSE code[1])

(* One cpu_step on the bytes at pc, an EI executed before it included.        *)
Outcome(code) ==
  LET i == Fetched(code)
      m == [Now EXCEPT !.ime = @ \/ ime_next_cycle, !.ime_next_cycle = FALSE,
                       !.pc = Wrap(@ + i.length)]
  IN  MoveHL(Executed(m, i, code, pc), i)

(* "cycles", what cpu_step returns.                                           *)
Cycles(i, m) == IF m.taken THEN i.taken ELSE i.not_taken

------------------------------------------------------------------------------
(* The calls of the loop. *)

Becomes(m) ==
  /\ r' = m.r /\ f' = m.f /\ sp' = m.sp /\ pc' = m.pc /\ mem' = m.mem /\ depth' = m.depth
  /\ ime' = m.ime /\ ime_next_cycle' = m.ime_next_cycle /\ halt' = m.halt /\ alive' = m.alive

Followed == pc \in prog.at /\ sp \in prog.sp

cpu_step ==
  /\ turn = "step" /\ alive /\ ~halt /\ Followed
  /\ \E code \in prog.code : Becomes(Outcome(code))
  /\ turn' = "irq"
  /\ UNCHANGED prog

cpu_step_halted ==
  /\ turn = "step" /\ alive /\ halt
  /\ turn' = "irq"
  /\ UNCHANGED <<prog, r, f, sp, pc, ime, ime_next_cycle, halt, mem, alive, depth>>

(* cpu_req_interrupt of timer_step and ppu_step, in between.                  *)
cpu_req_interrupt(bit) ==
  /\ turn = "irq" /\ alive
  /\ Becomes(mem_write_byte(Now, IRR_ADDR, Value(SetBits(mem[IRR_ADDR]) \cup {bit})))
  /\ UNCHANGED <<prog, turn>>

Pending == SetBits(mem[IRR_ADDR]) \cap SetBits(mem[IE_ADDR])

(* The bits cpu_run_interrupts can dispatch; VBLANK is bit 0.                  *)
InterruptBits == 0 .. 4

Vector(bit) == \h40 + 8 * bit

NoInterrupt ==
  /\ Pending = {} \/ ~ime \/ Pending \cap InterruptBits = {}
  /\ halt' = (halt /\ Pending = {})
  /\ UNCHANGED <<r, f, sp, pc, ime, ime_next_cycle, mem, alive, depth>>

(* Mutant: IF is written back when everything else is done.                   *)
Dispatched_write_back_last(bit) ==
  [mem_write_byte(cpu_push_short(Now, pc), IRR_ADDR, Value(SetBits(mem[IRR_ADDR]) \ {bit}))
     EXCEPT !.ime = FALSE, !.halt = FALSE, !.pc = Vector(bit)]

(* reqs is what IF was when cpu_run_interrupts began.                         *)
Dispatched(bit) ==
  [cpu_push_short(mem_write_byte(Now, IRR_ADDR, Value(SetBits(mem[IRR_ADDR]) \ {bit})), pc)
     EXCEPT !.ime = FALSE, !.halt = FALSE, !.pc = Vector(bit)]

(* What the handler relies on: the address it returns to is on the stack,    *)
(* above the words the store to IF did not reach.                             *)
Interrupted(m) == [m EXCEPT !.depth = IF InRam(m.sp) THEN Intact(Now, IRR_ADDR) + 1 ELSE 0]

Dispatch ==
  /\ ime
  /\ \E bit \in Pending \cap InterruptBits :
       /\ \A other \in Pending \cap InterruptBits : bit <= other
       /\ Becomes(Interrupted(Dispatched(bit)))

cpu_run_interrupts ==
  /\ turn = "irq" /\ alive
  /\ NoInterrupt \/ Dispatch
  /\ turn' = "step"
  /\ UNCHANGED prog

Next ==
  \/ cpu_step
  \/ cpu_step_halted
  \/ \E bit \in prog.requests : cpu_req_interrupt(bit)
  \/ cpu_run_interrupts

Spec == Init /\ [][Next]_vars

------------------------------------------------------------------------------
(* The operands an instruction uses, among the four cpu_step reads.          *)

Used8(i) ==
  CASE i.op \in TwoOperandOps                    -> {i.t1, i.t2}
    [] i.op \in OneOperandOps \cup {"BIT"}       -> {i.t1}
    [] i.op \in {"LD", "JR", "LD_SP_PLUS_D8"}    -> {i.t2}
    [] OTHER                                     -> {}

Used16(i) ==
  CASE i.op \in {"ADD16", "ADD_SPD8"}                        -> {i.t1, i.t2}
    [] i.op \in {"INC16", "DEC16", "PUSH", "LD_SP_PLUS_D8"}  -> {i.t1}
    [] i.op \in {"LD16", "CALL", "JP"}                       -> {i.t2}
    [] OTHER                                                 -> {}

(* Bytes of code an instruction is made of: opcode, prefix and operands.     *)
Immediates(t) ==
  CASE t \in {"D8", "D8_AS_ADDR"}   -> 1
    [] t \in {"D16", "D16_AS_ADDR"} -> 2
    [] OTHER                        -> 0

Bytes(code) ==
  LET i == Fetched(code)
  IN  IF code[1] = Prefix THEN 2
      ELSE 1 + Immediates(i.t1) + Immediates(i.t2) + Bit(i.op = "STOP")

(* The instruction at pc, whichever of the program's it is.                  *)
AtPc == IF turn = "step" /\ alive /\ ~halt /\ Followed THEN prog.code ELSE {}

Defined == {code \in AtPc : code[1] \notin Undefined \/ code[1] = Prefix}

(* Every defined opcode stands for one instruction, is executed by a case of *)
(* the switch that has all its operands, and does not end the program: the   *)
(* loops that fill the table give no index two different instructions, and no *)
(* operand the result depends on is one of the placeholders 0x67 and 0x69 of  *)
(* get_op_8 and get_op_16.                                                    *)
EveryOpcodeExecutes ==
  \A code \in Defined :
    LET index == IF code[1] = Prefix THEN 256 + code[2] ELSE code[1]
        i     == Fetched(code)
    IN  /\ Cardinality(Meanings[index]) = 1
        /\ Used8(i) \subseteq Readable8
        /\ Used16(i) \subseteq Readable16
        /\ Outcome(code).alive

(* Execution goes on behind the operands the instruction read, at once or at *)
(* the return from the call it makes: the lengths of the table fit the       *)
(* operands get_op_8 and get_op_16 fetch.                                     *)
GoesOnBehindOperands ==
  \A code \in Defined :
    LET m    == Outcome(code)
        next == Wrap(pc + Bytes(code))
    IN  IF m.taken THEN Fetched(code).op \in {"CALL", "RST"} /\ InRam(m.sp) => Popped(m) = next
        ELSE m.pc = next

(* Machine cycles in which the processor does neither fetch nor access data. *)
Internal(i, m) ==
  CASE i.op = "STOP"                                  -> -1
    [] i.op = "JP" /\ i.t2 = "HL"                     -> 0
    [] i.op \in {"PUSH", "ADD16", "INC16", "DEC16", "LD_SP_PLUS_D8"} -> 1
    [] i.op = "LD16" /\ i.t2 = "HL"                   -> 1
    [] i.op = "ADD_SPD8"                              -> 2
    [] i.op = "RET" /\ i.t1 # "NONE"                  -> 1 + Bit(m.taken)
    [] OTHER                                          -> Bit(m.taken)

Reads(i, m) ==
  Cardinality(Used8(i) \cap MemoryTargets)
  + 2 * Bit(i.op = "POP" \/ (i.op \in {"RET", "RETI"} /\ m.taken))

(* The cycles cpu_step returns, which the timer and the LCD advance by, are  *)
(* one for each byte fetched, read and written and one for each internal     *)
(* step, jump taken or not: the counts of the table fit what the switch does *)
(* with the operands.  (The second byte of STOP is skipped, not fetched.)    *)
CyclesMatchAccesses ==
  \A code \in Defined :
    LET i == Fetched(code)
        m == Outcome(code)
    IN  Cycles(i, m) = Bytes(code) + Reads(i, m) + m.writes + Internal(i, m)

(* What is on the stack: words that were pushed and that nothing overwrote.  *)
Stack ==
  INSTANCE CallStack WITH
    stack       <- [k \in 1 .. depth |-> mem_read_short(Now, Wrap(sp + 2 * (k - 1)))],
    CallLengths <- {1, 3},
    Vectors     <- {Vector(bit) : bit \in InterruptBits}

(* Calls, pushes and interrupts nest: whatever order they come in, and       *)
(* wherever the stack is, IF and IE included, a return goes to the address   *)
(* behind its call, or to the instruction the handler interrupted, unless    *)
(* the program has stored over that word or moved the stack pointer.         *)
ImplementsCallStack == Stack!Spec
===============================================================================
