----------------------------- MODULE Interrupts -----------------------------
(***************************************************************************)
(* Interrupt control of src/cpu.c: the master enable regs.ime and its       *)
(* one-instruction delay regs.ime_next_cycle, HALT, the request register    *)
(* IF (irr) and the enable register IE (ie), as cpu_step, cpu_req_interrupt *)
(* and cpu_run_interrupts use them, called in turn by the loop of           *)
(* src/main.c.                                                              *)
(*                                                                          *)
(* Instructions that touch none of this are one operation, "OTHER".  The    *)
(* return addresses cpu_push_short stores are a stack of program points:    *)
(* "program" for the interrupted main program, or the handler that was      *)
(* itself interrupted.  The stack is assumed to lie in RAM.                 *)
(***************************************************************************)
EXTENDS Integers, Sequences

CONSTANTS
  IeWrites,     (* values the program stores in IE                         *)
  IrrWrites,    (* values the program stores in IF                         *)
  RedundantEI,  (* the program may execute EI with interrupts already on   *)
  MaxNesting    (* the program executes no EI at this depth of handlers    *)

(* Mutant: vblank is looked at last. *)
Priority_vblank_last == <<"STAT", "TIMER", "SERIAL", "JOYPAD", "VBLANK">>

(* The order of cpu_run_interrupts' loop, and the vectors' names. *)
Priority   == <<"VBLANK", "STAT", "TIMER", "SERIAL", "JOYPAD">>
Interrupt  == {"VBLANK", "STAT", "TIMER", "SERIAL", "JOYPAD"}
Peripheral == {"VBLANK", "STAT", "TIMER"}

(* "UNUSED" stands for bits 5-7, which IE and IF keep as stored. *)
RegisterBits == Interrupt \cup {"UNUSED"}

ASSUME InterruptsAssumption ==
  /\ IeWrites \subseteq SUBSET RegisterBits
  /\ IrrWrites \subseteq SUBSET RegisterBits
  /\ RedundantEI \in BOOLEAN
  /\ MaxNesting \in Nat

VARIABLES
  ime, ime_next_cycle, halt,
  ie, irr,
  pc,          (* "program" or the interrupt whose handler runs            *)
  stack,       (* return addresses of the interrupted                      *)
  at,          (* where the main loop is                                   *)
  after_ei,    (* history: the last operation was EI, executed with        *)
               (* interrupts "off" or "on", or another one: "no"           *)
  after_di     (* history: DI, or power-on, is later than any EI or RETI   *)

cpuVars == <<ime, ime_next_cycle, halt, pc, stack, after_ei, after_di>>
vars    == <<cpuVars, ie, irr, at>>

Ops == {"OTHER", "EI", "DI", "HALT", "RET", "RETI"}

(* Loop of main: cpu_step, the devices, cpu_run_interrupts and, after a     *)
(* dispatch, the devices again; or cpu_step has ended the process.          *)
Phases == {"cpu", "devices", "irq", "irq_devices", "exited"}

Init ==
  /\ ime = FALSE
  /\ ime_next_cycle = FALSE
  /\ halt = FALSE
  /\ ie = {}
  /\ irr = {}
  /\ pc = "program"
  /\ stack = <<>>
  /\ at = "cpu"
  /\ after_ei = "no"
  /\ after_di = TRUE

------------------------------------------------------------------------------
(* cpu_step *)

InHandler == pc # "program"

(* What the ROM does (not part of src/): a handler ends with RETI, RET or   *)
(* EI; RET and only handlers return; elsewhere EI is unrestricted, except   *)
(* for RedundantEI and the bound MaxNesting.                                 *)
ProgramMay(op) ==
  /\ op \in {"RET", "RETI"} => InHandler
  /\ InHandler /\ after_ei # "no" => op = "RET"
  /\ op = "EI" => /\ RedundantEI \/ (~ime /\ ~ime_next_cycle)
                  /\ Len(stack) < MaxNesting

(* ime as the fetched instruction finds it. *)
ime_now == ime \/ ime_next_cycle

(* Mutants: EI acts at once, DI leaves an earlier EI pending, a pending EI  *)
(* is applied but stays pending.                                             *)
exec_ei_immediate  == ime_next_cycle' = FALSE /\ ime' = TRUE
exec_di_pending    == UNCHANGED ime_next_cycle /\ ime' = FALSE
exec_other_pending == UNCHANGED ime_next_cycle /\ ime' = ime_now

exec_ei    == ime_next_cycle' = TRUE  /\ ime' = ime_now
exec_di    == ime_next_cycle' = FALSE /\ ime' = FALSE
exec_reti  == ime_next_cycle' = FALSE /\ ime' = TRUE
exec_other == ime_next_cycle' = FALSE /\ ime' = ime_now

cpu_pop_short == pc' = Head(stack) /\ stack' = Tail(stack)

exec(op) ==
  /\ CASE op = "EI"   -> exec_ei    /\ after_di' = FALSE
       [] op = "DI"   -> exec_di    /\ after_di' = TRUE
       [] op = "RETI" -> exec_reti  /\ after_di' = FALSE
       [] OTHER       -> exec_other /\ UNCHANGED after_di
  /\ IF op \in {"RET", "RETI"} THEN cpu_pop_short ELSE UNCHANGED <<pc, stack>>
  /\ halt' = (op = "HALT")
  /\ after_ei' = IF op # "EI" THEN "no" ELSE IF ime_now THEN "on" ELSE "off"

cpu_step_halted == halt /\ UNCHANGED <<cpuVars, ie, irr>>

cpu_step(op) ==
  /\ ~halt
  /\ ProgramMay(op)
  /\ exec(op)
  /\ UNCHANGED <<ie, irr>>

(* A store to IE or IF; the store itself is an ordinary instruction. *)
cpu_step_write_ie(v) ==
  /\ ~halt
  /\ ProgramMay("OTHER")
  /\ exec("OTHER")
  /\ ie' = v
  /\ UNCHANGED irr

cpu_step_write_irr(v) ==
  /\ ~halt
  /\ ProgramMay("OTHER")
  /\ exec("OTHER")
  /\ irr' = v
  /\ UNCHANGED ie

(* An undefined opcode: the switch has no case for it and ends the process   *)
(* with exit(1), as the test for an index without an entry would.  An access *)
(* to cartridge RAM that is not there (Memory) ends it in the same place.     *)
cpu_step_exit == ~halt /\ UNCHANGED <<cpuVars, ie, irr>>

------------------------------------------------------------------------------
(* cpu_req_interrupt and cpu_run_interrupts *)

cpu_req_interrupt(requests) == irr' = irr \cup requests

pending == ie \cap irr

(* The first set bit the loop of cpu_run_interrupts meets. *)
Serviced(i) ==
  \E n \in DOMAIN Priority :
    /\ Priority[n] = i
    /\ i \in pending
    /\ \A m \in 1 .. n - 1 : Priority[m] \notin pending

NothingPending == pending = {} /\ UNCHANGED <<cpuVars, ie, irr>>

(* Mutant: halt is only left when interrupts are on. *)
WakeOnly_needs_ime ==
  /\ pending # {}
  /\ ~ime \/ pending \cap Interrupt = {}
  /\ halt' = (halt /\ ~ime)
  /\ UNCHANGED <<ime, ime_next_cycle, pc, stack, after_ei, after_di, ie, irr>>

(* HALT ends on any common bit, the unused ones included, ime or not. *)
WakeOnly ==
  /\ pending # {}
  /\ ~ime \/ pending \cap Interrupt = {}
  /\ halt' = FALSE
  /\ UNCHANGED <<ime, ime_next_cycle, pc, stack, after_ei, after_di, ie, irr>>

(* Mutant: dispatch clears every request. *)
Dispatch_clears_all(i) ==
  /\ ime
  /\ Serviced(i)
  /\ halt' = FALSE
  /\ ime' = FALSE
  /\ irr' = {}
  /\ stack' = <<pc>> \o stack
  /\ pc' = i
  /\ after_ei' = "no"
  /\ UNCHANGED <<ime_next_cycle, ie, after_di>>

(* ime_next_cycle is left as it is. *)
Dispatch(i) ==
  /\ ime
  /\ Serviced(i)
  /\ halt' = FALSE
  /\ ime' = FALSE
  /\ irr' = irr \ {i}
  /\ stack' = <<pc>> \o stack
  /\ pc' = i
  /\ after_ei' = "no"
  /\ UNCHANGED <<ime_next_cycle, ie, after_di>>

------------------------------------------------------------------------------
(* The main loop, with the devices and the keyboard requesting anything. *)

Goto(from, to) == at = from /\ at' = to

CpuStep ==
  /\ Goto("cpu", "devices")
  /\ \/ cpu_step_halted
     \/ \E op \in Ops : cpu_step(op)
     \/ \E v \in IeWrites : cpu_step_write_ie(v)
     \/ \E v \in IrrWrites : cpu_step_write_irr(v)

Exit == Goto("cpu", "exited") /\ cpu_step_exit

DeviceRequests == \E r \in SUBSET Peripheral : cpu_req_interrupt(r)

(* timer_step and ppu_step: requests may come in several steps. *)
DeviceStep ==
  /\ at \in {"devices", "irq_devices"}
  /\ DeviceRequests
  /\ UNCHANGED <<cpuVars, ie, at>>

DevicesDone ==
  /\ Goto("devices", "irq") \/ Goto("irq_devices", "cpu")
  /\ DeviceRequests
  /\ UNCHANGED <<cpuVars, ie>>

RunInterrupts ==
  \/ Goto("irq", "cpu") /\ (NothingPending \/ WakeOnly)
  \/ Goto("irq", "irq_devices") /\ \E i \in RegisterBits : Dispatch(i)

(* key_callback, run by input_poll between two frames. *)
KeyCallback ==
  /\ at = "cpu"
  /\ cpu_req_interrupt({"JOYPAD"})
  /\ UNCHANGED <<cpuVars, ie, at>>

Loop == CpuStep \/ Exit \/ DevicesDone \/ RunInterrupts

Next == Loop \/ DeviceStep \/ KeyCallback

Spec == Init /\ [][Next]_vars /\ WF_vars(Loop)

------------------------------------------------------------------------------
(* Properties. *)

TypeOK ==
  /\ ime \in BOOLEAN
  /\ ime_next_cycle \in BOOLEAN
  /\ halt \in BOOLEAN
  /\ ie \in SUBSET RegisterBits
  /\ irr \in SUBSET RegisterBits
  /\ pc \in Interrupt \cup {"program"}
  /\ stack \in Seq(Interrupt \cup {"program"})
  /\ at \in Phases
  /\ after_ei \in {"no", "off", "on"}
  /\ after_di \in BOOLEAN

(* DI is final: whatever EI came before it, pending or in effect, no        *)
(* interrupt is taken until the program executes EI or RETI again.          *)
DIHolds == after_di => ~ime /\ ~ime_next_cycle

(* EI takes effect one instruction late: if interrupts were off, nothing is *)
(* dispatched between EI and the instruction after it.                      *)
EIDelayed ==
  at \in {"devices", "irq"} /\ after_ei = "off" => ~ime

(* A program that executes EI only with interrupts off, and whose handlers  *)
(* end with RETI, RET or EI; RET, never has a handler interrupted.  It needs *)
(* ime cleared by dispatch, EI delayed past RET and no enable left pending   *)
(* at dispatch.                                                              *)
HandlersNotNested == ~RedundantEI => Len(stack) <= 1

(* At the head of the loop a halted CPU has nothing to wake up for, except   *)
(* a key pressed since cpu_run_interrupts last looked.                       *)
HaltMeansNothingPending == at = "cpu" /\ halt => pending \subseteq {"JOYPAD"}

(* No request is lost: a bit of IF goes away only because the program       *)
(* stores to IF or because that very interrupt is dispatched, and then no   *)
(* enabled request of higher priority was waiting.                          *)
NoRequestLost ==
  [][\A i \in irr \ irr' :
       \/ at = "cpu"
       \/ /\ pc' = i
          /\ ime /\ i \in ie
          /\ \A n \in DOMAIN Priority :
               Priority[n] = i =>
                 \A m \in 1 .. n - 1 : Priority[m] \notin pending]_vars

(* The vblank interrupt is never starved by the others: if the program      *)
(* keeps it enabled in IE and keeps coming back to interrupts on, every     *)
(* vblank request is taken (or withdrawn by the program).                   *)
VBlankServed ==
  (<>[]("VBLANK" \in ie) /\ []<>(at = "irq" /\ ime))
    => ("VBLANK" \in irr ~> "VBLANK" \notin irr)
=============================================================================
