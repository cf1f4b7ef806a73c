-------------------------- MODULE InterruptsProofs --------------------------
(***************************************************************************)
(* Proofs about Interrupts, for every set of values the program stores in   *)
(* IE and IF and every depth of nesting.                                    *)
(***************************************************************************)
EXTENDS Interrupts, TLAPS

(* The behaviours of Spec without its fairness, which safety does not need   *)
(* and a composition need not give.                                           *)
Run == Init /\ [][Next]_vars

Point == Interrupt \cup {"program"}

(* The stack holds the interrupted handlers and, at its bottom, the program. *)
StackOK ==
  /\ InHandler <=> stack # <<>>
  /\ \A k \in 1 .. Len(stack) : stack[k] = "program" <=> k = Len(stack)

(* The vectors are those of cpu_run_interrupts' switch.                     *)
LEMMA ServicedIsInterrupt ==
  ASSUME NEW i, Serviced(i)
  PROVE  i \in Interrupt /\ i \in pending
  BY DEF Serviced, Priority, Interrupt

(* Returning: the program counter comes from a stack that has one to give.  *)
LEMMA PopType ==
  ASSUME TypeOK, StackOK, InHandler, cpu_pop_short
  PROVE  /\ pc' \in Point /\ stack' \in Seq(Point)
         /\ Len(stack') = Len(stack) - 1
         /\ StackOK'
<1>1. stack \in Seq(Point) /\ stack # <<>>
  BY DEF TypeOK, StackOK, Point
<1>2. /\ Len(stack) \in Nat /\ Len(stack) >= 1
      /\ pc' = stack[1] /\ stack' = Tail(stack)
  BY <1>1 DEF cpu_pop_short
<1>3. /\ stack' \in Seq(Point) /\ Len(stack') = Len(stack) - 1
      /\ \A k \in 1 .. Len(stack') : stack'[k] = stack[k + 1]
  BY <1>1, <1>2
<1>4. pc' \in Point
  BY <1>1, <1>2
<1>5. InHandler' <=> stack' # <<>>
  <2>1. pc' = "program" <=> Len(stack) = 1
    <3>1. 1 \in 1 .. Len(stack)
      BY <1>2
    <3>2. stack[1] = "program" <=> 1 = Len(stack)
      BY <3>1 DEF StackOK
    <3> QED BY <1>2, <3>2
  <2>2. stack' = <<>> <=> Len(stack') = 0
    BY <1>3
  <2> QED BY <1>2, <1>3, <2>1, <2>2 DEF InHandler
<1>6. ASSUME NEW k \in 1 .. Len(stack') PROVE stack'[k] = "program" <=> k = Len(stack')
  <2>1. k + 1 \in 1 .. Len(stack)
    BY <1>2, <1>3
  <2>2. stack[k + 1] = "program" <=> k + 1 = Len(stack)
    BY <2>1 DEF StackOK
  <2>3. k + 1 = Len(stack) <=> k = Len(stack')
    BY <1>2, <1>3
  <2> QED BY <1>3, <2>2, <2>3
<1> QED BY <1>3, <1>4, <1>5, <1>6 DEF StackOK

(* Dispatching: the interrupted point goes on top.                          *)
LEMMA PushType ==
  ASSUME TypeOK, StackOK, NEW i \in Interrupt, pc' = i, stack' = <<pc>> \o stack
  PROVE  /\ pc' \in Point /\ stack' \in Seq(Point)
         /\ Len(stack') = Len(stack) + 1
         /\ StackOK'
<1>1. stack \in Seq(Point) /\ pc \in Point /\ <<pc>> \in Seq(Point) /\ Len(stack) \in Nat
  BY DEF TypeOK, Point
<1>2. /\ stack' \in Seq(Point) /\ Len(stack') = Len(stack) + 1
      /\ stack'[1] = pc
      /\ \A k \in 2 .. Len(stack') : stack'[k] = stack[k - 1]
  BY <1>1
<1>3. InHandler' /\ stack' # <<>>
  BY <1>1, <1>2 DEF InHandler, Interrupt
<1>4. ASSUME NEW k \in 1 .. Len(stack') PROVE stack'[k] = "program" <=> k = Len(stack')
  <2>1. CASE k = 1
    <3>1. stack = <<>> <=> Len(stack) = 0
      BY <1>1
    <3> QED BY <1>1, <1>2, <2>1, <3>1 DEF StackOK, InHandler
  <2>2. CASE k # 1
    <3>1. k - 1 \in 1 .. Len(stack) /\ k \in 2 .. Len(stack')
      BY <1>1, <1>2, <2>2
    <3>2. stack[k - 1] = "program" <=> k - 1 = Len(stack)
      BY <3>1 DEF StackOK
    <3>3. k - 1 = Len(stack) <=> k = Len(stack')
      BY <1>1, <1>2
    <3> QED BY <1>2, <3>1, <3>2, <3>3
  <2> QED BY <2>1, <2>2
<1> QED BY <1>2, <1>3, <1>4 DEF StackOK, Point

(* An instruction keeps the CPU's state well formed.                        *)
LEMMA ExecType ==
  ASSUME TypeOK, StackOK, NEW op \in Ops, ProgramMay(op), exec(op)
  PROVE  /\ ime' \in BOOLEAN /\ ime_next_cycle' \in BOOLEAN /\ halt' \in BOOLEAN
         /\ pc' \in Point /\ stack' \in Seq(Point)
         /\ after_ei' \in {"no", "off", "on"} /\ after_di' \in BOOLEAN
         /\ StackOK'
<1>1. /\ ime' \in BOOLEAN /\ ime_next_cycle' \in BOOLEAN /\ halt' \in BOOLEAN
      /\ after_ei' \in {"no", "off", "on"} /\ after_di' \in BOOLEAN
  BY DEF TypeOK, exec, exec_ei, exec_di, exec_reti, exec_other, ime_now, Ops
<1>2. CASE op \in {"RET", "RETI"}
  BY <1>1, <1>2, PopType DEF exec, ProgramMay
<1>3. CASE op \notin {"RET", "RETI"}
  BY <1>1, <1>3 DEF exec, TypeOK, StackOK, InHandler, Point
<1> QED BY <1>2, <1>3

(* So does every step of the loop, the devices' and the keyboard's.          *)
LEMMA TypeStep ==
  ASSUME TypeOK, StackOK, [Next]_vars
  PROVE  TypeOK' /\ StackOK'
<1>1. ASSUME UNCHANGED cpuVars,
             \/ UNCHANGED vars
             \/ DeviceStep \/ DevicesDone \/ KeyCallback
             \/ UNCHANGED <<ie, irr>> /\ at' \in Phases
      PROVE  TypeOK' /\ StackOK'
  <2>1. CASE UNCHANGED vars
    BY <2>1 DEF TypeOK, StackOK, InHandler, vars, cpuVars
  <2>2. CASE DeviceStep \/ DevicesDone \/ KeyCallback
    <3>1. ie' \in SUBSET RegisterBits /\ irr' \in SUBSET RegisterBits
      BY <2>2 DEF DeviceStep, DevicesDone, KeyCallback, DeviceRequests, cpu_req_interrupt,
                  Peripheral, RegisterBits, Interrupt, TypeOK
    <3>2. at' \in Phases
      BY <2>2 DEF DeviceStep, DevicesDone, KeyCallback, Goto, Phases, TypeOK
    <3> QED BY <1>1, <3>1, <3>2 DEF TypeOK, StackOK, InHandler, cpuVars
  <2>3. CASE UNCHANGED <<ie, irr>> /\ at' \in Phases
    BY <1>1, <2>3 DEF TypeOK, StackOK, InHandler, cpuVars
  <2> QED BY <1>1, <2>1, <2>2, <2>3
<1>2. ASSUME NEW op \in Ops, ProgramMay(op), exec(op), CpuStep,
             ie' \in SUBSET RegisterBits, irr' \in SUBSET RegisterBits
      PROVE  TypeOK' /\ StackOK'
  BY <1>2, ExecType DEF TypeOK, Point, CpuStep, Goto, Phases
<1>3. CASE CpuStep
  <2>1. CASE cpu_step_halted
    BY <1>1, <1>3, <2>1 DEF cpu_step_halted, CpuStep, Goto, Phases
  <2>2. CASE \E op \in Ops : cpu_step(op)
    BY <1>2, <1>3, <2>2 DEF cpu_step, TypeOK
  <2>3. CASE \E v \in IeWrites : cpu_step_write_ie(v)
    BY <1>2, <1>3, <2>3, InterruptsAssumption DEF cpu_step_write_ie, TypeOK, Ops
  <2>4. CASE \E v \in IrrWrites : cpu_step_write_irr(v)
    BY <1>2, <1>3, <2>4, InterruptsAssumption DEF cpu_step_write_irr, TypeOK, Ops
  <2> QED BY <1>3, <2>1, <2>2, <2>3, <2>4 DEF CpuStep
<1>4. CASE \E i \in RegisterBits : Goto("irq", "irq_devices") /\ Dispatch(i)
  <2>1. PICK i \in RegisterBits : Goto("irq", "irq_devices") /\ Dispatch(i)
    BY <1>4
  <2>2. i \in Interrupt
    BY <2>1, ServicedIsInterrupt DEF Dispatch
  <2>3. pc' \in Point /\ stack' \in Seq(Point) /\ StackOK'
    BY <2>1, <2>2, PushType DEF Dispatch
  <2>4. irr' \in SUBSET RegisterBits /\ ie' \in SUBSET RegisterBits /\ at' \in Phases
    BY <2>1 DEF Dispatch, TypeOK, Goto, Phases
  <2>5. ime' \in BOOLEAN /\ ime_next_cycle' \in BOOLEAN /\ halt' \in BOOLEAN
        /\ after_ei' \in {"no", "off", "on"} /\ after_di' \in BOOLEAN
    BY <2>1 DEF Dispatch, TypeOK
  <2> QED BY <2>3, <2>4, <2>5 DEF TypeOK, Point
<1>5. CASE WakeOnly /\ Goto("irq", "cpu")
  BY <1>5 DEF WakeOnly, TypeOK, StackOK, InHandler, Goto, Phases
<1>6. CASE NothingPending /\ Goto("irq", "cpu")
  BY <1>1, <1>6 DEF NothingPending, Goto, Phases
<1>7. CASE DeviceStep \/ DevicesDone \/ KeyCallback \/ UNCHANGED vars
  BY <1>1, <1>7 DEF DeviceStep, DevicesDone, KeyCallback, vars
<1>8. CASE Exit
  BY <1>1, <1>8 DEF Exit, cpu_step_exit, Goto, Phases
<1> QED
  BY <1>3, <1>4, <1>5, <1>6, <1>7, <1>8 DEF Next, Loop, RunInterrupts

(* Only handlers return, so StackOK keeps TypeOK inductive.                  *)
LEMMA TypeAlways == Run => [](TypeOK /\ StackOK)
<1>1. Init => TypeOK /\ StackOK
  <2>1. Init => TypeOK
    <3>1. <<>> \in Seq(Interrupt \cup {"program"})
      OBVIOUS
    <3> QED BY <3>1 DEF Init, TypeOK, Phases
  <2>2. Init => StackOK
    BY DEF Init, StackOK, InHandler
  <2> QED BY <2>1, <2>2
<1>2. TypeOK /\ StackOK /\ [Next]_vars => TypeOK' /\ StackOK'
  BY TypeStep
<1> QED BY <1>1, <1>2, PTL DEF Run

(* Every return finds an address, and the registers keep their types.       *)
THEOREM TypeCorrect == Spec => [](TypeOK /\ StackOK)
  BY TypeAlways, PTL DEF Run, Spec

------------------------------------------------------------------------------
(* DIHolds is inductive by itself: EI and RETI are the only operations that  *)
(* can turn interrupts on, and both end after_di.                            *)
LEMMA DIAlwaysFinal == Run => []DIHolds
<1>1. Init => DIHolds
  BY DEF Init, DIHolds
<1>2. DIHolds /\ [Next]_vars => DIHolds'
  <2> SUFFICES ASSUME DIHolds, [Next]_vars PROVE DIHolds'
    OBVIOUS
  <2>1. ASSUME NEW op \in Ops, exec(op) PROVE DIHolds'
    BY <2>1 DEF DIHolds, exec, exec_ei, exec_di, exec_reti, exec_other, ime_now, Ops
  <2>2. CASE CpuStep
    <3>1. CASE cpu_step_halted
      BY <3>1 DEF cpu_step_halted, DIHolds, cpuVars
    <3> QED
      BY <2>1, <2>2, <3>1
         DEF CpuStep, cpu_step, cpu_step_write_ie, cpu_step_write_irr, Ops
  <2>3. CASE \E i \in RegisterBits : Dispatch(i)
    BY <2>3 DEF Dispatch, DIHolds
  <2>4. CASE UNCHANGED <<ime, ime_next_cycle, after_di>>
    BY <2>4 DEF DIHolds
  <2> QED
    BY <2>2, <2>3, <2>4
       DEF Next, Loop, RunInterrupts, NothingPending, WakeOnly, DevicesDone,
           DeviceStep, KeyCallback, Exit, cpu_step_exit, vars, cpuVars
<1> QED BY <1>1, <1>2, PTL DEF Run

(* After DI nothing is dispatched before the next EI or RETI.                *)
THEOREM DIFinal == Spec => []DIHolds
  BY DIAlwaysFinal, PTL DEF Run, Spec

------------------------------------------------------------------------------
(* Why handlers do not nest.  An enable is pending only right after EI, and *)
(* never while interrupts are on; so none survives a dispatch, and a handler *)
(* runs with interrupts off until the instruction that returns from it.     *)
MaskInv ==
  /\ ~(ime /\ ime_next_cycle)
  /\ ime_next_cycle => after_ei # "no"
  /\ halt => after_ei = "no"
  /\ InHandler => ~ime
  /\ at \in {"devices", "irq"} /\ after_ei # "no" => ~ime
  /\ at = "irq_devices" => ~ime_next_cycle
  /\ Len(stack) <= 1

(* Executing an operation keeps MaskInv: only EI leaves an enable pending.   *)
LEMMA MaskExec ==
  ASSUME ~RedundantEI, TypeOK, StackOK, MaskInv,
         NEW op \in Ops, ProgramMay(op), exec(op)
  PROVE  /\ ~(ime' /\ ime_next_cycle')
         /\ ime_next_cycle' => after_ei' # "no"
         /\ halt' => after_ei' = "no"
         /\ InHandler' => ~ime'
         /\ after_ei' # "no" => ~ime'
         /\ Len(stack') <= 1
<1>1. /\ ~(ime' /\ ime_next_cycle')
      /\ ime_next_cycle' => after_ei' # "no"
      /\ after_ei' # "no" => ~ime'
  BY DEF exec, exec_ei, exec_di, exec_reti, exec_other, ime_now, ProgramMay, Ops, TypeOK
<1>2. halt' => after_ei' = "no"
  BY DEF exec
<1>3. CASE op \in {"RET", "RETI"}
  <2>1. InHandler /\ cpu_pop_short
    BY <1>3 DEF exec, ProgramMay
  <2>2. Len(stack') = Len(stack) - 1 /\ StackOK' /\ Len(stack) \in Nat
    BY <2>1, PopType DEF TypeOK
  <2>3. Len(stack) <= 1 /\ stack' \in Seq(Point)
    BY <2>1, PopType DEF MaskInv
  <2>4. ~(stack' # <<>>)
    BY <2>2, <2>3
  <2>5. ~InHandler'
    BY <2>2, <2>4 DEF StackOK
  <2> QED BY <1>1, <1>2, <2>2, <2>3, <2>5
<1>4. CASE op \notin {"RET", "RETI"}
  <2>1. UNCHANGED <<pc, stack>>
    BY <1>4 DEF exec
  <2>2. InHandler => ~ime'
    <3> SUFFICES ASSUME InHandler PROVE ~ime'
      OBVIOUS
    <3>1. ~ime /\ after_ei = "no" /\ ~ime_next_cycle
      BY <1>4 DEF MaskInv, ProgramMay
    <3> QED
      BY <1>4, <3>1 DEF exec, exec_ei, exec_di, exec_other, ime_now, Ops
  <2> QED BY <1>1, <1>2, <2>1, <2>2 DEF InHandler, MaskInv
<1> QED BY <1>3, <1>4

(* Dispatch clears ime and finds no enable pending; the rest leaves both.    *)
LEMMA MaskStep ==
  ASSUME ~RedundantEI, TypeOK, StackOK, MaskInv, [Next]_vars
  PROVE  MaskInv'
<1>1. CASE CpuStep
  <2>1. at' = "devices"
    BY <1>1 DEF CpuStep, Goto
  <2>2. CASE cpu_step_halted
    BY <2>1, <2>2 DEF cpu_step_halted, cpuVars, MaskInv, InHandler
  <2>3. ASSUME NEW op \in Ops, ProgramMay(op), exec(op) PROVE MaskInv'
    BY <2>1, <2>3, MaskExec DEF MaskInv
  <2> QED
    BY <1>1, <2>2, <2>3
       DEF CpuStep, cpu_step, cpu_step_write_ie, cpu_step_write_irr, Ops
<1>2. CASE \E i \in RegisterBits : Goto("irq", "irq_devices") /\ Dispatch(i)
  <2>1. PICK i \in RegisterBits : Goto("irq", "irq_devices") /\ Dispatch(i)
    BY <1>2
  <2>2. ime /\ ~ime_next_cycle /\ ~InHandler
    BY <2>1 DEF Dispatch, MaskInv
  <2>3. Len(stack) = 0 /\ stack \in Seq(Point)
    BY <2>2 DEF StackOK, TypeOK, Point
  <2>4. Len(stack') = 1
    <3>1. i \in Interrupt
      BY <2>1, ServicedIsInterrupt DEF Dispatch
    <3> QED BY <2>1, <2>3, <3>1, PushType DEF Dispatch
  <2>5. ~ime' /\ ~ime_next_cycle' /\ ~halt' /\ after_ei' = "no"
    BY <2>1, <2>2 DEF Dispatch
  <2> QED BY <2>1, <2>4, <2>5 DEF MaskInv, Goto
<1>3. CASE WakeOnly /\ Goto("irq", "cpu")
  BY <1>3 DEF WakeOnly, Goto, MaskInv, InHandler
<1>4. CASE UNCHANGED cpuVars /\ (at' \in {at, "cpu", "exited"} \/ (at = "devices" /\ at' = "irq"))
  BY <1>4 DEF cpuVars, MaskInv, InHandler
<1> QED
  BY <1>1, <1>2, <1>3, <1>4
     DEF Next, Loop, RunInterrupts, NothingPending, DevicesDone, DeviceStep,
         KeyCallback, Exit, cpu_step_exit, Goto, vars

(* MaskInv holds of every program without redundant EIs.                     *)
LEMMA MaskAlways == Run => [](~RedundantEI => MaskInv)
<1>1. Init => MaskInv
  BY DEF Init, MaskInv, InHandler
<1>2. TypeOK /\ StackOK /\ (~RedundantEI => MaskInv) /\ [Next]_vars
        => (~RedundantEI => MaskInv)'
  BY MaskStep
<1> QED BY <1>1, <1>2, TypeAlways, PTL DEF Run

(* MaskInv has it as a conjunct.                                             *)
LEMMA NeverNested == Run => []HandlersNotNested
<1>1. (~RedundantEI => MaskInv) => HandlersNotNested
  BY DEF MaskInv, HandlersNotNested
<1> QED BY <1>1, MaskAlways, PTL

(* A program that never executes EI with interrupts on has no handler       *)
(* interrupted, for any interrupts it enables and any timing of requests.   *)
THEOREM NoNesting == Spec => []HandlersNotNested
  BY NeverNested, PTL DEF Run, Spec

------------------------------------------------------------------------------
(* Whatever the program's EIs, the history of one is gone before the CPU can *)
(* halt, so every later step executes an operation that renews it.            *)
EIInv == EIDelayed /\ (halt => after_ei = "no")

(* EIInv is inductive: an EI that finds interrupts off leaves them off.      *)
LEMMA EIAlwaysDelayed == Run => []EIDelayed
<1>1. Init => EIInv
  BY DEF Init, EIInv, EIDelayed
<1>2. EIInv /\ [Next]_vars => EIInv'
  <2> SUFFICES ASSUME EIInv, [Next]_vars PROVE EIInv'
    OBVIOUS
  <2>1. ASSUME NEW op \in Ops, exec(op) PROVE EIInv'
    BY <2>1 DEF EIInv, EIDelayed, exec, exec_ei, exec_di, exec_reti, exec_other, ime_now, Ops
  <2>2. CASE CpuStep
    <3>1. CASE cpu_step_halted
      BY <3>1 DEF cpu_step_halted, EIInv, EIDelayed, cpuVars
    <3> QED
      BY <2>1, <2>2, <3>1
         DEF CpuStep, cpu_step, cpu_step_write_ie, cpu_step_write_irr, Ops
  <2>3. CASE \E i \in RegisterBits : Dispatch(i)
    BY <2>3 DEF Dispatch, EIInv, EIDelayed
  <2>4. CASE WakeOnly /\ Goto("irq", "cpu")
    BY <2>4 DEF WakeOnly, Goto, EIInv, EIDelayed
  <2>5. CASE UNCHANGED cpuVars /\ (at' \in {at, "cpu", "exited"} \/ (at = "devices" /\ at' = "irq"))
    BY <2>5 DEF cpuVars, EIInv, EIDelayed
  <2> QED
    BY <2>2, <2>3, <2>4, <2>5
       DEF Next, Loop, RunInterrupts, NothingPending, DevicesDone, DeviceStep,
           KeyCallback, Exit, cpu_step_exit, Goto, vars
<1> QED BY <1>1, <1>2, PTL DEF Run, EIInv

(* The delay of EI covers the instruction after it, so EI; RET returns      *)
(* before the next interrupt, redundant EIs allowed or not.                   *)
THEOREM EIDelay == Spec => []EIDelayed
  BY EIAlwaysDelayed, PTL DEF Run, Spec

------------------------------------------------------------------------------
(* HALT.  A dispatch never leaves the CPU halted; so a halted CPU at the    *)
(* head of the loop has been through cpu_run_interrupts without any enabled *)
(* request.                                                                  *)
HaltInv == HaltMeansNothingPending /\ (at = "irq_devices" => ~halt)

(* HaltInv is inductive.                                                     *)
LEMMA HaltAlwaysSound == Run => []HaltMeansNothingPending
<1>1. Init => HaltInv
  BY DEF Init, HaltInv, HaltMeansNothingPending
<1>2. HaltInv /\ [Next]_vars => HaltInv'
  <2> SUFFICES ASSUME HaltInv, [Next]_vars PROVE HaltInv'
    OBVIOUS
  <2>1. CASE CpuStep
    BY <2>1 DEF CpuStep, Goto, HaltInv, HaltMeansNothingPending
  <2>2. CASE \E i \in RegisterBits : Goto("irq", "irq_devices") /\ Dispatch(i)
    BY <2>2 DEF Goto, Dispatch, HaltInv, HaltMeansNothingPending
  <2>3. CASE Goto("irq", "cpu") /\ (NothingPending \/ WakeOnly)
    BY <2>3 DEF Goto, NothingPending, WakeOnly, HaltInv, HaltMeansNothingPending,
                pending, cpuVars
  <2>4. CASE DevicesDone
    BY <2>4 DEF DevicesDone, Goto, HaltInv, HaltMeansNothingPending, cpuVars
  <2>5. CASE DeviceStep
    BY <2>5 DEF DeviceStep, HaltInv, HaltMeansNothingPending, cpuVars
  <2>6. CASE KeyCallback
    BY <2>6 DEF KeyCallback, cpu_req_interrupt, HaltInv, HaltMeansNothingPending,
                pending, cpuVars
  <2>7. CASE UNCHANGED vars
    BY <2>7 DEF HaltInv, HaltMeansNothingPending, pending, vars, cpuVars
  <2>8. CASE Exit
    BY <2>8 DEF Exit, Goto, HaltInv, HaltMeansNothingPending
  <2> QED BY <2>1, <2>2, <2>3, <2>4, <2>5, <2>6, <2>7, <2>8 DEF Next, Loop, RunInterrupts
<1>3. HaltInv => HaltMeansNothingPending
  BY DEF HaltInv
<1> QED BY <1>1, <1>2, <1>3, PTL DEF Run

(* A halted CPU sleeps only while nothing it enabled is requested, a fresh   *)
(* key apart.                                                                *)
THEOREM HaltSound == Spec => []HaltMeansNothingPending
  BY HaltAlwaysSound, PTL DEF Run, Spec

------------------------------------------------------------------------------
(* Requests are only taken one at a time, the first of the enabled ones.    *)
LEMMA RequestsAlwaysKept == Run => NoRequestLost
<1> DEFINE Kept == \A i \in irr \ irr' :
             \/ at = "cpu"
             \/ /\ pc' = i
                /\ ime /\ i \in ie
                /\ \A n \in DOMAIN Priority :
                     Priority[n] = i =>
                       \A m \in 1 .. n - 1 : Priority[m] \notin pending
<1>1. [Next]_vars => [Kept]_vars
  <2> SUFFICES ASSUME Next PROVE Kept
    OBVIOUS
  <2>1. CASE CpuStep
    BY <2>1 DEF CpuStep, Goto
  <2>2. CASE \E i \in RegisterBits : Dispatch(i)
    <3>1. PICK i \in RegisterBits : Dispatch(i)
      BY <2>2
    <3>2. irr \ irr' \subseteq {i} /\ pc' = i /\ ime /\ i \in ie
      BY <3>1, ServicedIsInterrupt DEF Dispatch, pending
    <3>3. ASSUME NEW n \in DOMAIN Priority, Priority[n] = i, NEW m \in 1 .. n - 1
          PROVE  Priority[m] \notin pending
      <4>1. PICK k \in DOMAIN Priority :
              Priority[k] = i /\ \A j \in 1 .. k - 1 : Priority[j] \notin pending
        BY <3>1 DEF Dispatch, Serviced
      <4>2. k = n
        BY <3>3, <4>1 DEF Priority
      <4> QED BY <4>1, <4>2
    <3> QED BY <3>2, <3>3
  <2>3. CASE UNCHANGED irr
    BY <2>3
  <2>4. CASE DevicesDone \/ DeviceStep \/ KeyCallback
    BY <2>4 DEF DevicesDone, DeviceStep, KeyCallback, DeviceRequests, cpu_req_interrupt
  <2> QED
    BY <2>1, <2>2, <2>3, <2>4
       DEF Next, Loop, RunInterrupts, NothingPending, WakeOnly, Exit, cpu_step_exit
<1> QED BY <1>1, PTL DEF Run, NoRequestLost

(* A request leaves IF only by a store or by its own dispatch.               *)
THEOREM RequestsKept == Spec => NoRequestLost
  BY RequestsAlwaysKept, PTL DEF Run, Spec
=============================================================================
