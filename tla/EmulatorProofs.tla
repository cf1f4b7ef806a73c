---------------------------- MODULE EmulatorProofs ----------------------------
(***************************************************************************)
(* What the loop of Emulator promises, for any durations of instructions,   *)
(* frames and dispatches, any devices' constants and any program.            *)
(***************************************************************************)
EXTENDS Emulator, TLAPS

------------------------------------------------------------------------------
(* Accounting of cycles. *)

(* The cycles counted for the frame and not given to the timer or the LCD    *)
(* yet are those of the call that is under way.                               *)
Accounted ==
  /\ phase \in Phases
  /\ cycles \in Nat
  /\ cycles_this_frame \in Int
  /\ timer_cycles = cycles_this_frame - TimerDue
  /\ ppu_cycles = cycles_this_frame - PpuDue

LEMMA CountsAreNatural ==
  /\ \A n \in InstrCycles \cup {HaltCycles, IrqCycles} : n \in Nat
  /\ CYCLES_PER_FRAME \in Nat
  BY EmulatorAssumption DEF HaltCycles

LEMMA LoopHeadIsPhase == \A n : LoopHead(n) \in {"cpu", "frame"}
  BY DEF LoopHead

(* A dispatch moves on in the loop and is charged for.                       *)
LEMMA DispatchCharged ==
  RunInterrupt =>
    /\ phase = "irq" /\ phase' = "irq_timer"
    /\ cycles' = IrqCycles
    /\ cycles_this_frame' = cycles_this_frame + IrqCycles
    /\ UNCHANGED <<timer_cycles, ppu_cycles>>
  BY Zenon DEF RunInterrupt, Charge

(* Charging cycles is the only way they become due, and a step of a device   *)
(* the only way they stop being it.                                           *)
LEMMA AccountedKept == Accounted /\ [Next]_vars => Accounted'
<1> SUFFICES ASSUME Accounted, [Next]_vars PROVE Accounted'
  OBVIOUS
<1> USE CountsAreNatural, LoopHeadIsPhase DEF Accounted, Phases, TimerDue, PpuDue
<1>1. CASE CpuStep
  BY <1>1 DEF CpuStep, Charge
<1>2. CASE TimerStep("timer", "ppu")
  BY <1>2 DEF TimerStep
<1>3. CASE PpuStep("ppu", "irq")
  BY <1>3 DEF PpuStep
<1>4. CASE NoDispatch
  BY <1>4 DEF NoDispatch
<1>5. CASE RunInterrupt
  BY <1>5, DispatchCharged
<1>6. CASE TimerStep("irq_timer", "irq_ppu")
  BY <1>6 DEF TimerStep
<1>7. CASE PpuStep("irq_ppu", LoopHead(cycles_this_frame))
  BY <1>7 DEF PpuStep
<1>8. CASE EndFrame
  BY <1>8 DEF EndFrame
<1>9. CASE KeyCallback
  BY <1>9 DEF KeyCallback, loopVars
<1>10. CASE UNCHANGED vars
  BY <1>10 DEF vars, loopVars
<1>11. CASE Exit
  BY <1>11 DEF Exit
<1> QED BY <1>1, <1>2, <1>3, <1>4, <1>5, <1>6, <1>7, <1>8, <1>9, <1>10, <1>11 DEF Next, Loop

LEMMA AlwaysAccounted == Spec => []Accounted
<1>1. Init => Accounted
  BY DEF Init, Accounted, Phases, TimerDue, PpuDue
<1> QED BY <1>1, AccountedKept, PTL DEF Spec

(* The timer and the LCD get exactly the cycles of the frame.                *)
THEOREM DevicesGetEveryCycle == Spec => []CyclesAgree
<1>1. Accounted => CyclesAgree
  BY DEF Accounted, CyclesAgree, TimerDue, PpuDue
<1> QED BY <1>1, AlwaysAccounted, PTL

(* What a frame may have run over by, by the call that comes next: nothing   *)
(* at the head of the loop, one instruction before the dispatch, and that    *)
(* and a dispatch after it.                                                   *)
Overrun ==
  /\ phase \in Phases
  /\ cycles_this_frame \in Int
  /\ phase = "cpu" => cycles_this_frame < CYCLES_PER_FRAME
  /\ phase \in {"timer", "ppu", "irq"} =>
       \E n \in InstrCycles \cup {HaltCycles} : cycles_this_frame < CYCLES_PER_FRAME + n
  /\ \E n \in InstrCycles \cup {HaltCycles} :
       cycles_this_frame < CYCLES_PER_FRAME + n + IrqCycles

LEMMA OverrunKept == Overrun /\ [Next]_vars => Overrun'
<1> SUFFICES ASSUME Overrun, [Next]_vars PROVE Overrun'
  OBVIOUS
<1> USE CountsAreNatural DEF Overrun, Phases
<1>1. CASE CpuStep
  BY <1>1 DEF CpuStep, Charge, Instruction
<1>2. CASE TimerStep("timer", "ppu")
  BY <1>2 DEF TimerStep
<1>3. CASE PpuStep("ppu", "irq")
  BY <1>3 DEF PpuStep
<1>4. CASE NoDispatch
  BY <1>4 DEF NoDispatch, LoopHead
<1>5. CASE RunInterrupt
  <2>1. PICK n \in InstrCycles \cup {HaltCycles} : cycles_this_frame < CYCLES_PER_FRAME + n
    BY <1>5, DispatchCharged
  <2>2. cycles_this_frame' < CYCLES_PER_FRAME + n + IrqCycles
    BY <1>5, <2>1, DispatchCharged
  <2> QED BY <1>5, <2>2, DispatchCharged
<1>6. CASE TimerStep("irq_timer", "irq_ppu")
  BY <1>6 DEF TimerStep
<1>7. CASE PpuStep("irq_ppu", LoopHead(cycles_this_frame))
  BY <1>7 DEF PpuStep, LoopHead
<1>8. CASE EndFrame
  BY <1>8 DEF EndFrame, LoopHead
<1>9. CASE KeyCallback
  BY <1>9 DEF KeyCallback, loopVars
<1>10. CASE UNCHANGED vars
  BY <1>10 DEF vars, loopVars
<1>11. CASE Exit
  BY <1>11 DEF Exit
<1> QED BY <1>1, <1>2, <1>3, <1>4, <1>5, <1>6, <1>7, <1>8, <1>9, <1>10, <1>11 DEF Next, Loop

(* A frame runs over by less than an instruction and a dispatch, and what it *)
(* runs over by is not added to the next frame's.                             *)
THEOREM OverrunNeverGrows == Spec => []OverrunBounded
<1>1. Init => Overrun
  BY CountsAreNatural, EmulatorAssumption DEF Init, Overrun, Phases, HaltCycles
<1>2. Overrun => OverrunBounded
  BY DEF Overrun, OverrunBounded
<1> QED BY <1>1, <1>2, OverrunKept, PTL DEF Spec

------------------------------------------------------------------------------
(* Pacing of frames. *)

LEMMA DivisionOfTime ==
  ASSUME NEW n \in Nat
  PROVE  P!ToSpec(n) \in P!Timespec /\ P!Nanos(P!ToSpec(n)) = n
  BY EmulatorAssumption, Z3 DEF P!ToSpec, P!Timespec, P!Nanos

(* diff_timespec subtracts, and keeps its result normalized.                 *)
LEMMA DifferenceOfTimes ==
  ASSUME NEW a \in P!Timespec, NEW b \in P!Timespec
  PROVE  /\ P!diff_timespec(a, b) \in P!Timespec
         /\ P!Nanos(P!diff_timespec(a, b)) = P!Nanos(a) - P!Nanos(b)
  BY EmulatorAssumption DEF P!diff_timespec, P!Timespec, P!Nanos

(* A normalized time is negative exactly when its seconds are.               *)
LEMMA SignOfTime ==
  ASSUME NEW t \in P!Timespec
  PROVE  t.tv_sec < 0 <=> P!Nanos(t) < 0
  BY EmulatorAssumption DEF P!Timespec, P!Nanos

(* The loop sleeps for what a frame lacks of the interval, for any reading   *)
(* of the clock and any time the frame took.                                  *)
LEMMA SleepIsTheRest ==
  ASSUME NEW start \in Nat, NEW busy \in Nat
  PROVE  P!Slept(P!ToSpec(start), P!ToSpec(start + busy))
           = IF busy <= P!interval THEN P!interval - busy ELSE 0
<1> DEFINE from == P!ToSpec(start)
           to   == P!ToSpec(start + busy)
           took == P!diff_timespec(to, from)
           full == [tv_sec |-> 0, tv_nsec |-> P!interval]
           left == P!diff_timespec(full, took)
<1>1. from \in P!Timespec /\ to \in P!Timespec /\ P!Nanos(to) - P!Nanos(from) = busy
  BY DivisionOfTime
<1>2. took \in P!Timespec /\ P!Nanos(took) = busy
  BY <1>1, DifferenceOfTimes
<1>3. full \in P!Timespec /\ P!Nanos(full) = P!interval /\ P!interval \in Nat
  BY EmulatorAssumption DEF P!Timespec, P!Nanos, P!interval
<1>4. left \in P!Timespec /\ P!Nanos(left) = P!interval - busy
  BY <1>2, <1>3, DifferenceOfTimes
<1>5. left.tv_sec < 0 <=> P!interval < busy
  BY <1>3, <1>4, SignOfTime
<1>6. P!Slept(from, to) = IF left.tv_sec < 0 THEN 0 ELSE P!Nanos(left)
  BY <1>4 DEF P!Slept, P!wait, P!clock_nanosleep, P!Timespec
<1> QED BY <1>3, <1>4, <1>5, <1>6

(* Every frame but the first is followed by the rest of its interval.        *)
THEOREM FramesKeepPace == Spec => []FramesPaced
<1>1. Init => FramesPaced
  BY DEF Init, FramesPaced, Running
<1>2. FramesPaced /\ [Next]_vars => FramesPaced'
  <2> SUFFICES ASSUME FramesPaced, [Next]_vars PROVE FramesPaced'
    OBVIOUS
  <2>1. CASE CpuStep
    BY <2>1 DEF CpuStep, FramesPaced, Running
  <2>2. CASE EndFrame
    <3>1. PICK start \in ClockTimes, busy \in FrameTimes :
            pace' = [busy  |-> busy,
                     slept |-> P!Slept(P!ToSpec(start), P!ToSpec(start + busy)),
                     known |-> frame_start_set]
      BY <2>2 DEF EndFrame, Pace
    <3>2. start \in Nat /\ busy \in Nat
      BY EmulatorAssumption
    <3> QED BY <3>1, <3>2, SleepIsTheRest DEF FramesPaced
  <2>3. CASE UNCHANGED pace
    BY <2>3 DEF FramesPaced
  <2> QED BY <2>1, <2>2, <2>3
       DEF Next, Loop, Exit, TimerStep, PpuStep, NoDispatch, RunInterrupt, KeyCallback, vars, paceVars
<1> QED BY <1>1, <1>2, PTL DEF Spec
------------------------------------------------------------------------------
(* The loop as the environment of its components. *)

(* Every call leaves bits of the register in irr, and a device that is owed  *)
(* cycles is owed those of an instruction, a halted step or a dispatch.       *)
Shared ==
  /\ irr \in SUBSET I!RegisterBits
  /\ phase \in Phases
  /\ phase \in {"timer", "ppu", "irq_timer", "irq_ppu"} => cycles \in CycleCounts

LEMMA CyclesAreDue == \A n \in CycleCounts : n # 0
  BY EmulatorAssumption DEF CycleCounts, HaltCycles

(* What cpu_step does to irr, the timer and the LCD: an instruction stores   *)
(* to one of them or to none.                                                *)
LEMMA CpuStepShared ==
  ASSUME Shared, CpuStep
  PROVE  /\ phase = "cpu" /\ phase' = "timer" /\ cycles' \in CycleCounts
         /\ irr' \in SUBSET I!RegisterBits
         /\ (UNCHANGED lcdVars) \/ L!ProgramWrite
         /\ (UNCHANGED timerVars) \/ (T!ProgramWrite /\ UNCHANGED irr)
<1>1. phase = "cpu" /\ phase' = "timer"
  BY DEF CpuStep
<1>2. CASE I!cpu_step_halted /\ Charge(HaltCycles) /\ UNCHANGED deviceVars
  BY <1>1, <1>2 DEF Charge, CycleCounts, I!cpu_step_halted, deviceVars, Shared
<1>3. CASE Instruction /\ \E n \in InstrCycles : Charge(n)
  <2>1. cycles' \in CycleCounts
    BY <1>3 DEF Charge, CycleCounts
  <2>2. CASE (\E op \in I!Ops : I!cpu_step(op)) /\ UNCHANGED deviceVars
    BY <1>1, <2>1, <2>2 DEF I!cpu_step, deviceVars, Shared
  <2>3. CASE (\E v \in IeWrites : I!cpu_step_write_ie(v)) /\ UNCHANGED deviceVars
    BY <1>1, <2>1, <2>3 DEF I!cpu_step_write_ie, deviceVars, Shared
  <2>4. CASE (\E v \in IrrWrites : I!cpu_step_write_irr(v)) /\ UNCHANGED deviceVars
    BY <1>1, <2>1, <2>4, EmulatorAssumption
       DEF I!cpu_step_write_irr, I!InterruptsAssumption, deviceVars
  <2>5. CASE I!cpu_step("OTHER") /\ (TimerStore \/ LcdStore)
    <3>1. UNCHANGED irr
      BY <2>5 DEF I!cpu_step
    <3>2. (UNCHANGED lcdVars) \/ L!ProgramWrite
      BY <2>5, EmulatorAssumption DEF TimerStore, LcdStore, L!ProgramWrite
    <3>3. (UNCHANGED timerVars) \/ T!ProgramWrite
      BY <2>5, EmulatorAssumption DEF TimerStore, LcdStore, T!ProgramWrite
    <3> QED BY <1>1, <2>1, <3>1, <3>2, <3>3 DEF Shared
  <2> QED BY <1>3, <2>2, <2>3, <2>4, <2>5 DEF Instruction
<1> QED BY <1>2, <1>3 DEF CpuStep

(* The devices only add to irr.                                              *)
LEMMA TimerRequests ==
  ASSUME NEW n, T!timer_step(n)
  PROVE  \E r \in SUBSET {"TIMER"} : irr' = irr \cup r
<1>1. irr' = irr \cup {} \/ irr' = irr \cup {"TIMER"}
  BY DEF T!timer_step, T!timer_wait, T!timer_tick, T!tima_overflow, T!tima_increment
<1> QED BY <1>1

LEMMA LcdRequests ==
  ASSUME NEW n, L!ppu_step(n)
  PROVE  \E r \in SUBSET {"VBLANK", "STAT"} : irr' = irr \cup r
<1>1. L!stat_requests \in SUBSET {"STAT"}
  BY DEF L!stat_requests
<1> DEFINE r == IF irr' = irr THEN {}
                ELSE IF irr' = irr \cup L!stat_requests THEN L!stat_requests
                ELSE L!stat_requests \cup {"VBLANK"}
<1>2. irr' = irr \cup r
  BY DEF L!ppu_step, L!lcd_update_status_off, L!MidLine, L!VisibleLineOver, L!VBlankBegins,
         L!VBlankLineOver, L!FrameWraps
<1>3. r \in SUBSET {"VBLANK", "STAT"}
  BY <1>1
<1> QED BY <1>2, <1>3

(* A dispatch takes its own request out of irr.                              *)
LEMMA DispatchClears ==
  RunInterrupt => UNCHANGED lcdVars /\ \E i \in I!RegisterBits : I!Dispatch(i) /\ irr' = irr \ {i}
  BY Zenon DEF RunInterrupt, I!Dispatch, deviceVars

LEMMA SharedKept == Shared /\ [Next]_vars => Shared'
<1> SUFFICES ASSUME Shared, [Next]_vars PROVE Shared'
  OBVIOUS
<1> USE LoopHeadIsPhase DEF Shared, Phases
<1>1. CASE CpuStep
  BY <1>1, CpuStepShared
<1>2. ASSUME NEW from, NEW to, TimerStep(from, to) PROVE irr' \in SUBSET I!RegisterBits /\ UNCHANGED cycles
  BY <1>2, TimerRequests DEF TimerStep, I!RegisterBits, I!Interrupt
<1>3. ASSUME NEW from, NEW to, PpuStep(from, to) PROVE irr' \in SUBSET I!RegisterBits /\ UNCHANGED cycles
  BY <1>3, LcdRequests DEF PpuStep, I!RegisterBits, I!Interrupt
<1>4. CASE TimerStep("timer", "ppu") \/ TimerStep("irq_timer", "irq_ppu")
  BY <1>2, <1>4 DEF TimerStep
<1>5. CASE PpuStep("ppu", "irq") \/ PpuStep("irq_ppu", LoopHead(cycles_this_frame))
  BY <1>3, <1>5 DEF PpuStep
<1>6. CASE NoDispatch
  BY <1>6 DEF NoDispatch, I!NothingPending, I!WakeOnly
<1>7. CASE RunInterrupt
  BY <1>7, DispatchCharged, DispatchClears DEF CycleCounts
<1>8. CASE EndFrame
  BY <1>8 DEF EndFrame
<1>9. CASE KeyCallback
  BY <1>9 DEF KeyCallback, I!cpu_req_interrupt, I!RegisterBits, I!Interrupt, loopVars
<1>10. CASE UNCHANGED vars
  BY <1>10 DEF vars, loopVars
<1>11. CASE Exit
  BY <1>11 DEF Exit, I!cpu_step_exit
<1> QED BY <1>1, <1>4, <1>5, <1>6, <1>7, <1>8, <1>9, <1>10, <1>11 DEF Next, Loop

LEMMA AlwaysShared == Spec => []Shared
<1>1. Init => Shared
  BY DEF Init, I!Init, Shared, Phases
<1> QED BY <1>1, SharedKept, PTL DEF Spec

(* The loop gives the LCD an environment Lcd allows: cycles of an            *)
(* instruction or a dispatch, each once, stores in between and any requests.  *)
THEOREM LcdFitsLoop == Spec => LcdInLoop
<1>1. Init => L!Init
  BY DEF Init, PpuDue, L!Init
<1>2. Shared /\ [Next]_vars => [L!Next]_(L!vars)
  <2> SUFFICES ASSUME Shared, [Next]_vars PROVE [L!Next]_(L!vars)
    OBVIOUS
  <2> USE LoopHeadIsPhase DEF PpuDue
  <2>0. irr \in SUBSET I!RegisterBits /\ irr' \in SUBSET I!RegisterBits
    BY SharedKept DEF Shared
  <2>1. CASE CpuStep
    BY <2>0, <2>1, CpuStepShared DEF L!Next, L!CpuStep, L!OthersWriteIrr, L!lcdVars, lcdVars
  <2>2. CASE TimerStep("timer", "ppu") \/ TimerStep("irq_timer", "irq_ppu")
    BY <2>0, <2>2 DEF TimerStep, L!Next, L!Others, L!OthersWriteIrr, L!lcdVars, lcdVars
  <2>3. CASE PpuStep("ppu", "irq") \/ PpuStep("irq_ppu", LoopHead(cycles_this_frame))
    <3>1. PpuDue # 0 /\ L!ppu_step(PpuDue)
      BY <2>3, CyclesAreDue DEF PpuStep, Shared
    <3>2. PpuDue' = 0
      BY <2>3 DEF PpuStep
    <3> QED BY <3>1, <3>2 DEF L!Next, L!Step
  <2>4. CASE NoDispatch
    BY <2>4 DEF NoDispatch, I!NothingPending, I!WakeOnly, deviceVars, L!vars, L!lcdVars, lcdVars
  <2>5. CASE RunInterrupt
    BY <2>0, <2>5, DispatchCharged, DispatchClears
       DEF CycleCounts, L!Next, L!CpuStep, L!OthersWriteIrr, L!lcdVars, lcdVars
  <2>6. CASE EndFrame
    BY <2>6 DEF EndFrame, deviceVars, L!vars, L!lcdVars, lcdVars
  <2>7. CASE KeyCallback
    BY <2>0, <2>7 DEF KeyCallback, loopVars, deviceVars, L!Next, L!Others, L!OthersWriteIrr, L!lcdVars, lcdVars
  <2>8. CASE UNCHANGED vars
    BY <2>8 DEF vars, loopVars, deviceVars, L!vars, L!lcdVars, lcdVars
  <2>9. CASE Exit
    BY <2>9 DEF Exit, I!cpu_step_exit, deviceVars, L!vars, L!lcdVars, lcdVars
  <2> QED BY <2>1, <2>2, <2>3, <2>4, <2>5, <2>6, <2>7, <2>8, <2>9 DEF Next, Loop
<1> QED BY <1>1, <1>2, AlwaysShared, PTL DEF Spec, LcdInLoop

(* And the timer one Timer allows: each instruction's and each dispatch's    *)
(* cycles once, also when the frame ends between the two.                     *)
THEOREM TimerFitsLoop == Spec => TimerInLoop
<1>1. Init => T!Init
  BY DEF Init, TimerDue, T!Init
<1>2. Shared /\ [Next]_vars => [T!Next]_(T!vars)
  <2> SUFFICES ASSUME Shared, [Next]_vars PROVE [T!Next]_(T!vars)
    OBVIOUS
  <2> USE LoopHeadIsPhase DEF TimerDue
  <2>0. irr \in SUBSET I!RegisterBits /\ irr' \in SUBSET I!RegisterBits
    BY SharedKept DEF Shared
  <2>1. CASE CpuStep
    BY <2>0, <2>1, CpuStepShared DEF T!Next, T!CpuStep, T!OthersWriteIrr, T!timerVars, timerVars
  <2>2. CASE TimerStep("timer", "ppu") \/ TimerStep("irq_timer", "irq_ppu")
    <3>1. TimerDue # 0 /\ T!timer_step(TimerDue)
      BY <2>2, CyclesAreDue DEF TimerStep, Shared
    <3>2. TimerDue' = 0
      BY <2>2 DEF TimerStep
    <3> QED BY <3>1, <3>2 DEF T!Next, T!Step
  <2>3. CASE PpuStep("ppu", "irq") \/ PpuStep("irq_ppu", LoopHead(cycles_this_frame))
    BY <2>0, <2>3 DEF PpuStep, T!Next, T!Others, T!OthersWriteIrr, T!timerVars, timerVars
  <2>4. CASE NoDispatch
    BY <2>4 DEF NoDispatch, I!NothingPending, I!WakeOnly, deviceVars, T!vars, T!timerVars, timerVars
  <2>5. CASE RunInterrupt
    <3>1. UNCHANGED timerVars
      BY <2>5 DEF RunInterrupt, deviceVars
    <3> QED BY <2>0, <2>5, <3>1, DispatchCharged
            DEF CycleCounts, T!Next, T!CpuStep, T!OthersWriteIrr, T!timerVars, timerVars
  <2>6. CASE EndFrame
    BY <2>6 DEF EndFrame, deviceVars, T!vars, T!timerVars, timerVars
  <2>7. CASE KeyCallback
    BY <2>0, <2>7 DEF KeyCallback, loopVars, deviceVars, T!Next, T!Others, T!OthersWriteIrr, T!timerVars, timerVars
  <2>8. CASE UNCHANGED vars
    BY <2>8 DEF vars, loopVars, deviceVars, T!vars, T!timerVars, timerVars
  <2>9. CASE Exit
    BY <2>9 DEF Exit, I!cpu_step_exit, deviceVars, T!vars, T!timerVars, timerVars
  <2> QED BY <2>1, <2>2, <2>3, <2>4, <2>5, <2>6, <2>7, <2>8, <2>9 DEF Next, Loop
<1> QED BY <1>1, <1>2, AlwaysShared, PTL DEF Spec, TimerInLoop

(* Where a phase is in the terms of Interrupts, now and after a step.        *)
LEMMA LoopPointOfPhase ==
  /\ phase \in {"timer", "ppu"} => LoopPoint = "devices"
  /\ phase = "irq" => LoopPoint = "irq"
  /\ phase \in {"irq_timer", "irq_ppu"} => LoopPoint = "irq_devices"
  /\ phase \in {"cpu", "frame", "closed"} => LoopPoint = "cpu"
  /\ phase = "exited" => LoopPoint = "exited"
  BY Zenon DEF LoopPoint

LEMMA NextLoopPointOfPhase ==
  /\ phase' \in {"timer", "ppu"} => LoopPoint' = "devices"
  /\ phase' = "irq" => LoopPoint' = "irq"
  /\ phase' \in {"irq_timer", "irq_ppu"} => LoopPoint' = "irq_devices"
  /\ phase' \in {"cpu", "frame", "closed"} => LoopPoint' = "cpu"
  /\ phase' = "exited" => LoopPoint' = "exited"
  BY Zenon DEF LoopPoint

(* It gives interrupt control the environment Interrupts allows: requests of *)
(* the devices between cpu_step and cpu_run_interrupts and after a dispatch,  *)
(* those of keys when an instruction is next.                                 *)
THEOREM InterruptsFitLoop == Spec => InterruptsInLoop
<1>1. Init => I!Init
  BY LoopPointOfPhase DEF Init, I!Init
<1>2. Shared /\ [Next]_vars => [I!Next]_(I!vars)
  <2> SUFFICES ASSUME Shared, [Next]_vars PROVE [I!Next]_(I!vars)
    OBVIOUS
  <2> USE LoopHeadIsPhase, LoopPointOfPhase, NextLoopPointOfPhase
  <2>1. CASE CpuStep
    <3>1. \/ I!cpu_step_halted
          \/ \E op \in I!Ops : I!cpu_step(op)
          \/ \E v \in IeWrites : I!cpu_step_write_ie(v)
          \/ \E v \in IrrWrites : I!cpu_step_write_irr(v)
      BY <2>1 DEF CpuStep, Instruction, I!Ops
    <3> QED BY <2>1, <3>1 DEF CpuStep, I!Next, I!Loop, I!CpuStep, I!Goto
  <2>2. ASSUME NEW n, T!timer_step(n) PROVE I!DeviceRequests
    BY <2>2, TimerRequests DEF I!DeviceRequests, I!cpu_req_interrupt, I!Peripheral
  <2>3. ASSUME NEW n, L!ppu_step(n) PROVE I!DeviceRequests
    BY <2>3, LcdRequests DEF I!DeviceRequests, I!cpu_req_interrupt, I!Peripheral
  <2>4. CASE TimerStep("timer", "ppu") \/ TimerStep("irq_timer", "irq_ppu")
    BY <2>2, <2>4 DEF TimerStep, I!Next, I!DeviceStep, cpuVars, I!cpuVars
  <2>5. CASE PpuStep("ppu", "irq") \/ PpuStep("irq_ppu", LoopHead(cycles_this_frame))
    BY <2>3, <2>5 DEF PpuStep, I!Next, I!Loop, I!DevicesDone, I!Goto, cpuVars, I!cpuVars
  <2>6. CASE NoDispatch
    BY <2>6 DEF NoDispatch, I!Next, I!Loop, I!RunInterrupts, I!Goto
  <2>7. CASE RunInterrupt
    BY <2>7, DispatchCharged, DispatchClears DEF I!Next, I!Loop, I!RunInterrupts, I!Goto
  <2>8. CASE EndFrame
    BY <2>8 DEF EndFrame, I!vars, I!cpuVars, cpuVars
  <2>9. CASE KeyCallback
    BY <2>9 DEF KeyCallback, loopVars, I!Next, I!KeyCallback, cpuVars, I!cpuVars
  <2>10. CASE UNCHANGED vars
    BY <2>10 DEF vars, loopVars, I!vars, I!cpuVars, cpuVars, Shared, Phases
  <2>11. CASE Exit
    BY <2>11 DEF Exit, I!Next, I!Loop, I!Exit, I!Goto
  <2> QED BY <2>1, <2>4, <2>5, <2>6, <2>7, <2>8, <2>9, <2>10, <2>11 DEF Next, Loop
<1> QED BY <1>1, <1>2, AlwaysShared, PTL DEF Spec, InterruptsInLoop

------------------------------------------------------------------------------
(* What was proved of the timer, the LCD and interrupt control alone holds of the    *)
(* machine the loop makes of them: the loop's behaviours are behaviours of   *)
(* each, and the proofs of the parts do not need the fairness of their       *)
(* specifications.                                                            *)

TP == INSTANCE TimerProofs WITH IrrBits <- I!RegisterBits, due <- TimerDue
LP == INSTANCE LcdProofs WITH IrrBits <- I!RegisterBits, due <- PpuDue
IP == INSTANCE InterruptsProofs WITH at <- LoopPoint

------------------------------------------------------------------------------
(* TP, LP and IP have the definitions of T, L and I, under the names of their own   *)
(* modules.                                                                   *)

LEMMA TimerAssumed == TP!TimerAssumption
  BY EmulatorAssumption DEF T!TimerAssumption, TP!TimerAssumption

LEMMA LcdAssumed == LP!LcdAssumption
  BY EmulatorAssumption DEF L!LcdAssumption, L!Stat, L!StatFlags, LP!LcdAssumption, LP!Stat, LP!StatFlags

LEMMA InterruptsAssumed == IP!InterruptsAssumption
  BY EmulatorAssumption DEF I!InterruptsAssumption, I!RegisterBits, I!Interrupt,
                            IP!InterruptsAssumption, IP!RegisterBits, IP!Interrupt

LEMMA SameTimerStep == [T!Next]_(T!vars) => [TP!Next]_(TP!vars)
  BY Zenon
     DEF T!Next, T!vars, T!timerVars, T!CpuStep, T!ProgramWrite, T!WriteDIV, T!WriteTMC, T!WriteTIMA, T!WriteTMA,
         T!Byte, T!Tmc, T!timer_reset, T!OthersWriteIrr, T!Step, T!Others, T!timer_step, T!timer_divider_step,
         T!WrapInt, T!timer_wait, T!timer_tick, T!tima_overflow, T!tima_increment, T!is_clk_enabled,
         T!timer_get_period, T!elapsed,
         TP!Next, TP!vars, TP!timerVars, TP!CpuStep, TP!ProgramWrite, TP!WriteDIV, TP!WriteTMC, TP!WriteTIMA,
         TP!WriteTMA, TP!Byte, TP!Tmc, TP!timer_reset, TP!OthersWriteIrr, TP!Step, TP!Others, TP!timer_step,
         TP!timer_divider_step, TP!WrapInt, TP!timer_wait, TP!timer_tick, TP!tima_overflow, TP!tima_increment,
         TP!is_clk_enabled, TP!timer_get_period, TP!elapsed

LEMMA SameLcdStep == [L!Next]_(L!vars) => [LP!Next]_(LP!vars)
  BY Zenon
     DEF L!Next, L!vars, L!lcdVars, L!CpuStep, L!ProgramWrite, L!WriteSCLN, L!WriteLCDC, L!WriteLYC,
         L!WriteSTAT, L!OthersWriteIrr, L!Step, L!Others, L!ppu_step, L!lcd_update_status_off, L!MidLine,
         L!VisibleLineOver, L!VBlankBegins, L!VBlankLineOver, L!FrameWraps, L!LineOver, L!lcd_update_status,
         L!next_stat, L!stat_requests, L!mode_request, L!coincidence_request, L!mode_int, L!next_mode,
         L!reported_mode, L!LCDS_H_BLANK, L!LCDS_V_BLANK, L!LCDS_SEARCHING, L!LCDS_TRANSFER,
         LP!Next, LP!vars, LP!lcdVars, LP!CpuStep, LP!ProgramWrite, LP!WriteSCLN, LP!WriteLCDC, LP!WriteLYC,
         LP!WriteSTAT, LP!OthersWriteIrr, LP!Step, LP!Others, LP!ppu_step, LP!lcd_update_status_off,
         LP!MidLine, LP!VisibleLineOver, LP!VBlankBegins, LP!VBlankLineOver, LP!FrameWraps, LP!LineOver,
         LP!lcd_update_status, LP!next_stat, LP!stat_requests, LP!mode_request, LP!coincidence_request,
         LP!mode_int, LP!next_mode, LP!reported_mode, LP!LCDS_H_BLANK, LP!LCDS_V_BLANK, LP!LCDS_SEARCHING,
         LP!LCDS_TRANSFER

LEMMA SameInterruptsStep == [I!Next]_(I!vars) => [IP!Next]_(IP!vars)
  BY Zenon
     DEF I!Next, I!vars, I!cpuVars, I!Loop, I!CpuStep, I!Goto, I!cpu_step_halted, I!cpu_step,
         I!cpu_step_write_ie, I!cpu_step_write_irr, I!Ops, I!ProgramMay, I!InHandler, I!exec, I!exec_ei,
         I!exec_di, I!exec_reti, I!exec_other, I!ime_now, I!cpu_pop_short, I!cpu_req_interrupt, I!pending,
         I!Serviced, I!Priority, I!Interrupt, I!Peripheral, I!RegisterBits, I!NothingPending, I!WakeOnly,
         I!Dispatch, I!DeviceRequests, I!DeviceStep, I!DevicesDone, I!RunInterrupts, I!KeyCallback,
         I!Exit, I!cpu_step_exit,
         IP!Next, IP!vars, IP!cpuVars, IP!Loop, IP!CpuStep, IP!Goto, IP!cpu_step_halted, IP!cpu_step,
         IP!cpu_step_write_ie, IP!cpu_step_write_irr, IP!Ops, IP!ProgramMay, IP!InHandler, IP!exec,
         IP!exec_ei, IP!exec_di, IP!exec_reti, IP!exec_other, IP!ime_now, IP!cpu_pop_short,
         IP!cpu_req_interrupt, IP!pending, IP!Serviced, IP!Priority, IP!Interrupt, IP!Peripheral,
         IP!RegisterBits, IP!NothingPending, IP!WakeOnly, IP!Dispatch, IP!DeviceRequests, IP!DeviceStep,
         IP!DevicesDone, IP!RunInterrupts, IP!KeyCallback, IP!Exit, IP!cpu_step_exit

LEMMA MachineRunsTimer == Spec => TP!Run
<1>1. T!Init => TP!Init
  BY DEF T!Init, TP!Init
<1> QED BY <1>1, SameTimerStep, TimerFitsLoop, PTL DEF TimerInLoop, TP!Run

LEMMA MachineRunsLcd == Spec => LP!Run
<1>1. L!Init => LP!Init
  BY DEF L!Init, LP!Init
<1> QED BY <1>1, SameLcdStep, LcdFitsLoop, PTL DEF LcdInLoop, LP!Run

LEMMA MachineRunsInterrupts == Spec => IP!Run
<1>1. I!Init => IP!Init
  BY DEF I!Init, IP!Init
<1> QED BY <1>1, SameInterruptsStep, InterruptsFitLoop, PTL DEF InterruptsInLoop, IP!Run

------------------------------------------------------------------------------
(* In the machine, the timer is never a period behind at a rate no           *)
(* instruction and no dispatch outlasts, whatever rates were set before.      *)
THEOREM MachineTimerIsPrompt == Spec => []T!NoBacklogAtPromptRate
<1>1. TP!NoBacklogAtPromptRate => T!NoBacklogAtPromptRate
  BY DEF TP!NoBacklogAtPromptRate, T!NoBacklogAtPromptRate, TP!Prompt, T!Prompt,
         TP!timer_get_period, T!timer_get_period
<1> QED BY <1>1, MachineRunsTimer, TimerAssumed, TP!NeverBacklog, PTL

(* In the machine, TIMA and timer_ctr are one counter of cycles that counts  *)
(* those of every instruction, halted step and dispatch once, but for the     *)
(* overflow of an int IntervalTimer concedes at rates that are not prompt.    *)
THEOREM MachineTimesIntervals == Spec => T!ImplementsIntervalTimer
<1>1. TP!IT!Init => T!IT!Init
  BY DEF TP!IT!Init, T!IT!Init
<1>2. [TP!IT!Next]_(TP!IT!vars) => [T!IT!Next]_(T!IT!vars)
  BY Zenon
     DEF T!IT!vars, T!IT!Next, T!IT!Count, T!IT!Run, T!IT!Idle, T!IT!Elapse, T!IT!Expire, T!IT!SetCount,
         T!IT!SetRate, T!IT!SetReload, T!IT!OthersWriteIrr, T!IT!MayBeLate, T!IT!P, T!IT!Full, T!IT!Byte,
         T!IT!Wrap, TP!IT!Wrap,
         TP!IT!vars, TP!IT!Next, TP!IT!Count, TP!IT!Run, TP!IT!Idle, TP!IT!Elapse, TP!IT!Expire,
         TP!IT!SetCount, TP!IT!SetRate, TP!IT!SetReload, TP!IT!OthersWriteIrr, TP!IT!MayBeLate, TP!IT!P,
         TP!IT!Full, TP!IT!Byte
<1> QED BY <1>1, <1>2, MachineRunsTimer, TimerAssumed, TP!AlwaysIntervalTimer, PTL
     DEF TP!ImplementsIntervalTimer, T!ImplementsIntervalTimer, TP!IT!Spec, T!IT!Spec

(* In the machine, no line of a frame is skipped, whatever the program does  *)
(* to the LCD and whatever interrupts it takes.                               *)
THEOREM MachineDrawsLinesInOrder == Spec => []L!LinesAboveDrawn
<1>1. LP!LinesAboveDrawn => L!LinesAboveDrawn
  BY DEF LP!LinesAboveDrawn, L!LinesAboveDrawn
<1> QED BY <1>1, MachineRunsLcd, LcdAssumed, LP!LinesAlwaysInOrder, PTL

(* In the machine, a handler the program has let in is not interrupted,      *)
(* unless it executes EI with interrupts on; EI lets none in before the next *)
(* instruction and DI none at all; and HALT sleeps on nothing pending.        *)
THEOREM MachineMasksInterrupts ==
  Spec => [](I!DIHolds /\ I!EIDelayed /\ I!HandlersNotNested /\ I!HaltMeansNothingPending)
<1>1. /\ IP!DIHolds => I!DIHolds
      /\ IP!EIDelayed => I!EIDelayed
      /\ IP!HandlersNotNested => I!HandlersNotNested
      /\ IP!HaltMeansNothingPending => I!HaltMeansNothingPending
  BY DEF IP!DIHolds, I!DIHolds, IP!EIDelayed, I!EIDelayed, IP!HandlersNotNested, I!HandlersNotNested,
         IP!HaltMeansNothingPending, I!HaltMeansNothingPending, IP!pending, I!pending
<1>2. /\ Spec => []IP!DIHolds
      /\ Spec => []IP!EIDelayed
      /\ Spec => []IP!HandlersNotNested
      /\ Spec => []IP!HaltMeansNothingPending
  BY MachineRunsInterrupts, InterruptsAssumed, IP!DIAlwaysFinal, IP!EIAlwaysDelayed, IP!NeverNested,
     IP!HaltAlwaysSound, PTL
<1> QED BY <1>1, <1>2, PTL

(* In the machine, no request is lost between the devices that make it and   *)
(* the dispatch that serves it, and the first of the enabled ones is served. *)
THEOREM MachineLosesNoRequest == Spec => I!NoRequestLost
<1> DEFINE Kept == \A i \in irr \ irr' :
             \/ LoopPoint = "cpu"
             \/ /\ pc' = i
                /\ ime /\ i \in ie
                /\ \A n \in DOMAIN I!Priority :
                     I!Priority[n] = i =>
                       \A m \in 1 .. n - 1 : I!Priority[m] \notin I!pending
           KeptAlone == \A i \in irr \ irr' :
             \/ LoopPoint = "cpu"
             \/ /\ pc' = i
                /\ ime /\ i \in ie
                /\ \A n \in DOMAIN IP!Priority :
                     IP!Priority[n] = i =>
                       \A m \in 1 .. n - 1 : IP!Priority[m] \notin IP!pending
<1>1. [KeptAlone]_(IP!vars) => [Kept]_(I!vars)
  BY Zenon DEF I!Priority, IP!Priority, I!pending, IP!pending, I!vars, IP!vars, I!cpuVars, IP!cpuVars
<1>2. Spec => [][KeptAlone]_(IP!vars)
  BY MachineRunsInterrupts, InterruptsAssumed, IP!RequestsAlwaysKept, PTL DEF IP!NoRequestLost
<1> QED BY <1>1, <1>2, PTL DEF I!NoRequestLost
===============================================================================
