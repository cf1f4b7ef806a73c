------------------------------ MODULE Emulator ------------------------------
(***************************************************************************)
(* The emulation loop of src/main.c: cpu_step, timer_step, ppu_step and     *)
(* cpu_run_interrupts called in turn on shared registers, frame after       *)
(* frame.  It composes Interrupts, Timer and Lcd, which share the interrupt *)
(* request register irr; none of them is restated here.                     *)
(*                                                                          *)
(* The loop is single threaded, so phase (the call it makes next) is its    *)
(* program counter.  The only callback, key_callback, runs inside           *)
(* input_poll, between two frames.                                          *)
(***************************************************************************)
EXTENDS Integers, Sequences

CONSTANTS
  CYCLES_PER_FRAME, (* 69905                                               *)
  InstrCycles,      (* durations of instructions: 1 .. 6                   *)
  IrqCycles,        (* the literal 5 charged for a dispatch                *)
  TmcWrites, ByteWrites, LcdcWrites, (* values the program stores          *)
  (* constants of Timer, Lcd and Interrupts *)
  ByteMod, IntMax, DividerPeriod, Period,
  SCLN_CNT, SCLN_VISIBLE_CNT, SCLN_CYCLES, SEARCHING_BOUNDS, TRANSFER_BOUNDS,
  LycWrites, StatWrites,
  IeWrites, IrrWrites, RedundantEI, MaxNesting,
  NSEC,              (* of Pacing                                          *)
  ClockTimes,        (* readings of the clock when a frame starts          *)
  FrameTimes         (* nanoseconds a frame may take                       *)

(* What cpu_step returns while halted. *)
HaltCycles == 1

CycleCounts == InstrCycles \cup {HaltCycles, IrqCycles}

VARIABLES
  phase,             (* the next call of the loop                          *)
  cycles,            (* cycles the next timer_step and ppu_step are given  *)
  cycles_this_frame,
  timer_cycles,      (* history: cycles given to timer_step ...            *)
  ppu_cycles,        (* ... and to ppu_step, less whole frames             *)
  timer_ctr, divider_ctr, div, tima, tma, tmc,
  scanline_counter, scln, lyc, lcdc_enable, stat, drawn, restarted,
  ime, ime_next_cycle, halt, pc, stack, after_ei, after_di, ie,
  irr,
  frame_start_set,   (* frame_start has been assigned                      *)
  pace               (* history: how long the frame just over took and the *)
                     (* loop slept after it                                *)

Phases == {"cpu", "timer", "ppu", "irq", "irq_timer", "irq_ppu", "frame", "closed",
           "exited"}

(* Where this loop is in the terms of Interrupts. *)
LoopPoint ==
  CASE phase \in {"timer", "ppu"}         -> "devices"
    [] phase = "irq"                      -> "irq"
    [] phase \in {"irq_timer", "irq_ppu"} -> "irq_devices"
    [] phase = "exited"                   -> "exited"
    [] OTHER                              -> "cpu"

(* What the loop owes each device. *)
TimerDue == IF phase \in {"timer", "irq_timer"} THEN cycles ELSE 0
PpuDue   == IF phase \in {"timer", "ppu", "irq_timer", "irq_ppu"} THEN cycles ELSE 0

I == INSTANCE Interrupts WITH at <- LoopPoint
T == INSTANCE Timer WITH IrrBits <- I!RegisterBits, due <- TimerDue
L == INSTANCE Lcd WITH IrrBits <- I!RegisterBits, due <- PpuDue
P == INSTANCE Pacing

ASSUME EmulatorAssumption ==
  /\ CYCLES_PER_FRAME \in Nat \ {0}
  /\ InstrCycles \subseteq Nat \ {0}
  /\ IrqCycles \in Nat \ {0}
  /\ T!TimerAssumption
  /\ L!LcdAssumption
  /\ I!InterruptsAssumption
  /\ NSEC \in Nat \ {0}
  /\ ClockTimes \cup FrameTimes \subseteq Nat
  /\ TmcWrites \subseteq T!Tmc
  /\ ByteWrites \subseteq T!Byte
  /\ LcdcWrites \subseteq BOOLEAN

loopVars   == <<phase, cycles, cycles_this_frame, timer_cycles, ppu_cycles>>
timerVars  == <<timer_ctr, divider_ctr, div, tima, tma, tmc>>
lcdVars    == <<scanline_counter, scln, lyc, lcdc_enable, stat, drawn, restarted>>
deviceVars == <<timerVars, lcdVars>>
cpuVars    == <<ime, ime_next_cycle, halt, pc, stack, after_ei, after_di, ie>>
paceVars   == <<frame_start_set, pace>>
vars       == <<loopVars, deviceVars, cpuVars, irr, paceVars>>

(* pace while a frame runs.                                                 *)
Running == [busy |-> 0, slept |-> 0, known |-> FALSE]

Init ==
  /\ phase = "cpu"
  /\ cycles = 0
  /\ cycles_this_frame = 0
  /\ timer_cycles = 0
  /\ ppu_cycles = 0
  /\ frame_start_set = FALSE
  /\ pace = Running
  /\ T!Init
  /\ L!Init
  /\ I!Init

------------------------------------------------------------------------------
(* cpu_step, with the stores to the devices' registers. *)

TimerStore ==
  /\ \/ T!WriteDIV
     \/ \E t \in TmcWrites : T!WriteTMC(t)
     \/ \E v \in ByteWrites : T!WriteTIMA(v) \/ T!WriteTMA(v)
  /\ UNCHANGED lcdVars

LcdStore ==
  /\ \/ L!WriteSCLN
     \/ \E on \in LcdcWrites : L!WriteLCDC(on)
     \/ \E v \in LycWrites : L!WriteLYC(v)
     \/ \E v \in StatWrites : L!WriteSTAT(v)
  /\ UNCHANGED timerVars

Instruction ==
  \/ (\E op \in I!Ops : I!cpu_step(op)) /\ UNCHANGED deviceVars
  \/ (\E v \in IeWrites : I!cpu_step_write_ie(v)) /\ UNCHANGED deviceVars
  \/ (\E v \in IrrWrites : I!cpu_step_write_irr(v)) /\ UNCHANGED deviceVars
  \/ I!cpu_step("OTHER") /\ (TimerStore \/ LcdStore)

(* cycles count for the frame as soon as they are known; the devices get    *)
(* them next.                                                               *)
Charge(n) ==
  /\ cycles' = n
  /\ cycles_this_frame' = cycles_this_frame + n

(* Mutant: a halted cpu_step takes no time. *)
CpuStep_halt_is_free ==
  /\ phase = "cpu"
  /\ phase' = "timer"
  /\ \/ I!cpu_step_halted /\ Charge(0) /\ UNCHANGED deviceVars
     \/ Instruction /\ \E n \in InstrCycles : Charge(n)
  /\ pace' = Running
  /\ UNCHANGED <<timer_cycles, ppu_cycles, frame_start_set>>

CpuStep ==
  /\ phase = "cpu"
  /\ phase' = "timer"
  /\ \/ I!cpu_step_halted /\ Charge(HaltCycles) /\ UNCHANGED deviceVars
     \/ Instruction /\ \E n \in InstrCycles : Charge(n)
  /\ pace' = Running
  /\ UNCHANGED <<timer_cycles, ppu_cycles, frame_start_set>>

(* The instruction ends the process. *)
Exit ==
  /\ phase = "cpu"
  /\ phase' = "exited"
  /\ I!cpu_step_exit
  /\ UNCHANGED <<cycles, cycles_this_frame, timer_cycles, ppu_cycles, deviceVars, paceVars>>

------------------------------------------------------------------------------
(* The devices and the dispatch. *)

(* Mutant: the frame ends one cycle late. *)
LoopHead_late(n) == IF n <= CYCLES_PER_FRAME THEN "cpu" ELSE "frame"

(* "while (cycles_this_frame < CYCLES_PER_FRAME)" *)
LoopHead(n) == IF n < CYCLES_PER_FRAME THEN "cpu" ELSE "frame"

(* Mutant: timer_step is given the frame's cycles. *)
TimerStep_frame_cycles(from, to) ==
  /\ phase = from
  /\ phase' = to
  /\ T!timer_step(cycles_this_frame)
  /\ timer_cycles' = timer_cycles + cycles
  /\ UNCHANGED <<cycles, cycles_this_frame, ppu_cycles, lcdVars, cpuVars, paceVars>>

TimerStep(from, to) ==
  /\ phase = from
  /\ phase' = to
  /\ T!timer_step(cycles)
  /\ timer_cycles' = timer_cycles + cycles
  /\ UNCHANGED <<cycles, cycles_this_frame, ppu_cycles, lcdVars, cpuVars, paceVars>>

(* Mutants: the same for the LCD; the LCD sleeps with the CPU. *)
PpuStep_frame_cycles(from, to) ==
  /\ phase = from
  /\ phase' = to
  /\ L!ppu_step(cycles_this_frame)
  /\ ppu_cycles' = ppu_cycles + cycles
  /\ UNCHANGED <<cycles, cycles_this_frame, timer_cycles, timerVars, cpuVars, paceVars>>

PpuStep_asleep(from, to) ==
  /\ phase = from
  /\ phase' = to
  /\ IF halt THEN UNCHANGED <<lcdVars, irr>> ELSE L!ppu_step(cycles)
  /\ ppu_cycles' = ppu_cycles + cycles
  /\ UNCHANGED <<cycles, cycles_this_frame, timer_cycles, timerVars, cpuVars, paceVars>>

PpuStep(from, to) ==
  /\ phase = from
  /\ phase' = to
  /\ L!ppu_step(cycles)
  /\ ppu_cycles' = ppu_cycles + cycles
  /\ UNCHANGED <<cycles, cycles_this_frame, timer_cycles, timerVars, cpuVars, paceVars>>

NoDispatch ==
  /\ phase = "irq"
  /\ phase' = LoopHead(cycles_this_frame)
  /\ I!NothingPending \/ I!WakeOnly
  /\ UNCHANGED <<cycles, cycles_this_frame, timer_cycles, ppu_cycles, deviceVars, paceVars>>

(* Mutant: the devices are not stepped for a dispatch. *)
RunInterrupt_uncharged ==
  /\ phase = "irq"
  /\ Charge(IrqCycles)
  /\ phase' = LoopHead(cycles_this_frame')
  /\ \E i \in I!RegisterBits : I!Dispatch(i)
  /\ UNCHANGED <<timer_cycles, ppu_cycles, deviceVars, paceVars>>

RunInterrupt ==
  /\ phase = "irq"
  /\ phase' = "irq_timer"
  /\ \E i \in I!RegisterBits : I!Dispatch(i)
  /\ Charge(IrqCycles)
  /\ UNCHANGED <<timer_cycles, ppu_cycles, deviceVars, paceVars>>

------------------------------------------------------------------------------
(* Between two frames. *)

(* Mutant: the joypad request overwrites the others. *)
KeyCallback_overwrites ==
  /\ phase = "frame"
  /\ irr' = {"JOYPAD"}
  /\ UNCHANGED <<loopVars, deviceVars, cpuVars, paceVars>>

KeyCallback ==
  /\ phase = "frame"
  /\ I!cpu_req_interrupt({"JOYPAD"})
  /\ UNCHANGED <<loopVars, deviceVars, cpuVars, paceVars>>

(* The end of the frame is timed against frame_start, which the first frame *)
(* finds unassigned: how long that one sleeps is not known.                 *)
Pace ==
  /\ \E start \in ClockTimes, busy \in FrameTimes :
       pace' = [busy  |-> busy,
                slept |-> P!Slept(P!ToSpec(start), P!ToSpec(start + busy)),
                known |-> frame_start_set]
  /\ frame_start_set' = TRUE

(* The next frame starts with the cycles this one ran over. *)
EndFrame ==
  /\ phase = "frame"
  /\ cycles_this_frame' = cycles_this_frame - CYCLES_PER_FRAME
  /\ timer_cycles' = timer_cycles - CYCLES_PER_FRAME
  /\ ppu_cycles' = ppu_cycles - CYCLES_PER_FRAME
  /\ Pace
  /\ phase' \in {LoopHead(cycles_this_frame'), "closed"}
  /\ UNCHANGED <<cycles, deviceVars, cpuVars, irr>>

Loop ==
  \/ CpuStep
  \/ Exit
  \/ TimerStep("timer", "ppu")
  \/ PpuStep("ppu", "irq")
  \/ NoDispatch
  \/ RunInterrupt
  \/ TimerStep("irq_timer", "irq_ppu")
  \/ PpuStep("irq_ppu", LoopHead(cycles_this_frame))
  \/ EndFrame

Next == Loop \/ KeyCallback

Spec == Init /\ [][Next]_vars /\ WF_vars(Loop)

------------------------------------------------------------------------------
(* Properties. *)

(* "Keep timing intact" (main.c:207): whenever the loop is at its head the  *)
(* timer and the LCD have been given exactly the cycles the frame counter   *)
(* counted, dispatches included.                                            *)
CyclesAgree ==
  phase \in {"cpu", "frame"} =>
    timer_cycles = cycles_this_frame /\ ppu_cycles = cycles_this_frame

(* A frame runs over by less than one instruction and one dispatch, and the *)
(* overrun never accumulates from frame to frame.                           *)
OverrunBounded ==
  /\ phase = "cpu" => cycles_this_frame < CYCLES_PER_FRAME
  /\ \E n \in InstrCycles \cup {HaltCycles} :
       cycles_this_frame < CYCLES_PER_FRAME + n + IrqCycles

(* A frame is followed by a sleep of what its time lacks of a sixtieth of a *)
(* second, and by none when it was late, wherever in a second it began: the *)
(* negative time a late frame passes to clock_nanosleep does no harm.       *)
FramesPaced ==
  pace.known =>
    pace.slept = IF pace.busy <= P!interval THEN P!interval - pace.busy ELSE 0

(* Each component sees in this loop an environment its own specification    *)
(* allows: what its module shows of it alone holds of the whole machine.    *)
TimerInLoop      == T!Init /\ [][T!Next]_(T!vars)
LcdInLoop        == L!Init /\ [][L!Next]_(L!vars)
InterruptsInLoop == I!Init /\ [][I!Next]_(I!vars)

(* Frames are displayed and keys polled until the window is closed or an    *)
(* instruction ends the process, whatever else the program does: halted,    *)
(* with interrupts off or with the LCD off.                                  *)
FramesKeepComing == []<>(phase = "frame") \/ <>(phase \in {"closed", "exited"})

(* A halted CPU that left the LCD on with vblank enabled is woken up: the   *)
(* loop keeps feeding the devices while cpu_step does nothing.              *)
VBlankWakesHalt ==
  halt /\ lcdc_enable /\ "VBLANK" \in ie ~> ~halt \/ phase = "closed"
=============================================================================
