-------------------------------- MODULE Timer --------------------------------
(***************************************************************************)
(* The timer of src/timer.c: the divider register DIV and the programmable  *)
(* timer TIMA/TMA/TMC, advanced by timer_step(cycles) after every CPU       *)
(* instruction and reached by the program through the write traps of        *)
(* mem_write_byte.                                                          *)
(*                                                                          *)
(* Registers are io[] entries: div, tima, tma and tmc; tmc keeps the two    *)
(* fields the code reads, bit 2 (enabled) and bits 0-1 (select).  irr is    *)
(* the interrupt request register, shared with the other devices, as the    *)
(* set of its bits that are 1.                                              *)
(***************************************************************************)
EXTENDS Integers

CONSTANTS
  ByteMod,       (* number of values of an 8-bit register: 256             *)
  IntMax,        (* largest C int: 2^31 - 1                                *)
  DividerPeriod, (* the literal 64 of timer_divider_step                   *)
  Period,        (* timer_get_period's switch: 256, 4, 16, 64              *)
  CycleCounts,   (* cycle counts the main loop passes to timer_step        *)
  IrrBits        (* bits of the interrupt request register                 *)

ASSUME TimerAssumption ==
  /\ ByteMod \in Nat \ {0}
  /\ IntMax \in Nat
  /\ DividerPeriod \in 1 .. IntMax
  /\ Period \in [0 .. 3 -> Nat \ {0}]
  /\ CycleCounts \subseteq 1 .. (IntMax - DividerPeriod)
  /\ \A s \in 0 .. 3, c \in CycleCounts : Period[s] + c <= IntMax
  /\ "TIMER" \in IrrBits

VARIABLES
  timer_ctr,     (* cycles not yet turned into TIMA increments; like       *)
                 (* divider_ctr a C int, which overflows                    *)
  divider_ctr,   (* cycles since power-on: nothing ever subtracts from it  *)
  div, tima, tma, tmc,
  irr,
  due            (* cycles the CPU has taken and timer_step is yet to get  *)

timerVars == <<timer_ctr, divider_ctr, div, tima, tma, tmc>>
vars      == <<timerVars, irr, due>>

Byte == 0 .. ByteMod - 1
Tmc  == [enabled : BOOLEAN, select : 0 .. 3]

Init ==
  /\ timer_ctr = 0
  /\ divider_ctr = 0
  /\ div = 0
  /\ tima = 0
  /\ tma = 0
  /\ tmc = [enabled |-> FALSE, select |-> 0]
  /\ irr = {}
  /\ due = 0

------------------------------------------------------------------------------
(* The device. *)

is_clk_enabled(t)   == t.enabled
timer_get_period(t) == Period[t.select]

(* C int addition in the Makefile's builds (no -O, sanitizers that do not  *)
(* stop the program): two's complement wrap-around.                        *)
CInt == -(IntMax + 1) .. IntMax
WrapInt(n) == IF n > IntMax THEN n - 2 * (IntMax + 1) ELSE n

(* Mutant: the divider compares for equality. *)
timer_divider_step_equal(cycles) ==
  /\ divider_ctr' = WrapInt(divider_ctr + cycles)
  /\ div' = IF divider_ctr' = DividerPeriod THEN (div + 1) % ByteMod ELSE div

(* "divider_ctr -= 0" leaves the counter alone, so past the first period   *)
(* DIV moves on every call, until the int wraps to the negative numbers.   *)
timer_divider_step(cycles) ==
  /\ divider_ctr' = WrapInt(divider_ctr + cycles)
  /\ div' = IF divider_ctr' >= DividerPeriod THEN (div + 1) % ByteMod ELSE div

(* TIMA passes 0xFF: reload from TMA and request the timer interrupt. *)
tima_overflow ==
  /\ tima = ByteMod - 1
  /\ tima' = tma
  /\ irr' = irr \cup {"TIMER"}

(* Mutant: TIMA is incremented without looking for 0xFF. *)
tima_increment_unchecked == tima' = tima + 1 /\ UNCHANGED irr

tima_increment ==
  /\ tima # ByteMod - 1
  /\ tima' = tima + 1
  /\ UNCHANGED irr

(* "timer_ctr += cycles"                                                    *)
elapsed(cycles) == WrapInt(timer_ctr + cycles)

(* Mutant: a tick clears the counter, and the cycles past the period with it. *)
timer_tick_clears(cycles) ==
  /\ elapsed(cycles) >= timer_get_period(tmc)
  /\ timer_ctr' = 0
  /\ tima_overflow \/ tima_increment

(* At most one period is consumed per call, however many have elapsed. *)
timer_tick(cycles) ==
  /\ elapsed(cycles) >= timer_get_period(tmc)
  /\ timer_ctr' = elapsed(cycles) - timer_get_period(tmc)
  /\ tima_overflow \/ tima_increment

(* Mutant: only the cycles of the last instruction count. *)
timer_wait_forgets(cycles) ==
  /\ elapsed(cycles) < timer_get_period(tmc)
  /\ timer_ctr' = 0
  /\ UNCHANGED <<tima, irr>>

timer_wait(cycles) ==
  /\ elapsed(cycles) < timer_get_period(tmc)
  /\ timer_ctr' = elapsed(cycles)
  /\ UNCHANGED <<tima, irr>>

timer_step(cycles) ==
  /\ timer_divider_step(cycles)
  /\ \/ /\ ~is_clk_enabled(tmc)
        /\ UNCHANGED <<timer_ctr, tima, irr>>
     \/ /\ is_clk_enabled(tmc)
        /\ timer_wait(cycles) \/ timer_tick(cycles)
  /\ UNCHANGED <<tma, tmc>>

------------------------------------------------------------------------------
(* The program's stores, as mem_write_byte handles them. *)

(* Mutant: a store to TMC keeps the cycles counted at the old rate. *)
timer_reset_skipped == UNCHANGED timer_ctr

timer_reset == timer_ctr' = 0

WriteDIV == div' = 0 /\ UNCHANGED <<timer_ctr, divider_ctr, tima, tma, tmc, irr>>

WriteTMC(t) ==
  /\ tmc' = t
  /\ timer_reset
  /\ UNCHANGED <<divider_ctr, div, tima, tma, irr>>

WriteTIMA(v) == tima' = v /\ UNCHANGED <<timer_ctr, divider_ctr, div, tma, tmc, irr>>
WriteTMA(v)  == tma' = v /\ UNCHANGED <<timer_ctr, divider_ctr, div, tima, tmc, irr>>

ProgramWrite ==
  \/ WriteDIV
  \/ \E t \in Tmc : WriteTMC(t)
  \/ \E v \in Byte : WriteTIMA(v) \/ WriteTMA(v)

(* The other devices, interrupt dispatch and stores to IF. *)
OthersWriteIrr == irr' \in SUBSET IrrBits /\ UNCHANGED timerVars

(* An instruction, which may store to a register, or a dispatch: the loop    *)
(* then owes timer_step its cycles.                                           *)
CpuStep ==
  /\ due = 0
  /\ ProgramWrite \/ OthersWriteIrr
  /\ due' \in CycleCounts

Step == due # 0 /\ timer_step(due) /\ due' = 0

Others == OthersWriteIrr /\ UNCHANGED due

Next == CpuStep \/ Step \/ Others

Spec == Init /\ [][Next]_vars /\ WF_vars(CpuStep) /\ WF_vars(Step)

------------------------------------------------------------------------------
(* Properties. *)

TypeOK ==
  /\ timer_ctr \in CInt
  /\ divider_ctr \in CInt
  /\ div \in Byte
  /\ tima \in Byte
  /\ tma \in Byte
  /\ tmc \in Tmc
  /\ irr \in SUBSET IrrBits
  /\ due \in {0} \cup CycleCounts

(* A rate is prompt when no instruction lasts longer than its period.  With *)
(* the values of the code only select = 1 (period 4) is not.                *)
Prompt(t) == \A c \in CycleCounts : c <= timer_get_period(t)

(* At a prompt rate TIMA is never behind: less than one period of cycles is *)
(* waiting in timer_ctr, which is never negative there either.  It relies on *)
(* the single "timer_ctr -= period" per call and on timer_reset clearing what *)
(* another rate had accumulated, or an overflow had left.                     *)
NoBacklogAtPromptRate == Prompt(tmc) => timer_ctr \in 0 .. timer_get_period(tmc) - 1

(* TIMA and timer_ctr together are one counter of cycles that overflows     *)
(* after ByteMod - TMA periods; every cycle due to it is counted once, but   *)
(* for an int overflow at a rate that is not prompt.                         *)
IT == INSTANCE IntervalTimer
        WITH credit <- tima * Period[tmc.select] + timer_ctr
ImplementsIntervalTimer == IT!Spec

(* While the timer is left running it keeps interrupting: the reload from   *)
(* TMA always leads to another overflow, and after the int has wrapped       *)
(* timer_ctr climbs back to a period.                                        *)
LeftRunning == <>[]tmc.enabled /\ <>[][Step \/ UNCHANGED timerVars]_vars
Overflow    == Step /\ is_clk_enabled(tmc) /\ tima_overflow
TimerKeepsFiring == LeftRunning => []<><<Overflow>>_vars

(* DIV never stops for good: even after divider_ctr has wrapped to the      *)
(* negative numbers it climbs back and DIV moves again.                     *)
DivKeepsMoving == []<><<Step /\ div' # div>>_vars
==============================================================================
