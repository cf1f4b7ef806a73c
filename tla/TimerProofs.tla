----------------------------- MODULE TimerProofs -----------------------------
(***************************************************************************)
(* Proofs about Timer, for every byte width, int width, table of periods    *)
(* and set of instruction durations that TimerAssumption allows.            *)
(***************************************************************************)
EXTENDS Timer, TLAPS

(* The behaviours of Spec without its fairness, which safety does not need   *)
(* and a composition need not give.                                           *)
Run == Init /\ [][Next]_vars

(* C's addition stays an int.                                               *)
LEMMA WrapIntInRange ==
  ASSUME NEW n \in CInt, NEW c \in CycleCounts
  PROVE  WrapInt(n + c) \in CInt
  BY TimerAssumption DEF WrapInt, CInt

(* Every rate has a positive period.                                        *)
LEMMA PeriodPositive ==
  ASSUME NEW t \in Tmc
  PROVE  timer_get_period(t) \in Nat /\ timer_get_period(t) > 0
  BY TimerAssumption DEF timer_get_period, Tmc

(* A call of timer_step keeps every register and counter in its range.      *)
LEMMA StepType ==
  ASSUME TypeOK, NEW cycles \in CycleCounts, timer_step(cycles),
         due' \in {0} \cup CycleCounts
  PROVE  TypeOK'
<1>1. cycles \in 1 .. (IntMax - DividerPeriod) /\ cycles \in Nat
  BY TimerAssumption
<1>2. divider_ctr' \in CInt
  BY WrapIntInRange DEF TypeOK, timer_step, timer_divider_step
<1>3. div' \in Byte
  BY TimerAssumption DEF TypeOK, timer_step, timer_divider_step, Byte
<1>4. tma' \in Byte /\ tmc' \in Tmc
  BY DEF TypeOK, timer_step
<1>5. timer_ctr' \in CInt /\ tima' \in Byte /\ irr' \in SUBSET IrrBits
  <2>1. CASE ~is_clk_enabled(tmc)
    BY <2>1 DEF TypeOK, timer_step
  <2>0. elapsed(cycles) \in CInt
    BY WrapIntInRange DEF TypeOK, elapsed
  <2>2. CASE is_clk_enabled(tmc) /\ timer_wait(cycles)
    BY <2>0, <2>2 DEF TypeOK, timer_wait
  <2>3. CASE is_clk_enabled(tmc) /\ timer_tick(cycles)
    <3>1. timer_get_period(tmc) \in Nat
      BY PeriodPositive DEF TypeOK
    <3>2. timer_ctr' \in CInt
      BY <2>0, <2>3, <3>1, TimerAssumption DEF timer_tick, CInt
    <3>3. tima' \in Byte /\ irr' \in SUBSET IrrBits
      BY <2>3, TimerAssumption DEF TypeOK, timer_tick, tima_overflow, tima_increment, Byte
    <3> QED BY <3>2, <3>3
  <2> QED BY <2>1, <2>2, <2>3 DEF timer_step
<1> QED BY <1>2, <1>3, <1>4, <1>5 DEF TypeOK

(* So does a store of the program, and anything done to irr alone.          *)
LEMMA OtherStepType ==
  ASSUME TypeOK, ProgramWrite \/ OthersWriteIrr \/ UNCHANGED vars,
         due' \in {0} \cup CycleCounts
  PROVE  TypeOK'
<1>1. CASE WriteDIV
  BY <1>1, TimerAssumption DEF TypeOK, WriteDIV, Byte, CInt
<1>2. CASE \E t \in Tmc : WriteTMC(t)
  BY <1>2, TimerAssumption DEF TypeOK, WriteTMC, timer_reset, CInt
<1>3. CASE \E v \in Byte : WriteTIMA(v) \/ WriteTMA(v)
  BY <1>3 DEF TypeOK, WriteTIMA, WriteTMA
<1>4. CASE OthersWriteIrr
  BY <1>4 DEF TypeOK, OthersWriteIrr, timerVars
<1>5. CASE UNCHANGED vars
  BY <1>5 DEF TypeOK, vars, timerVars
<1> QED BY <1>1, <1>2, <1>3, <1>4, <1>5 DEF ProgramWrite

LEMMA TypeAlways == Run => []TypeOK
<1>1. Init => TypeOK
  BY TimerAssumption DEF Init, TypeOK, Byte, Tmc, CInt
<1>2. TypeOK /\ [Next]_vars => TypeOK'
  <2> SUFFICES ASSUME TypeOK, [Next]_vars PROVE TypeOK'
    OBVIOUS
  <2>1. due \in {0} \cup CycleCounts
    BY DEF TypeOK
  <2>2. CASE Step
    BY <2>1, <2>2, StepType DEF Step
  <2>3. CASE CpuStep \/ Others \/ UNCHANGED vars
    BY <2>1, <2>3, OtherStepType DEF CpuStep, Others, vars
  <2> QED BY <2>2, <2>3 DEF Next
<1> QED BY <1>1, <1>2, PTL DEF Run

(* Registers stay bytes and both counters stay C ints, wrapping where the    *)
(* code's additions overflow: after an addition, timer_step subtracts at most *)
(* a period, and only when one has elapsed, which leaves no negative remainder.*)
THEOREM TypeCorrect == Spec => []TypeOK
  BY TypeAlways, PTL DEF Run, Spec

------------------------------------------------------------------------------
(* One call of timer_step does not let a backlog appear at a prompt rate.   *)
LEMMA StepBacklog ==
  ASSUME TypeOK, NoBacklogAtPromptRate,
         NEW cycles \in CycleCounts, timer_step(cycles)
  PROVE  NoBacklogAtPromptRate'
<1> SUFFICES ASSUME Prompt(tmc') PROVE timer_ctr' \in 0 .. timer_get_period(tmc') - 1
  BY DEF NoBacklogAtPromptRate
<1>1. tmc' = tmc
  BY DEF timer_step
<1>2. timer_ctr \in 0 .. timer_get_period(tmc) - 1 /\ cycles <= timer_get_period(tmc)
  BY <1>1 DEF NoBacklogAtPromptRate, Prompt
<1>3. cycles \in Nat /\ timer_get_period(tmc) \in Nat
      /\ timer_get_period(tmc) + cycles <= IntMax
  BY TimerAssumption, PeriodPositive DEF TypeOK, Tmc, timer_get_period
<1>4. elapsed(cycles) = timer_ctr + cycles
  BY <1>2, <1>3, TimerAssumption DEF elapsed, WrapInt
<1>5. CASE UNCHANGED timer_ctr
  BY <1>1, <1>2, <1>5
<1>6. CASE timer_wait(cycles)
  BY <1>1, <1>2, <1>3, <1>4, <1>6 DEF timer_wait
<1>7. CASE timer_tick(cycles)
  BY <1>1, <1>2, <1>3, <1>4, <1>7 DEF timer_tick
<1> QED BY <1>5, <1>6, <1>7 DEF timer_step

(* Nor does anything else: a new rate starts from zero.                     *)
LEMMA OtherStepBacklog ==
  ASSUME TypeOK, TypeOK', NoBacklogAtPromptRate,
         ProgramWrite \/ OthersWriteIrr \/ UNCHANGED vars
  PROVE  NoBacklogAtPromptRate'
<1>1. CASE \E t \in Tmc : WriteTMC(t)
  <2>1. timer_ctr' = 0
    BY <1>1 DEF WriteTMC, timer_reset
  <2>2. timer_get_period(tmc') \in Nat /\ timer_get_period(tmc') > 0
    BY PeriodPositive DEF TypeOK
  <2> QED BY <2>1, <2>2 DEF NoBacklogAtPromptRate
<1>2. CASE UNCHANGED <<timer_ctr, tmc>>
  BY <1>2 DEF NoBacklogAtPromptRate, Prompt, timer_get_period
<1> QED
  BY <1>1, <1>2 DEF ProgramWrite, WriteDIV, WriteTIMA, WriteTMA, OthersWriteIrr,
                    vars, timerVars

LEMMA NeverBacklog == Run => []NoBacklogAtPromptRate
<1>1. Init => NoBacklogAtPromptRate
  BY TimerAssumption DEF Init, NoBacklogAtPromptRate, timer_get_period
<1>2. TypeOK /\ TypeOK' /\ NoBacklogAtPromptRate /\ [Next]_vars => NoBacklogAtPromptRate'
  <2> SUFFICES ASSUME TypeOK, TypeOK', NoBacklogAtPromptRate, [Next]_vars
               PROVE  NoBacklogAtPromptRate'
    OBVIOUS
  <2>1. CASE Step
    BY <2>1, StepBacklog DEF Step, TypeOK
  <2>2. CASE CpuStep \/ Others \/ UNCHANGED vars
    BY <2>2, OtherStepBacklog DEF CpuStep, Others
  <2> QED BY <2>1, <2>2 DEF Next
<1> QED BY <1>1, <1>2, TypeAlways, PTL DEF Run

(* timer_step's single subtraction per call is enough at every rate whose   *)
(* period is not shorter than an instruction: TIMA is never late there, and  *)
(* the counter never negative.                                               *)
THEOREM NoBacklog == Spec => []NoBacklogAtPromptRate
  BY NeverBacklog, PTL DEF Run, Spec

------------------------------------------------------------------------------
(* Arithmetic of whole periods.                                             *)
LEMMA Distribute ==
  \A a, b, p \in Int : (a + b) * p = a * p + b * p
  OBVIOUS

(* More periods take at least as long.                                      *)
LEMMA ScaleMonotone ==
  ASSUME NEW a \in Int, NEW b \in Int, NEW p \in Nat, a <= b
  PROVE  a * p <= b * p
<1>1. b * p = a * p + (b - a) * p
  BY Distribute
<1>2. (b - a) * p >= 0
  OBVIOUS
<1>3. a * p \in Int /\ b * p \in Int /\ (b - a) * p \in Int
  OBVIOUS
<1> QED BY <1>1, <1>2, <1>3

(* One count more is one period more.                                       *)
LEMMA NextPeriod ==
  ASSUME NEW a \in Nat, NEW p \in Nat
  PROVE  (a + 1) * p = a * p + p
<1>1. (a + 1) * p = a * p + 1 * p
  BY Distribute
<1>2. 1 * p = p
  OBVIOUS
<1> QED BY <1>1, <1>2

Credit == tima * Period[tmc.select] + timer_ctr

(* timer_step counts the cycles due to the interval timer.                  *)
LEMMA StepRefines ==
  ASSUME TypeOK, TypeOK', NoBacklogAtPromptRate,
         NEW cycles \in CycleCounts, timer_step(cycles),
         due = cycles, due # 0, due' = 0
  PROVE  IT!Next
<1> SUFFICES IT!Idle \/ IT!Elapse \/ IT!Wrap \/ IT!Expire
  BY DEF IT!Next, IT!Count
<1> DEFINE P    == Period[tmc.select]
           Full == ByteMod * P
<1>1. tmc' = tmc /\ tma' = tma
  BY DEF timer_step
<1>2. cycles \in Nat /\ timer_ctr \in Int /\ timer_ctr' \in Int /\ IntMax \in Nat
      /\ tima \in Nat /\ tma \in Nat /\ P \in Nat /\ P > 0 /\ ByteMod \in Nat
      /\ timer_ctr <= IntMax /\ P + cycles <= IntMax
  BY TimerAssumption, PeriodPositive DEF TypeOK, Byte, Tmc, CInt, timer_get_period
<1>3. IT!MayBeLate \/ timer_ctr + cycles <= IntMax
  <2> SUFFICES ASSUME ~IT!MayBeLate PROVE timer_ctr + cycles <= IntMax
    OBVIOUS
  <2>1. Prompt(tmc)
    BY <1>2, TimerAssumption DEF IT!MayBeLate, IT!P, Prompt, timer_get_period
  <2> HIDE DEF P
  <2> QED BY <1>2, <2>1 DEF NoBacklogAtPromptRate, timer_get_period, P
<1>4. CASE ~is_clk_enabled(tmc)
  BY <1>1, <1>4 DEF Credit, IT!Idle, is_clk_enabled, timer_step
<1>5. CASE is_clk_enabled(tmc) /\ timer_wait(cycles) /\ timer_ctr + cycles > IntMax
  <2>1. timer_ctr' = (timer_ctr + cycles) - 2 * (IntMax + 1) /\ UNCHANGED <<tima, irr>>
    BY <1>5 DEF timer_wait, elapsed, WrapInt
  <2>2. tima * P \in Nat
    BY <1>2
  <2>3. Credit = tima * P + timer_ctr /\ Credit' = tima * P + timer_ctr'
    BY <1>1, <2>1 DEF Credit
  <2>4. Credit + cycles > IntMax /\ Credit' = Credit + cycles - 2 * (IntMax + 1)
    <3> HIDE DEF Full, P
    <3> QED BY <1>2, <1>5, <2>1, <2>2, <2>3
  <2>5. IT!MayBeLate
    BY <1>2, <1>3, <1>5
  <2>6. IT!Wrap
    BY <1>1, <1>5, <2>1, <2>4, <2>5 DEF Credit, IT!Wrap, is_clk_enabled
  <2> QED BY <2>6
<1>6. CASE is_clk_enabled(tmc) /\ timer_wait(cycles) /\ timer_ctr + cycles <= IntMax
  <2>1. timer_ctr' = timer_ctr + cycles /\ timer_ctr' < P /\ UNCHANGED <<tima, irr>>
    BY <1>2, <1>6 DEF timer_wait, timer_get_period, elapsed, WrapInt
  <2>2. Credit' = Credit + cycles
    <3>1. tima * P \in Int
      BY <1>2
    <3> QED BY <1>1, <1>2, <2>1, <3>1 DEF Credit
  <2>3. Credit + cycles < Full
    <3>1. tima + 1 <= ByteMod
      BY <1>2 DEF TypeOK, Byte
    <3>2. (tima + 1) * P <= Full
      BY <1>2, <3>1, ScaleMonotone
    <3>3. (tima + 1) * P = tima * P + P
      BY <1>2, NextPeriod
    <3>4. tima * P \in Int /\ Full \in Int /\ (tima + 1) * P \in Int
      BY <1>2
    <3>5. Credit + cycles = tima * P + timer_ctr'
      BY <1>2, <2>1, <3>4 DEF Credit
    <3> HIDE DEF Full, P
    <3> QED BY <1>2, <2>1, <3>2, <3>3, <3>4, <3>5
  <2>4. IT!Elapse
    BY <1>1, <1>6, <2>1, <2>2, <2>3
       DEF Credit, IT!Elapse, IT!Full, IT!P, is_clk_enabled
  <2> QED BY <2>4
<1>7. timer_tick(cycles) => elapsed(cycles) = timer_ctr + cycles
  BY <1>2 DEF timer_tick, timer_get_period, elapsed, WrapInt
<1>8. CASE is_clk_enabled(tmc) /\ timer_tick(cycles) /\ tima_increment
  <2>1. timer_ctr + cycles >= P /\ timer_ctr' = (timer_ctr + cycles) - P
        /\ tima' = tima + 1 /\ UNCHANGED irr /\ tima + 2 <= ByteMod
    BY <1>2, <1>8, <1>7, TimerAssumption
       DEF timer_tick, tima_increment, timer_get_period, TypeOK, Byte
  <2>2. Credit' = Credit + cycles
    <3>1. (tima + 1) * P = tima * P + P
      BY <1>2, NextPeriod
    <3>2. tima * P \in Int
      BY <1>2
    <3>3. Credit' = (tima + 1) * P + timer_ctr'
      BY <1>1, <2>1 DEF Credit
    <3>4. Credit = tima * P + timer_ctr
      BY DEF Credit
    <3> HIDE DEF P
    <3> QED BY <1>2, <2>1, <3>1, <3>2, <3>3, <3>4
  <2>3. Credit + cycles < Full \/ IT!MayBeLate
    <3> SUFFICES ASSUME ~IT!MayBeLate PROVE Credit + cycles < Full
      OBVIOUS
    <3>1. Prompt(tmc)
      <4>1. \A c \in CycleCounts : c \in Nat
        BY TimerAssumption
      <4> QED BY <1>2, <4>1 DEF IT!MayBeLate, IT!P, Prompt, timer_get_period
    <3>2. timer_ctr' < P
      BY <1>1, <1>2, <3>1, StepBacklog
         DEF NoBacklogAtPromptRate, Prompt, timer_get_period
    <3>3. (tima + 2) * P <= Full
      BY <1>2, <2>1, ScaleMonotone
    <3>4. (tima + 2) * P = tima * P + 2 * P
      BY <1>2, Distribute
    <3>5. tima * P \in Int /\ Full \in Int /\ (tima + 2) * P \in Int
      BY <1>2
    <3>6. Credit = tima * P + timer_ctr
      BY DEF Credit
    <3> HIDE DEF Full, P
    <3> QED BY <1>2, <2>1, <3>2, <3>3, <3>4, <3>5, <3>6
  <2>4. IT!Elapse
    BY <1>1, <1>8, <2>1, <2>2, <2>3
       DEF Credit, IT!Elapse, IT!Full, IT!P, is_clk_enabled
  <2> QED BY <2>4
<1>9. CASE is_clk_enabled(tmc) /\ timer_tick(cycles) /\ tima_overflow
  <2>1. timer_ctr + cycles >= P /\ timer_ctr' = (timer_ctr + cycles) - P
        /\ tima = ByteMod - 1 /\ tima' = tma /\ irr' = irr \cup {"TIMER"}
    BY <1>9, <1>7 DEF timer_tick, tima_overflow, timer_get_period
  <2>2. tima * P = Full - P
    BY <1>2, <2>1, Distribute
  <2>3. tima * P \in Int /\ tma * P \in Int /\ Full \in Int
    BY <1>2
  <2>4. Credit = tima * P + timer_ctr /\ Credit' = tma * P + timer_ctr'
    BY <1>1, <2>1 DEF Credit
  <2>5. Credit + cycles >= Full /\ Credit' = Credit + cycles - Full + tma * P
    <3> HIDE DEF Full, P
    <3> QED BY <1>2, <2>1, <2>2, <2>3, <2>4
  <2>6. IT!Expire
    BY <1>1, <1>9, <2>1, <2>5 DEF Credit, IT!Expire, IT!Full, IT!P, is_clk_enabled
  <2> QED BY <2>6
<1> QED BY <1>2, <1>4, <1>6, <1>8, <1>9, <1>5 DEF timer_step, timer_tick

(* Stores and requests of others map to the interval timer's settings.      *)
LEMMA OtherStepRefines ==
  ASSUME TypeOK, TypeOK', ProgramWrite \/ OthersWriteIrr
  PROVE  IT!SetCount \/ IT!SetRate \/ IT!SetReload \/ IT!OthersWriteIrr
<1>1. CASE \E t \in Tmc : WriteTMC(t)
  <2>1. timer_ctr' = 0 /\ tima' = tima /\ UNCHANGED <<tma, irr>>
    BY <1>1 DEF WriteTMC, timer_reset
  <2>2. tima \in IT!Byte
    BY DEF TypeOK, Byte, IT!Byte
  <2>3. Credit' = tima * Period[tmc'.select]
    <3>1. tima * Period[tmc'.select] \in Int
      BY TimerAssumption DEF TypeOK, Byte, Tmc
    <3> QED BY <2>1, <3>1 DEF Credit
  <2>4. IT!SetRate
    BY <2>1, <2>2, <2>3 DEF IT!SetRate, TypeOK, Tmc, Credit
  <2> QED BY <2>4
<1>2. CASE \E v \in Byte : WriteTIMA(v)
  <2> DEFINE P == Period[tmc.select]
  <2>1. PICK v \in Byte : WriteTIMA(v)
    BY <1>2
  <2>2. tima' = v /\ UNCHANGED <<timer_ctr, tma, tmc, irr>>
    BY <2>1 DEF WriteTIMA
  <2>3. P \in Nat /\ tima \in Nat /\ v \in Nat /\ timer_ctr \in Int /\ v - tima \in -ByteMod .. ByteMod
    BY TimerAssumption DEF TypeOK, Byte, Tmc, CInt
  <2>4. v * P = tima * P + (v - tima) * P
    BY <2>3, Distribute
  <2>5. tima * P \in Int /\ v * P \in Int /\ (v - tima) * P \in Int
    BY <2>3
  <2>6. Credit = tima * P + timer_ctr /\ Credit' = v * P + timer_ctr
    BY <2>2 DEF Credit
  <2>7. Credit' = Credit + (v - tima) * P
    <3> HIDE DEF P
    <3> QED BY <2>3, <2>4, <2>5, <2>6
  <2>8. IT!SetCount
    BY <2>2, <2>3, <2>7 DEF IT!SetCount, IT!P, Credit
  <2> QED BY <2>8
<1>3. CASE \E v \in Byte : WriteTMA(v)
  <2>1. IT!SetReload
    BY <1>3 DEF IT!SetReload, WriteTMA, IT!Byte, Byte
  <2> QED BY <2>1
<1>4. CASE OthersWriteIrr
  <2>1. IT!OthersWriteIrr
    BY <1>4 DEF IT!OthersWriteIrr, OthersWriteIrr, timerVars
  <2> QED BY <2>1
<1>5. CASE WriteDIV
  <2>1. IT!OthersWriteIrr
    BY <1>5 DEF IT!OthersWriteIrr, WriteDIV, TypeOK
  <2> QED BY <2>1
<1> QED BY <1>1, <1>2, <1>3, <1>4, <1>5 DEF ProgramWrite

LEMMA AlwaysIntervalTimer == Run => ImplementsIntervalTimer
<1>1. Init => IT!Init
  BY TimerAssumption DEF Init, IT!Init
<1>2. TypeOK /\ TypeOK' /\ NoBacklogAtPromptRate /\ [Next]_vars => [IT!Next]_(IT!vars)
  <2> SUFFICES ASSUME TypeOK, TypeOK', NoBacklogAtPromptRate, [Next]_vars
               PROVE  [IT!Next]_(IT!vars)
    OBVIOUS
  <2>1. CASE Step
    BY <2>1, StepRefines DEF Step, TypeOK
  <2>2. CASE CpuStep
    <3>1. IT!Run
      BY <2>2, OtherStepRefines DEF CpuStep, IT!Run
    <3> QED BY <3>1 DEF IT!Next
  <2>3. CASE Others
    <3>1. IT!OthersWriteIrr /\ UNCHANGED due
      BY <2>3 DEF Others, OthersWriteIrr, IT!OthersWriteIrr, timerVars
    <3> QED BY <3>1 DEF IT!Next
  <2>4. CASE UNCHANGED vars
    BY <2>4 DEF vars, timerVars, IT!vars
  <2> QED BY <2>1, <2>2, <2>3, <2>4 DEF Next
<1> QED BY <1>1, <1>2, TypeAlways, NeverBacklog, PTL DEF Run, ImplementsIntervalTimer, IT!Spec

(* TIMA and timer_ctr implement one counter that counts every cycle due to  *)
(* it once and expires every ByteMod - TMA periods: exactly so at every      *)
(* prompt rate, late and but for an overflow of the int at the others, for    *)
(* every program.                                                             *)
THEOREM RefinesIntervalTimer == Spec => ImplementsIntervalTimer
  BY AlwaysIntervalTimer, PTL DEF Run, Spec
==============================================================================
