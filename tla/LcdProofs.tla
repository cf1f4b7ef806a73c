------------------------------ MODULE LcdProofs ------------------------------
(***************************************************************************)
(* Proofs about Lcd, for every number and length of lines, every set of     *)
(* instruction durations shorter than a line and every set of stores.       *)
(***************************************************************************)
EXTENDS Lcd, TLAPS

(* The behaviours of Spec without its fairness, which safety does not need   *)
(* and a composition need not give.                                           *)
Run == Init /\ [][Next]_vars

(* What a store may leave in STAT, lcd_update_status may too.               *)
LEMMA NextStatType == TypeOK => next_stat \in Stat
  BY DEF TypeOK, Stat, StatFlags, next_stat, reported_mode, next_mode,
         LCDS_H_BLANK, LCDS_V_BLANK, LCDS_SEARCHING, LCDS_TRANSFER

(* lcd_update_status requests nothing but the STAT interrupt.               *)
LEMMA StatRequestsType == stat_requests \in SUBSET {"STAT"}
  BY DEF stat_requests

(* The end of a line leaves less than a line on the counter.                *)
LEMMA LineOverCounter ==
  ASSUME TypeOK, NEW cycles \in CycleCounts, LineOver(cycles)
  PROVE  /\ scanline_counter' \in 0 .. SCLN_CYCLES
         /\ scanline_counter' < SCLN_CYCLES
         /\ scanline_counter' = scanline_counter + cycles - SCLN_CYCLES
  BY LcdAssumption DEF TypeOK, LineOver

(* A call of ppu_step keeps every register and counter in its range.        *)
LEMMA StepType ==
  ASSUME TypeOK, NEW cycles \in CycleCounts, ppu_step(cycles),
         due' \in {0} \cup CycleCounts
  PROVE  TypeOK'
<1>1. CASE lcd_update_status_off
  BY <1>1, LcdAssumption DEF TypeOK, lcd_update_status_off, Stat
<1>2. CASE lcd_update_status
  <2>1. stat' \in Stat
    BY <1>2, NextStatType DEF lcd_update_status
  <2>2. irr' \in SUBSET IrrBits /\ lyc' \in Nat /\ lcdc_enable' \in BOOLEAN
    BY <1>2, StatRequestsType, LcdAssumption
       DEF TypeOK, ppu_step, lcd_update_status, lcd_update_status_off, LineOver,
           MidLine, VisibleLineOver, VBlankBegins, VBlankLineOver, FrameWraps
  <2>3. scanline_counter' \in 0 .. SCLN_CYCLES
    <3>1. CASE MidLine(cycles)
      BY <3>1, LcdAssumption DEF TypeOK, MidLine
    <3>2. CASE LineOver(cycles)
      BY <3>2, LineOverCounter
    <3> QED
      BY <1>2, <3>1, <3>2
         DEF ppu_step, lcd_update_status, lcd_update_status_off,
             VisibleLineOver, VBlankBegins, VBlankLineOver, FrameWraps
  <2>4. scln' \in 0 .. SCLN_CNT
    <3>1. CASE MidLine(cycles)
      BY <3>1 DEF TypeOK, MidLine
    <3>2. CASE VisibleLineOver(cycles) \/ VBlankBegins(cycles) \/ VBlankLineOver(cycles)
      BY <3>2, LcdAssumption DEF TypeOK, VisibleLineOver, VBlankBegins, VBlankLineOver
    <3>3. CASE FrameWraps(cycles)
      BY <3>3, LcdAssumption DEF FrameWraps
    <3> QED
      BY <1>2, <3>1, <3>2, <3>3 DEF ppu_step, lcd_update_status, lcd_update_status_off
  <2>5. drawn' \in SUBSET (0 .. SCLN_VISIBLE_CNT - 1) /\ restarted' \in BOOLEAN
    <3>1. CASE VisibleLineOver(cycles)
      BY <3>1, LcdAssumption DEF TypeOK, VisibleLineOver
    <3>2. CASE VBlankBegins(cycles)
      BY <3>2 DEF VBlankBegins
    <3>3. CASE UNCHANGED <<drawn, restarted>>
      BY <3>3 DEF TypeOK
    <3> QED
      BY <1>2, <3>1, <3>2, <3>3
         DEF ppu_step, lcd_update_status, lcd_update_status_off,
             MidLine, VBlankLineOver, FrameWraps
  <2> QED BY <2>1, <2>2, <2>3, <2>4, <2>5 DEF TypeOK
<1> QED
  BY <1>1, <1>2 DEF ppu_step, MidLine, LineOver, VisibleLineOver, VBlankBegins,
                    VBlankLineOver, FrameWraps

(* So does a store of the program, and anything done to irr alone.          *)
LEMMA OtherStepType ==
  ASSUME TypeOK, ProgramWrite \/ OthersWriteIrr \/ UNCHANGED vars,
         due' \in {0} \cup CycleCounts
  PROVE  TypeOK'
<1>1. CASE WriteSCLN
  BY <1>1, LcdAssumption DEF TypeOK, WriteSCLN
<1>2. CASE \E on \in BOOLEAN : WriteLCDC(on)
  BY <1>2 DEF TypeOK, WriteLCDC
<1>3. CASE \E v \in LycWrites : WriteLYC(v)
  BY <1>3, LcdAssumption DEF TypeOK, WriteLYC
<1>4. CASE \E v \in StatWrites : WriteSTAT(v)
  BY <1>4, LcdAssumption DEF TypeOK, WriteSTAT
<1>5. CASE OthersWriteIrr
  BY <1>5 DEF TypeOK, OthersWriteIrr, lcdVars
<1>6. CASE UNCHANGED vars
  BY <1>6 DEF TypeOK, vars, lcdVars
<1> QED BY <1>1, <1>2, <1>3, <1>4, <1>5, <1>6 DEF ProgramWrite

(* TypeOK is inductive: the subtraction of unsigned numbers in ppu_step      *)
(* cannot wrap.                                                               *)
LEMMA TypeAlways == Run => []TypeOK
<1>1. Init => TypeOK
  BY LcdAssumption DEF Init, TypeOK, Stat, StatFlags
<1>2. TypeOK /\ [Next]_vars => TypeOK'
  <2> SUFFICES ASSUME TypeOK, [Next]_vars PROVE TypeOK'
    OBVIOUS
  <2>1. due \in {0} \cup CycleCounts
    BY DEF TypeOK
  <2>2. CASE Step
    BY <2>1, <2>2, StepType DEF Step
  <2>3. CASE CpuStep \/ Others \/ UNCHANGED vars
    BY <2>1, <2>3, OtherStepType DEF CpuStep, Others, vars
  <2> QED BY <2>2, <2>3 DEF Next
<1> QED BY <1>1, <1>2, PTL DEF Run

(* LY never leaves 0 .. SCLN_CNT and scanline_counter never exceeds a line. *)
THEOREM TypeCorrect == Spec => []TypeOK
  BY TypeAlways, PTL DEF Run, Spec

------------------------------------------------------------------------------
(* The counter equals a whole line only where lcd_update_status left it so. *)
THEOREM LineClock == Spec => []LineClockInRange
<1>1. Init => LineClockInRange
  BY DEF Init, LineClockInRange
<1>2. TypeOK /\ LineClockInRange /\ [Next]_vars => LineClockInRange'
  <2> SUFFICES ASSUME TypeOK, LineClockInRange, [Next]_vars PROVE LineClockInRange'
    OBVIOUS
  <2>1. ASSUME NEW cycles \in CycleCounts, ppu_step(cycles) PROVE LineClockInRange'
    <3>1. CASE lcd_update_status_off
      BY <3>1 DEF LineClockInRange, lcd_update_status_off
    <3>2. CASE MidLine(cycles)
      BY <3>2, LcdAssumption DEF TypeOK, LineClockInRange, MidLine
    <3>3. CASE LineOver(cycles)
      BY <3>3, LineOverCounter, LcdAssumption DEF LineClockInRange
    <3> QED
      BY <2>1, <3>1, <3>2, <3>3
         DEF ppu_step, VisibleLineOver, VBlankBegins, VBlankLineOver, FrameWraps
  <2>2. CASE ProgramWrite
    BY <2>2 DEF ProgramWrite, LineClockInRange, WriteSCLN, WriteLCDC, WriteLYC, WriteSTAT
  <2>3. CASE OthersWriteIrr \/ UNCHANGED vars
    BY <2>3 DEF OthersWriteIrr, LineClockInRange, vars, lcdVars
  <2>4. CASE Step
    BY <2>1, <2>4 DEF Step, TypeOK
  <2> QED BY <2>2, <2>3, <2>4 DEF Next, CpuStep, Others
<1> QED BY <1>1, <1>2, TypeCorrect, PTL DEF Spec

------------------------------------------------------------------------------
(* LinesAboveDrawn is not inductive: at the wrap to line 1 it needs that     *)
(* line 0 is not expected.  LY is put back to 0 only by the two operations   *)
(* restarted records, and the vblank lines are reached only through the      *)
(* request that forgets them.                                                *)
LineZeroMeansRestart == scln = 0 => restarted
BlankMeansNoRestart  == scln > SCLN_VISIBLE_CNT => ~restarted

FrameInv ==
  /\ LinesAboveDrawn
  /\ LineZeroOnlyAfterRestart
  /\ LineZeroMeansRestart
  /\ BlankMeansNoRestart

(* Every way a call of ppu_step can go keeps FrameInv.                      *)
LEMMA FrameStep ==
  ASSUME TypeOK, FrameInv, NEW cycles \in CycleCounts, ppu_step(cycles)
  PROVE  FrameInv'
<1> USE DEF FrameInv, LinesAboveDrawn, LineZeroOnlyAfterRestart,
            LineZeroMeansRestart, BlankMeansNoRestart
<1>0. scln \in Nat /\ SCLN_VISIBLE_CNT \in Nat \ {0} /\ SCLN_CNT \in Nat
      /\ SCLN_VISIBLE_CNT < SCLN_CNT
  BY LcdAssumption DEF TypeOK
<1>1. CASE lcd_update_status_off
  BY <1>0, <1>1 DEF lcd_update_status_off
<1>2. CASE MidLine(cycles)
  BY <1>0, <1>2 DEF MidLine
<1>3. CASE VisibleLineOver(cycles)
  <2>1. scln' = scln + 1 /\ scln < SCLN_VISIBLE_CNT /\ restarted' = restarted
        /\ drawn' = drawn \cup {scln}
    BY <1>3 DEF VisibleLineOver
  <2>2. ASSUME NEW l \in 0 .. scln' - 1, l > 0 \/ restarted' PROVE l \in drawn'
    <3>1. CASE l = scln
      BY <2>1, <3>1
    <3>2. CASE l \in 0 .. scln - 1
      BY <1>0, <2>1, <2>2, <3>2
    <3> QED BY <1>0, <2>1, <2>2, <3>1, <3>2
  <2> QED BY <1>0, <2>1, <2>2
<1>4. CASE VBlankBegins(cycles)
  BY <1>0, <1>4 DEF VBlankBegins
<1>5. CASE VBlankLineOver(cycles)
  BY <1>0, <1>5 DEF VBlankLineOver
<1>6. CASE FrameWraps(cycles)
  <2>1. scln' = 1 /\ ~restarted /\ restarted' = restarted /\ drawn' = drawn
    BY <1>0, <1>6 DEF FrameWraps
  <2> QED BY <1>0, <2>1
<1> QED BY <1>1, <1>2, <1>3, <1>4, <1>5, <1>6 DEF ppu_step

(* So does every store of the program, at any point of a frame.             *)
LEMMA OtherFrameStep ==
  ASSUME TypeOK, FrameInv, ProgramWrite \/ OthersWriteIrr \/ UNCHANGED vars
  PROVE  FrameInv'
<1> USE DEF FrameInv, LinesAboveDrawn, LineZeroOnlyAfterRestart,
            LineZeroMeansRestart, BlankMeansNoRestart
<1>1. CASE WriteSCLN
  BY <1>1, LcdAssumption DEF WriteSCLN
<1>2. CASE UNCHANGED <<scln, drawn, restarted>>
  BY <1>2
<1> QED
  BY <1>1, <1>2 DEF ProgramWrite, WriteLCDC, WriteLYC, WriteSTAT, OthersWriteIrr,
                    vars, lcdVars

(* What drawn and restarted say of LY holds at every step.                  *)
LEMMA FrameAlways == Run => []FrameInv
<1>1. Init => FrameInv
  BY LcdAssumption DEF Init, FrameInv, LinesAboveDrawn, LineZeroOnlyAfterRestart,
                       LineZeroMeansRestart, BlankMeansNoRestart
<1>2. TypeOK /\ FrameInv /\ [Next]_vars => FrameInv'
  <2> SUFFICES ASSUME TypeOK, FrameInv, [Next]_vars PROVE FrameInv'
    OBVIOUS
  <2>1. CASE Step
    BY <2>1, FrameStep DEF Step, TypeOK
  <2>2. CASE CpuStep \/ Others \/ UNCHANGED vars
    BY <2>2, OtherFrameStep DEF CpuStep, Others
  <2> QED BY <2>1, <2>2 DEF Next
<1> QED BY <1>1, <1>2, TypeAlways, PTL DEF Run

(* FrameInv has it as a conjunct.                                            *)
LEMMA LinesAlwaysInOrder == Run => []LinesAboveDrawn
<1>1. FrameInv => LinesAboveDrawn
  BY DEF FrameInv
<1> QED BY <1>1, FrameAlways, PTL

(* No line of a frame is skipped, line 0 apart, however the program turns   *)
(* the LCD off and on or stores to LY.                                      *)
THEOREM LinesDrawnInOrder == Spec => []LinesAboveDrawn
  BY LinesAlwaysInOrder, PTL DEF Run, Spec

(* Line 0 of the frame buffer is never redrawn by a running LCD.            *)
THEOREM LineZeroSkipped == Spec => []LineZeroOnlyAfterRestart
<1>1. FrameInv => LineZeroOnlyAfterRestart
  BY DEF FrameInv
<1> QED BY <1>1, FrameAlways, PTL DEF Run, Spec

(* LY reaches the line where vblank is requested only with FrameInv's lines  *)
(* above it drawn.                                                            *)
LEMMA FrameAlwaysComplete == Run => VBlankFrameComplete
<1>1. TypeOK /\ FrameInv /\ [Next]_vars
        => [VBlankRequest => 1 .. SCLN_VISIBLE_CNT - 1 \subseteq drawn]_vars
  BY LcdAssumption DEF FrameInv, LinesAboveDrawn, VBlankRequest, VBlankBegins, TypeOK
<1> QED BY <1>1, FrameAlways, TypeAlways, PTL DEF Run, VBlankFrameComplete

(* A vblank interrupt never announces a partly drawn frame.                 *)
THEOREM FrameComplete == Spec => VBlankFrameComplete
  BY FrameAlwaysComplete, PTL DEF Run, Spec

------------------------------------------------------------------------------
(* Positions of the beam: k lines are k * SCLN_CYCLES cycles.               *)
Lines(k) == k * SCLN_CYCLES

(* A number of lines is a number of cycles.                                 *)
LEMMA LinesType == ASSUME NEW k \in Int PROVE Lines(k) \in Int
  BY LcdAssumption DEF Lines

(* One line more is SCLN_CYCLES more.                                       *)
LEMMA NextLine ==
  ASSUME NEW k \in Int
  PROVE  Lines(k + 1) = Lines(k) + SCLN_CYCLES
<1>1. \A a, b, p \in Int : (a + b) * p = a * p + b * p
  OBVIOUS
<1>2. (k + 1) * SCLN_CYCLES = k * SCLN_CYCLES + 1 * SCLN_CYCLES
  BY <1>1, LcdAssumption
<1>3. 1 * SCLN_CYCLES = SCLN_CYCLES
  BY LcdAssumption
<1> QED BY <1>2, <1>3 DEF Lines

(* More lines are at least as many cycles.                                  *)
LEMMA LinesMonotone ==
  ASSUME NEW j \in Int, NEW k \in Int, j <= k
  PROVE  Lines(j) <= Lines(k)
<1>1. \A a, b, p \in Int : (a + b) * p = a * p + b * p
  OBVIOUS
<1>2. k * SCLN_CYCLES = j * SCLN_CYCLES + (k - j) * SCLN_CYCLES
  BY <1>1, LcdAssumption
<1>3. (k - j) * SCLN_CYCLES >= 0
  BY LcdAssumption
<1>4. j * SCLN_CYCLES \in Int /\ k * SCLN_CYCLES \in Int /\ (k - j) * SCLN_CYCLES \in Int
  BY LcdAssumption
<1> QED BY <1>2, <1>3, <1>4 DEF Lines

Pos == (scln - 1) * SCLN_CYCLES + scanline_counter

(* ppu_step is a sweep of the beam, or parks it.                            *)
LEMMA StepRefines ==
  ASSUME TypeOK, LineClockInRange, NEW cycles \in CycleCounts, ppu_step(cycles),
         due = cycles, due # 0, due' = 0
  PROVE  R!Next
<1> SUFFICES R!Sweep \/ R!Park
  BY DEF R!Next, R!Move
<1>1. /\ scln \in Nat /\ scln <= SCLN_CNT
      /\ scanline_counter \in Nat /\ scanline_counter <= SCLN_CYCLES
      /\ cycles \in Nat /\ cycles < SCLN_CYCLES
      /\ SCLN_CYCLES \in Nat /\ SCLN_VISIBLE_CNT \in Nat \ {0} /\ SCLN_CNT \in Nat
      /\ SCLN_VISIBLE_CNT < SCLN_CNT
  BY LcdAssumption DEF TypeOK
<1>2. CASE lcd_update_status_off
  <2>1. Pos' = 0
    <3>1. Pos' = (0 - 1) * SCLN_CYCLES + SCLN_CYCLES
      BY <1>2 DEF lcd_update_status_off, Pos
    <3> QED BY <1>1, <3>1
  <2>2. R!Park
    BY <1>2, <2>1 DEF R!Park, lcd_update_status_off, Pos
  <2> QED BY <2>2
<1>3. CASE lcd_update_status
  <2> DEFINE L0 == Lines(scln - 1)
             L1 == Lines(scln)
             L2 == Lines(scln + 1)
             V  == Lines(SCLN_VISIBLE_CNT)
             F  == Lines(SCLN_CNT)
  <2>1. L0 \in Int /\ L1 \in Int /\ L2 \in Int /\ V \in Int /\ F \in Int
    BY <1>1, LinesType
  <2>2. L1 = L0 + SCLN_CYCLES /\ L2 = L1 + SCLN_CYCLES
    BY <1>1, NextLine
  <2>3. V + SCLN_CYCLES <= F
    <3>1. Lines(SCLN_VISIBLE_CNT + 1) = V + SCLN_CYCLES
      BY <1>1, NextLine
    <3> QED BY <1>1, <3>1, LinesMonotone
  <2>4. /\ scln <= SCLN_VISIBLE_CNT => L1 <= V
        /\ scln < SCLN_VISIBLE_CNT => L2 <= V
        /\ scln > SCLN_VISIBLE_CNT => V <= L0
        /\ L1 <= F
        /\ scln < SCLN_CNT => L2 <= F
    BY <1>1, LinesMonotone
  <2>5. Pos = L0 + scanline_counter
    BY DEF Pos, Lines
  <2>6. stat_requests \in SUBSET {"STAT"}
    BY StatRequestsType
  <2>7. lcdc_enable /\ lcdc_enable' = lcdc_enable
    BY <1>3 DEF ppu_step, lcd_update_status, lcd_update_status_off, MidLine, LineOver,
                VisibleLineOver, VBlankBegins, VBlankLineOver, FrameWraps
  <2>8. R!FrameCycles = F /\ R!VBlankPos = V
    BY DEF R!FrameCycles, R!VBlankPos, Lines
  <2>9. SUFFICES Pos' = (IF Pos + cycles < F THEN Pos + cycles ELSE Pos + cycles - F)
                 /\ irr' = irr \cup (IF Pos < V /\ Pos + cycles >= V THEN {"VBLANK"} ELSE {})
                               \cup stat_requests
    <3>1. R!Sweep
      BY <2>6, <2>7, <2>8, <2>9 DEF R!Sweep, R!Advance, R!Request, Pos
    <3> QED BY <3>1
  <2>10. CASE MidLine(cycles)
    <3>1. scanline_counter + cycles < SCLN_CYCLES /\ irr' = irr \cup stat_requests
          /\ scanline_counter' = scanline_counter + cycles /\ scln' = scln
      BY <2>10 DEF MidLine
    <3>2. Pos' = L0 + scanline_counter'
      BY <3>1 DEF Pos, Lines
    <3> HIDE DEF L0, L1, L2, V, F
    <3>3. Pos' = Pos + cycles /\ Pos + cycles < F
      BY <1>1, <2>1, <2>2, <2>4, <2>5, <3>1, <3>2
    <3>4. ~(Pos < V /\ Pos + cycles >= V)
      BY <1>1, <2>1, <2>2, <2>4, <2>5, <3>1
    <3> QED BY <3>1, <3>3, <3>4
  <2>11. CASE LineOver(cycles) /\ scln' = scln + 1
    <3>1. scanline_counter + cycles >= SCLN_CYCLES /\ scanline_counter' < SCLN_CYCLES
          /\ scanline_counter' = scanline_counter + cycles - SCLN_CYCLES
      BY <2>11, LineOverCounter DEF LineOver
    <3>2. Pos' = L1 + scanline_counter'
      BY <1>1, <2>11 DEF Pos, Lines
    <3>3. CASE VisibleLineOver(cycles)
      <4>1. scln < SCLN_VISIBLE_CNT /\ irr' = irr \cup stat_requests
        BY <3>3 DEF VisibleLineOver
      <4> HIDE DEF L0, L1, L2, V, F
      <4>2. Pos' = Pos + cycles /\ Pos + cycles < V
        BY <1>1, <2>1, <2>2, <2>4, <2>5, <3>1, <3>2, <4>1
      <4>3. Pos + cycles < F /\ ~(Pos + cycles >= V)
        BY <1>1, <2>1, <2>3, <2>5, <4>2
      <4> QED BY <4>1, <4>2, <4>3
    <3>4. CASE VBlankBegins(cycles)
      <4>1. scln = SCLN_VISIBLE_CNT /\ irr' = irr \cup stat_requests \cup {"VBLANK"}
        BY <3>4 DEF VBlankBegins
      <4>2. scanline_counter < SCLN_CYCLES
        BY <1>1, <4>1 DEF LineClockInRange
      <4>3. L1 = V
        BY <4>1
      <4> HIDE DEF L0, L1, L2, V, F
      <4>4. Pos' = Pos + cycles /\ Pos + cycles >= V /\ Pos < V /\ Pos + cycles < F
        BY <1>1, <2>1, <2>2, <2>3, <2>5, <3>1, <3>2, <4>2, <4>3
      <4> QED BY <4>1, <4>4
    <3>5. CASE VBlankLineOver(cycles)
      <4>1. scln > SCLN_VISIBLE_CNT /\ scln < SCLN_CNT /\ irr' = irr \cup stat_requests
        BY <3>5 DEF VBlankLineOver
      <4> HIDE DEF L0, L1, L2, V, F
      <4>2. Pos' = Pos + cycles /\ Pos + cycles < F /\ ~(Pos < V)
        BY <1>1, <2>1, <2>2, <2>4, <2>5, <3>1, <3>2, <4>1
      <4> QED BY <4>1, <4>2
    <3>6. CASE FrameWraps(cycles)
      <4>1. scln = SCLN_CNT /\ scln' = 1
        BY <1>1, <3>6 DEF FrameWraps
      <4> QED BY <1>1, <2>11, <4>1
    <3>7. ~(scanline_counter + cycles < SCLN_CYCLES)
      BY <1>1, <3>1
    <3>8. VisibleLineOver(cycles) \/ VBlankBegins(cycles)
          \/ VBlankLineOver(cycles) \/ FrameWraps(cycles)
      BY <1>3, <3>7 DEF ppu_step, lcd_update_status, lcd_update_status_off, MidLine
    <3> QED BY <3>3, <3>4, <3>5, <3>6, <3>8
  <2>12. CASE FrameWraps(cycles)
    <3>1. scln = SCLN_CNT /\ scln' = 1 /\ irr' = irr \cup stat_requests
      BY <1>1, <2>12 DEF FrameWraps
    <3>2. scanline_counter + cycles >= SCLN_CYCLES
          /\ scanline_counter' = scanline_counter + cycles - SCLN_CYCLES
      BY <2>12 DEF FrameWraps, LineOver
    <3>3. Pos' = scanline_counter'
      <4>1. Pos' = (1 - 1) * SCLN_CYCLES + scanline_counter'
        BY <3>1 DEF Pos
      <4> QED BY <1>1, <3>2, <4>1
    <3>4. L1 = F
      BY <3>1
    <3> HIDE DEF L0, L1, L2, V, F
    <3>5. Pos' = Pos + cycles - F /\ Pos + cycles >= F /\ ~(Pos < V)
      BY <1>1, <2>1, <2>2, <2>4, <2>5, <3>1, <3>2, <3>3, <3>4
    <3>6. ~(Pos + cycles < F)
      BY <1>1, <2>1, <2>5, <3>5
    <3> QED BY <3>1, <3>5, <3>6
  <2> QED
    BY <1>3, <2>10, <2>11, <2>12
       DEF ppu_step, lcd_update_status, lcd_update_status_off,
           VisibleLineOver, VBlankBegins, VBlankLineOver
<1> QED
  BY <1>2, <1>3 DEF ppu_step, MidLine, LineOver, VisibleLineOver, VBlankBegins,
                    VBlankLineOver, FrameWraps

(* Stores map to restarting, switching or leaving the beam.                 *)
LEMMA OtherStepRefines ==
  ASSUME TypeOK, ProgramWrite \/ OthersWriteIrr
  PROVE  R!Restart \/ R!Switch \/ R!OthersWriteIrr
<1>1. CASE WriteSCLN
  <2>1. scln \in 0 .. SCLN_CNT /\ scanline_counter \in 0 .. SCLN_CYCLES
        /\ SCLN_CYCLES \in Nat /\ SCLN_CNT \in Nat
    BY LcdAssumption DEF TypeOK
  <2>2. Pos' = (0 - 1) * SCLN_CYCLES + scanline_counter
    BY <1>1 DEF WriteSCLN, Pos
  <2>3. (0 - 1) * SCLN_CYCLES = -SCLN_CYCLES
    BY <2>1
  <2>4. Lines((scln - 1) + 1) = Lines(scln - 1) + SCLN_CYCLES /\ (scln - 1) + 1 = scln
    BY <2>1, NextLine
  <2>5. Pos' = Pos - scln * SCLN_CYCLES
    <3>1. (scln - 1) * SCLN_CYCLES \in Int /\ scln * SCLN_CYCLES \in Int
      BY <2>1
    <3>2. scln * SCLN_CYCLES = (scln - 1) * SCLN_CYCLES + SCLN_CYCLES
      BY <2>4 DEF Lines
    <3> QED BY <2>1, <2>2, <2>3, <3>1, <3>2 DEF Pos
  <2>6. Pos' \in -SCLN_CYCLES .. 0
    BY <2>1, <2>2, <2>3
  <2>7. R!Restart
    BY <1>1, <2>1, <2>5, <2>6 DEF R!Restart, WriteSCLN, Pos
  <2> QED BY <2>7
<1>2. CASE \E on \in BOOLEAN : WriteLCDC(on)
  <2>1. R!Switch
    BY <1>2 DEF R!Switch, WriteLCDC, Pos
  <2> QED BY <2>1
<1>3. CASE OthersWriteIrr
  <2>1. R!OthersWriteIrr
    BY <1>3 DEF R!OthersWriteIrr, OthersWriteIrr, lcdVars, Pos
  <2> QED BY <2>1
<1>4. CASE UNCHANGED <<scln, scanline_counter, lcdc_enable, irr>>
  <2>1. R!OthersWriteIrr
    BY <1>4 DEF R!OthersWriteIrr, Pos, TypeOK
  <2> QED BY <2>1
<1> QED
  BY <1>1, <1>2, <1>3, <1>4 DEF ProgramWrite, WriteLYC, WriteSTAT

(* The scanline machine advances by every cycle due to it while the LCD is   *)
(* on, and requests vblank exactly once per sweep of SCLN_CNT lines, for     *)
(* every program.                                                             *)
THEOREM RefinesRaster == Spec => ImplementsRaster
<1>1. Init => R!Init
  BY LcdAssumption DEF Init, R!Init
<1>2. TypeOK /\ LineClockInRange /\ [Next]_vars => [R!Next]_(R!vars)
  <2> SUFFICES ASSUME TypeOK, LineClockInRange, [Next]_vars PROVE [R!Next]_(R!vars)
    OBVIOUS
  <2>1. CASE Step
    BY <2>1, StepRefines DEF Step, TypeOK
  <2>2. CASE CpuStep
    <3>1. R!Run
      BY <2>2, OtherStepRefines DEF CpuStep, R!Run
    <3> QED BY <3>1 DEF R!Next
  <2>3. CASE Others
    <3>1. R!OthersWriteIrr /\ UNCHANGED due
      BY <2>3 DEF Others, OthersWriteIrr, R!OthersWriteIrr, lcdVars
    <3> QED BY <3>1 DEF R!Next
  <2>4. CASE UNCHANGED vars
    BY <2>4 DEF vars, lcdVars, R!vars
  <2> QED BY <2>1, <2>2, <2>3, <2>4 DEF Next
<1> QED BY <1>1, <1>2, TypeCorrect, LineClock, PTL DEF Spec, ImplementsRaster, R!Spec
==============================================================================
