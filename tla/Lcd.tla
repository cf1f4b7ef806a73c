--------------------------------- MODULE Lcd ---------------------------------
(***************************************************************************)
(* The scanline state machine of src/ppu.c (ppu_step) and src/lcd.c         *)
(* (lcd_update_status): which line the LCD is on, what the STAT register    *)
(* says about it and which interrupts are requested.  Drawing a line is     *)
(* only recorded (drawn); its pixels are not modelled here.                 *)
(*                                                                          *)
(* stat is io[LCD_STAT_ADDR] as its two mode bits and the set of its other  *)
(* named bits; lcdc_enable is bit 7 of LCDC; irr is the interrupt request   *)
(* register, shared with the other devices.                                 *)
(***************************************************************************)
EXTENDS Integers

CONSTANTS
  SCLN_CNT,          (* 154                                                *)
  SCLN_VISIBLE_CNT,  (* 144                                                *)
  SCLN_CYCLES,       (* 456                                                *)
  SEARCHING_BOUNDS,  (* SCLN_CYCLES - 80                                   *)
  TRANSFER_BOUNDS,   (* SEARCHING_BOUNDS - 172                             *)
  CycleCounts,       (* cycle counts the main loop passes to ppu_step      *)
  IrrBits,           (* bits of the interrupt request register             *)
  LycWrites,         (* values the program stores in LYC                   *)
  StatWrites         (* values the program stores in STAT                  *)

StatFlags == {"LYC_LY_EQ", "H_BLANK_INT", "V_BLANK_INT",
              "SEARCHING_INT", "LYC_LY_EQ_INT"}
Stat == [mode : 0 .. 3, flags : SUBSET StatFlags]

ASSUME LcdAssumption ==
  /\ SCLN_VISIBLE_CNT \in Nat \ {0}
  /\ SCLN_CNT \in Nat
  /\ SCLN_VISIBLE_CNT < SCLN_CNT
  /\ SCLN_CYCLES \in Nat
  /\ TRANSFER_BOUNDS \in Nat
  /\ SEARCHING_BOUNDS \in Nat
  /\ CycleCounts \subseteq 1 .. (SCLN_CYCLES - 1)
  /\ {"VBLANK", "STAT"} \subseteq IrrBits
  /\ LycWrites \subseteq Nat
  /\ StatWrites \subseteq Stat

VARIABLES
  scanline_counter,
  scln,          (* LY, io[SCLN_ADDR]                                      *)
  lyc,           (* LYC, io[LCD_LYC_ADDR]                                  *)
  lcdc_enable,
  stat,
  irr,
  due,           (* cycles the CPU has taken and ppu_step is yet to get    *)
  drawn,         (* history: lines drawn since the last vblank request     *)
  restarted      (* history: LY was put back to 0 since then               *)

lcdVars == <<scanline_counter, scln, lyc, lcdc_enable, stat, drawn, restarted>>
vars    == <<lcdVars, irr, due>>

Init ==
  /\ scanline_counter = 0
  /\ scln = 0
  /\ lyc = 0
  /\ lcdc_enable = TRUE
  /\ stat = [mode |-> 0, flags |-> {}]
  /\ irr = {}
  /\ due = 0
  /\ drawn = {}
  /\ restarted = TRUE

------------------------------------------------------------------------------
(* lcd_update_status with the LCD on: what becomes of STAT. *)

LCDS_H_BLANK   == 0
LCDS_V_BLANK   == 1
LCDS_SEARCHING == 2
LCDS_TRANSFER  == 3

next_mode ==
  CASE scln >= SCLN_VISIBLE_CNT -> LCDS_V_BLANK
    [] scln < SCLN_VISIBLE_CNT /\ scanline_counter >= SEARCHING_BOUNDS -> LCDS_SEARCHING
    [] scln < SCLN_VISIBLE_CNT /\ scanline_counter < SEARCHING_BOUNDS
         /\ scanline_counter >= TRANSFER_BOUNDS -> LCDS_TRANSFER
    [] OTHER -> LCDS_H_BLANK

(* The transfer branch also writes LCDS_SEARCHING into STAT. *)
reported_mode == IF next_mode = LCDS_TRANSFER THEN LCDS_SEARCHING ELSE next_mode

(* The enable bit each mode looks at; the transfer branch looks at none. *)
mode_int(mode) ==
  CASE mode = LCDS_H_BLANK   -> {"H_BLANK_INT"}
    [] mode = LCDS_V_BLANK   -> {"V_BLANK_INT"}
    [] mode = LCDS_SEARCHING -> {"SEARCHING_INT"}
    [] OTHER                 -> {}

mode_request ==
  /\ mode_int(next_mode) \cap stat.flags # {}
  /\ next_mode # stat.mode

coincidence_request == scln = lyc /\ "LYC_LY_EQ_INT" \in stat.flags

stat_requests == IF mode_request \/ coincidence_request THEN {"STAT"} ELSE {}

(* Without coincidence "status &= !LCDS_LYC_LY_EQ" ands with 0. *)
next_stat ==
  IF scln = lyc
  THEN [mode |-> reported_mode, flags |-> stat.flags \cup {"LYC_LY_EQ"}]
  ELSE [mode |-> 0, flags |-> {}]

lcd_update_status == lcdc_enable /\ stat' = next_stat

(* With the LCD off "status &= 0xFC | 1" clears bit 1 and keeps bit 0. *)
lcd_update_status_off ==
  /\ ~lcdc_enable
  /\ scanline_counter' = SCLN_CYCLES
  /\ scln' = 0
  /\ stat' = [stat EXCEPT !.mode = @ % 2]
  /\ restarted' = TRUE
  /\ UNCHANGED <<lyc, lcdc_enable, irr, drawn>>

------------------------------------------------------------------------------
(* ppu_step: one action per way a call can go. *)

(* The line goes on. *)
MidLine(cycles) ==
  /\ lcd_update_status
  /\ scanline_counter + cycles < SCLN_CYCLES
  /\ scanline_counter' = scanline_counter + cycles
  /\ irr' = irr \cup stat_requests
  /\ UNCHANGED <<scln, lyc, lcdc_enable, drawn, restarted>>

(* Mutant: the cycles past the end of the line are lost. *)
LineOver_clears(cycles) ==
  /\ lcd_update_status
  /\ scanline_counter + cycles >= SCLN_CYCLES
  /\ scanline_counter' = 0
  /\ UNCHANGED <<lyc, lcdc_enable>>

LineOver(cycles) ==
  /\ lcd_update_status
  /\ scanline_counter + cycles >= SCLN_CYCLES
  /\ scanline_counter' = scanline_counter + cycles - SCLN_CYCLES
  /\ UNCHANGED <<lyc, lcdc_enable>>

(* Mutant: LY is incremented before the line is drawn. *)
VisibleLineOver_early(cycles) ==
  /\ LineOver(cycles)
  /\ scln < SCLN_VISIBLE_CNT
  /\ drawn' = drawn \cup {scln + 1}
  /\ scln' = scln + 1
  /\ irr' = irr \cup stat_requests
  /\ UNCHANGED restarted

VisibleLineOver(cycles) ==
  /\ LineOver(cycles)
  /\ scln < SCLN_VISIBLE_CNT
  /\ drawn' = drawn \cup {scln}
  /\ scln' = scln + 1
  /\ irr' = irr \cup stat_requests
  /\ UNCHANGED restarted

(* Mutant: vblank is requested one line early. *)
VBlankBegins_early(cycles) ==
  /\ LineOver(cycles)
  /\ scln = SCLN_VISIBLE_CNT - 1
  /\ scln' = scln + 1
  /\ irr' = irr \cup stat_requests \cup {"VBLANK"}
  /\ drawn' = {}
  /\ restarted' = FALSE

VBlankBegins(cycles) ==
  /\ LineOver(cycles)
  /\ scln = SCLN_VISIBLE_CNT
  /\ scln' = scln + 1
  /\ irr' = irr \cup stat_requests \cup {"VBLANK"}
  /\ drawn' = {}
  /\ restarted' = FALSE

(* Mutant: nothing stops LY at the last line. *)
VBlankLineOver_unbounded(cycles) ==
  /\ LineOver(cycles)
  /\ scln > SCLN_VISIBLE_CNT
  /\ scln' = scln + 1
  /\ irr' = irr \cup stat_requests
  /\ UNCHANGED <<drawn, restarted>>

VBlankLineOver(cycles) ==
  /\ LineOver(cycles)
  /\ scln > SCLN_VISIBLE_CNT
  /\ scln < SCLN_CNT
  /\ scln' = scln + 1
  /\ irr' = irr \cup stat_requests
  /\ UNCHANGED <<drawn, restarted>>

(* Mutant: LY is set to 0 and the call ends there. *)
FrameWraps_to_zero(cycles) ==
  /\ LineOver(cycles)
  /\ scln >= SCLN_CNT
  /\ scln' = 0
  /\ irr' = irr \cup stat_requests
  /\ UNCHANGED <<drawn, restarted>>

(* Mutant: LY stays at the last line. *)
FrameWraps_stuck(cycles) ==
  /\ LineOver(cycles)
  /\ scln >= SCLN_CNT
  /\ irr' = irr \cup stat_requests
  /\ UNCHANGED <<scln, drawn, restarted>>

(* LY is set to 0 and incremented in the same call, so line 0 is skipped. *)
FrameWraps(cycles) ==
  /\ LineOver(cycles)
  /\ scln >= SCLN_CNT
  /\ scln' = 1
  /\ irr' = irr \cup stat_requests
  /\ UNCHANGED <<drawn, restarted>>

ppu_step(cycles) ==
  \/ lcd_update_status_off
  \/ MidLine(cycles)
  \/ VisibleLineOver(cycles)
  \/ VBlankBegins(cycles)
  \/ VBlankLineOver(cycles)
  \/ FrameWraps(cycles)

------------------------------------------------------------------------------
(* The program's stores, as mem_write_byte handles them. *)

(* Any store to LY puts it to 0. *)
WriteSCLN ==
  /\ scln' = 0
  /\ restarted' = TRUE
  /\ UNCHANGED <<scanline_counter, lyc, lcdc_enable, stat, irr, drawn>>

WriteLCDC(on) ==
  /\ lcdc_enable' = on
  /\ UNCHANGED <<scanline_counter, scln, lyc, stat, irr, drawn, restarted>>

WriteLYC(v) ==
  /\ lyc' = v
  /\ UNCHANGED <<scanline_counter, scln, lcdc_enable, stat, irr, drawn, restarted>>

WriteSTAT(v) ==
  /\ stat' = v
  /\ UNCHANGED <<scanline_counter, scln, lyc, lcdc_enable, irr, drawn, restarted>>

ProgramWrite ==
  \/ WriteSCLN
  \/ \E on \in BOOLEAN : WriteLCDC(on)
  \/ \E v \in LycWrites : WriteLYC(v)
  \/ \E v \in StatWrites : WriteSTAT(v)

(* The other devices, interrupt dispatch and stores to IF. *)
OthersWriteIrr == irr' \in SUBSET IrrBits /\ UNCHANGED lcdVars

(* An instruction, which may store to a register, or a dispatch: the loop    *)
(* then owes ppu_step its cycles.                                             *)
CpuStep ==
  /\ due = 0
  /\ ProgramWrite \/ OthersWriteIrr
  /\ due' \in CycleCounts

Step == due # 0 /\ ppu_step(due) /\ due' = 0

Others == OthersWriteIrr /\ UNCHANGED due

Next == CpuStep \/ Step \/ Others

Spec == Init /\ [][Next]_vars /\ WF_vars(CpuStep) /\ WF_vars(Step)

------------------------------------------------------------------------------
(* Properties. *)

TypeOK ==
  /\ scanline_counter \in 0 .. SCLN_CYCLES
  /\ scln \in 0 .. SCLN_CNT
  /\ lyc \in Nat
  /\ lcdc_enable \in BOOLEAN
  /\ stat \in Stat
  /\ irr \in SUBSET IrrBits
  /\ due \in {0} \cup CycleCounts
  /\ drawn \in SUBSET (0 .. SCLN_VISIBLE_CNT - 1)
  /\ restarted \in BOOLEAN

(* A line never owes more than its length: the counter is below SCLN_CYCLES *)
(* except on line 0, where lcd_update_status left it at SCLN_CYCLES because  *)
(* the LCD was off.                                                          *)
LineClockInRange == scanline_counter = SCLN_CYCLES => scln = 0

(* While LY is on a visible line, every line above it has been drawn since  *)
(* the last vblank request, line 0 only if LY was put back to 0; stores to   *)
(* LY and LCD restarts at any point do not break this.                       *)
LinesAboveDrawn ==
  scln <= SCLN_VISIBLE_CNT =>
    {l \in 0 .. scln - 1 : l > 0 \/ restarted} \subseteq drawn

(* A vblank interrupt is requested by the scanline machine only with a      *)
(* frame_buffer whose lines, from 1 on, are all of the current frame.       *)
VBlankRequest == Step /\ VBlankBegins(due)
VBlankFrameComplete ==
  [][VBlankRequest => 1 .. SCLN_VISIBLE_CNT - 1 \subseteq drawn]_vars

(* Line 0 is drawn only after a restart: FrameWraps goes to line 1.         *)
LineZeroOnlyAfterRestart == 0 \in drawn => restarted

(* The line counter and the cycle counter are one beam position that        *)
(* advances by exactly the cycles due to it and requests vblank once per    *)
(* SCLN_CNT lines.                                                          *)
R == INSTANCE Raster
       WITH pos <- (scln - 1) * SCLN_CYCLES + scanline_counter,
            on  <- lcdc_enable
ImplementsRaster == R!Spec

(* A program that leaves the LCD on and does not store to LY gets vblank    *)
(* requests for ever.                                                       *)
LcdLeftOn == <>[]lcdc_enable /\ <>[][Step \/ UNCHANGED scln]_vars
VBlankKeepsComing == LcdLeftOn => []<><<VBlankRequest>>_vars

------------------------------------------------------------------------------
(* What a comment of src/lcd.c says and the code does not do. *)

(* lcd.c:62, "set coincidence flag": the end of lcd_update_status changes    *)
(* no other flag of STAT.                                                    *)
OnlyCoincidenceFlagSet ==
  [][Step /\ lcdc_enable =>
       stat'.flags \ {"LYC_LY_EQ"} = stat.flags \ {"LYC_LY_EQ"}]_vars
==============================================================================
