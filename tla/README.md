# gb-emu in TLA+

TLA+ modules, TLC configurations and TLAPS proofs about the Game Boy emulator in
`src/`. The emulator is one C program: a CPU interpreter, a timer, an LCD
controller and a joypad that share the byte arrays of `mem.c`, called in turn by
the loop of `main.c`. There is one thread. What makes the code hard is not
parallelism of the host but the concurrency of the machine it emulates: every
device advances a little after each instruction, all of them set bits of one
interrupt request register, the program may store to any device register between
two steps, and key callbacks arrive between frames.

Paths below are those of the repository (`src/src/...` seen from this directory's
parent).

## 1. Inventory

| component | state | operations | talks to |
|---|---|---|---|
| Emulation loop, `main.c` | `cycles_this_frame`, frame clock | per instruction: `cpu_step`, `timer_step`, `ppu_step`, `cpu_run_interrupts`, after a dispatch the devices again; per frame: draw, poll keys, sleep | all |
| CPU and interrupt control, `cpu.c` | registers, `ime`, `ime_next_cycle`, `halt` | `cpu_step`, `cpu_req_interrupt`, `cpu_run_interrupts` | memory; IF and IE |
| ALU and instruction table, `cpu.c`, `instructions.c` | none (flags, accumulator) | one function per instruction | CPU |
| Timer, `timer.c` | `timer_ctr`, `divider_ctr`, DIV, TIMA, TMA, TMC | `timer_step`, `timer_reset` | requests TIMER |
| LCD status and lines, `lcd.c`, `ppu.c` | `scanline_counter`, LY, LYC, LCDC, STAT, frame buffer | `ppu_step`, `lcd_update_status` | requests VBLANK and STAT |
| Drawing, `ppu.c` | `frame_buffer` | `ppu_draw_scanline` and below | reads VRAM, OAM, registers |
| Memory map, `mem.c` | the arrays, `rom_bank_number` | `mem_read_byte`, `mem_write_byte`, `mem_dma_transfer` | traps of the device registers |
| Joypad, `input.c` | the two nibbles of keys, register P1 | `key_callback`, `input_read` | requests JOYPAD |
| ROM loader, `rom.c` | the file and its header | `rom_load`, `rom_info` | memory |
| Debugger, command line, viewers | breakpoints, flags, windows | blocking prompt in `cpu_step`; drawing between frames | reads only |

What is hard, by component, and the property that makes it right:

* **Loop.** The cycles charged to a frame must be exactly those handed to the
  timer and the LCD, dispatches included; overruns must not pile up from frame to
  frame; a halted CPU must still let the devices run, or nothing ever wakes it.
* **Interrupt control.** Requests arrive at any point between the enable tests.
  EI acts one instruction late, DI at once; dispatch clears `ime` but not
  `ime_next_cycle`; HALT leaves on any common bit of IE and IF. No request may be
  lost, a handler must not be interrupted by accident, nothing may be starved.
* **Timer.** One period at most is consumed per call, the remainder is kept, a
  store to TMC drops it, TIMA reloads from TMA on overflow: no cycle may be lost
  or counted twice.
* **LCD.** Stores to LY and switching the LCD off break into the line machine at any
  point; vblank must still be requested once per frame, for a complete frame.
* **Memory.** Two separate ladders of comparisons have to agree on 65536
  addresses; the bank register must never leave the ROM file.
* **Joypad.** Groups are switched between a press and its release; a change must
  never reach the program unannounced.
* **CPU.** DAA depends on flags left by another instruction; borrow and carry
  arithmetic at the edges of a byte. Lengths, cycles and operands of 500 opcodes are
  typed into a table, partly by overlapping loops, and must fit what `cpu_step` fetches and
  executes. Calls, pushes and interrupts share one stack, which may lie on IF and IE.
* **Drawing.** Every line is drawn with the registers of its own time; positions wrap in
  eight bits, sprites overlap, are transparent and reach over the edges.
* **Pacing.** The rest of a sixtieth of a second is a difference of seconds and
  nanoseconds that is negative for a late frame.

`PROJECT.json` lists these hazards at their lines with the properties that would
catch each going wrong.

## 2. Modules

| module | models | state and actions |
|---|---|---|
| `Timer` | `timer.c`, the timer's part of `mem_write_byte` | `timer_step(cycles)` is the divider and one of `timer_wait`, `timer_tick`; `WriteDIV/TMC/TIMA/TMA` |
| `IntervalTimer` | abstract: TIMA is one counter of cycles, `credit` | `Elapse`, `Expire`, `Wrap`, stores |
| `Lcd` | `ppu_step`, `lcd_update_status` | one action per way through a call: `MidLine`, `VisibleLineOver`, `VBlankBegins`, `VBlankLineOver`, `FrameWraps`, `lcd_update_status_off`; stores to LY, LYC, LCDC, STAT |
| `Raster` | abstract: a beam with one position in cycles | `Sweep`, `Park`, `Restart`, `Switch` |
| `Interrupts` | `ime`, HALT, IE, IF, the handler stack | `cpu_step(op)` for EI, DI, HALT, RET, RETI and everything else as OTHER; `cpu_step_exit`; `cpu_req_interrupt`; `NothingPending`, `WakeOnly`, `Dispatch` |
| `Emulator` | the loop of `main.c`; composes the three above by INSTANCE | `phase` is the next call: `CpuStep`, `Exit`, `TimerStep`, `PpuStep`, `NoDispatch`, `RunInterrupt`, `EndFrame` (with `Pace`), `KeyCallback` |
| `Pacing` | `diff_timespec` and the sleep at the end of a frame | operators on timespecs, used by `Emulator` |
| `Memory` | `mem.c` | one action per region of a store, `StoreBank`, `mem_dma_transfer`, `CartRam` |
| `FlatMemory` | abstract: one array indexed by address | `Store`, `Switch`, `Copy`, `Change` |
| `Joypad` | `input.c` | `Press`, `Release`, `WriteJoypad`; `input_read` is an operator. Its specification is `JoypadSpec`, so that one module can extend it and `Picture` |
| `Alu` | the arithmetic of `cpu.c` | pure operators, flags in and out |
| `AluProgram` | a program of those instructions on the accumulator | `Arithmetic`, `Logic`, `Shift`, `PopFlags`, `Load` |
| `Decode` | the table of `instructions.c` | a set of entries, one per assignment of `instruction_init` |
| `Cpu` | `cpu_step` and `cpu_run_interrupts` on registers and memory | `cpu_step` executes the code at `pc` (`Fetched`, `Executed`, `MoveHL`); `cpu_step_halted`; `cpu_req_interrupt`; `NoInterrupt` and `Dispatch` |
| `CallStack` | abstract: a stack of words and the address execution is at | `PushWord`, `PopWord`, `Call`, `Return`, `Interrupted`, `Jump`, `Overwrite` |
| `Picture` | the drawing of `ppu.c` | `ppu_draw_scanline` (`ppu_draw_bg`, `ppu_draw_sprites`), `FrameOver`, `Store` to registers and OAM between lines |
| `MC*` | values of the constants for TLC | |
| `TimerProofs`, `LcdProofs`, `InterruptsProofs`, `MemoryProofs`, `EmulatorProofs`, `AluProofs`, `CpuProofs` | theorems about the module of that name (`AluProgram` for `AluProofs`) | `EmulatorProofs` also carries theorems of the parts over to the machine, `CpuProofs` is about `Decode`, too |
| `PlayerProofs` | theorems about `Picture` and `Joypad` | what the player sees and presses |

Conventions. A definition has the C function's name where it models one function.
Registers keep their names; a register whose bits the properties tell apart is the
set of its set bits or a record of its fields. A device module has an action
`OthersWriteIrr`, the rest of the machine writing IF, and an input `due`, the cycles
the loop owes it: `CpuStep` sets it, the device's step consumes it, so that a call dropped or
made twice is not a stutter. `Emulator` checks that the real neighbours stay within these. Definitions marked "Mutant" are wrong variants of
the definition below them: substituted for it, each makes the named property of its
run fail, which shows that the property looks at that code. They are used
nowhere else.

### Abstractions

* In `Interrupts` and `Emulator`, instructions other than the six of `Interrupts` change nothing it reads. What the
  ROM does is external code: `ProgramMay` lets it do anything, except that handlers
  end with RETI, RET or EI; RET, only handlers use these as the outermost return,
  and, when `RedundantEI` is FALSE, EI is executed with interrupts off.
  At any instruction the program may meet an undefined opcode, for which `cpu_step` calls exit(1), or an access to cartridge RAM,
  which ends the process as well: `cpu_step_exit`, phase `exited`. Nothing follows it.
  Their stack is one of its own; `Cpu` has the stack in memory, where a push may hit IF and IE.
* `Cpu` keeps IF, IE and some RAM (`Ram`); stores elsewhere are lost and reads give 0, for which device or bank is there is
  the subject of `Memory`. The program is in ROM: any instruction of `code` may be met at any address of `at`, and a
  run ends when PC or SP leave the addresses of the program. The flag `stop` is never read: left out.
* A pixel of `Picture` is where its colour comes from: the address of a row of a tile, a bit, and a palette. The colours
  themselves (`get_color`) are not computed; that sprites are transparent in places is the constant `Clear`.
  Between two lines the program stores to the drawing's registers and OAM; stores to VRAM (`TileMap` is a constant) and to LY are not among
  them: `Lcd` has those to LY.
  A store outside `frame_buffer`, possible for sprites at the edges of the first and last line, changes no pixel.
* Bit 7 of STAT, which the hardware fixes to 1, is not modelled; the code ands it with the rest.
* `timer_ctr` and `divider_ctr` are C ints. The Makefile builds without optimisation, and there
  signed overflow wraps: `WrapInt`, in both. `timer_ctr` reaches it at period 4 only, by instructions of 5 or 6 cycles.
* In `Lcd`, drawing a line is recorded in the history variable `drawn`; its pixels are in `Picture`.
* `ram_enable` is assigned and never read: left out. A serial transfer
  is over at once. The DOCTOR build (fixed LY, a log line per instruction) is not modelled.
* `echo_ram` is declared one byte short of its region. Its last byte is whatever
  the linker put there, in the Makefile's builds padding; the model gives echo RAM that byte.
* Cartridge RAM is never allocated (`ex_ram`, mem.c:15): with a header that declares RAM the
  first access ends the program, `alive` becomes FALSE in `Memory` and nothing follows.
* The clock is read with nothing in between: `Pace` takes the start of a frame and the time it took from the constants.

## 3. Runs

| run | configuration | what it shows |
|---|---|---|
| `timer` | `MCTimer.cfg` | `TypeOK`; `NoBacklogAtPromptRate`: at a rate no instruction outlasts, less than a period is ever waiting, across every change of rate; `ImplementsIntervalTimer`: TIMA and `timer_ctr` are one counter, and every cycle due to it counts once, but for an int's overflow at the rate that is not prompt; `TimerKeepsFiring`, after such an overflow, too; `DivKeepsMoving`, even after `divider_ctr` wraps |
| `lcd` | `MCLcd.cfg` | `LinesAboveDrawn`, `VBlankFrameComplete`: a vblank is requested only for a drawn frame, stores to LY and LCD restarts at any point included; `LineZeroOnlyAfterRestart`: after the first frame line 0 is never redrawn; `ImplementsRaster`: LY and the counter are one position that advances by every cycle due, one vblank per sweep; `VBlankKeepsComing` |
| `lcd_enables` | `MCLcdEnables.cfg` | violation: `lcd_update_status` clears the STAT enables on every line but LYC's (`&= !` at lcd.c:70) |
| `interrupts` | `MCInterrupts.cfg` | `DIHolds`, `EIDelayed`, `HandlersNotNested`, `HaltMeansNothingPending`, `NoRequestLost` (with priorities), `VBlankServed` |
| `emulator` | `MCEmulator.cfg` | `CyclesAgree`, `OverrunBounded`; `FramesPaced`: frame and sleep make a sixtieth of a second, and a late frame is not slept after; `TimerInLoop`, `LcdInLoop`, `InterruptsInLoop`: the loop gives each component an environment its own module allows, so what was shown of it alone holds here; `FramesKeepComing`: until the window is closed or an instruction ends the process; `VBlankWakesHalt` |
| `memory` | `MCMemory.cfg` | `TypeOK`: the bank register names a bank the ROM has; `StoreDecidesBank`; `ImplementsFlatMemory`: read back as a whole, one flat memory with an echo |
| `joypad` | `MCJoypad.cfg` | `KeysReported`, `ChangesAnnounced` |
| `joypad_mask` | `MCJoypadMask.cfg` | violation: ones stored below the group bits hide pressed keys (mask `0xF0a`, input.c:77) |
| `alu` | `MCAlu.cfg` | `DecimalAdjust`: DAA after ADD, ADC, SUB, SBC is decimal arithmetic; `BytesMakeWords`: ADD/ADC chains are ADD HL and LD HL, SP+e; `SubtractionUndone`; `ShiftsUndone` |
| `cpu` | `MCCpu.cfg` | `EveryOpcodeExecutes`: each defined opcode is assigned one instruction (RR's block twice, with the same value, instructions.c:321-322), executed by a case of the switch, with operands that are not the placeholders; `GoesOnBehindOperands`: lengths fit the operands fetched; `CyclesMatchAccesses`: cycles are bytes fetched, read and written and internal steps; `ImplementsCallStack`: memory and SP are a stack on which calls, pushes and interrupts nest, even where it lies on IF and IE |
| `picture` | `MCPicture.cfg` | `BackgroundShown`: map and window are shown pixel by pixel in their place, with the registers of the line; `SpritesShown`: the last of the sprites that is not transparent, where OAM puts it |
| `picture_tall` | `MCPictureTall.cfg` | violation: rows 9 to 15 of a tall sprite are not those of the next tile (ppu.c:179) |

The violation runs state what a comment of the source says and the code does not do;
they are recorded under "findings".

### Bounds

* `timer`: bytes of two values, an int from -12 to 11, periods 7, 2, 4, 5 and instructions of 1
  or 4 cycles. Order matters, not size: one period is shorter than the longest
  instruction (as `select = 1`, period 4 against 6 cycles in the code), three are not; TIMA overflows
  and `divider_ctr` wraps within a few steps. At the one rate that is not prompt `timer_ctr` grows until it wraps, too; nothing else
  bounds it. 11 is the longest period plus the longest instruction, what `TimerAssumption` asks of an int, so that no prompt rate comes near it.
* `lcd`: 5 lines, 3 visible, 6 cycles each, steps of 1 or 2: every phase of a line, every kind of
  line, coincidence on a visible line, and steps that cross a line end with a remainder.
* `interrupts`: three interrupts enabled in different pairs plus one of the unused bits, all requests possible
  at each device step. `MaxNesting` (3) is where the program stops executing EI in handlers; with
  `RedundantEI` FALSE it is never reached, which is `HandlersNotNested`. (The theorems are for either value; of the properties only
  `HandlersNotNested` depends on it.) Deadlock is off because of `cpu_step_exit`.
* `emulator`: a frame of 2 cycles, instructions of 1, a dispatch of 2, 2 lines of 3 cycles, one-valued
  bytes (every tick is an overflow; counting is covered by `timer`), VBLANK and TIMER enabled or not. A
  dispatch crosses the end of a frame and of a line. The period is no shorter than a dispatch, so that `timer_ctr`
  does not wrap here; the int ends at 4. A second has 120 nanoseconds, so a frame two; frames take less than that, more, and over a second, and
  start at either end of a second, so that both differences borrow. Deadlock is off because the window may be closed and
  the process may end.
* `memory`: one address per region, two where banks, echo or pages need it (cartridge RAM is three, one page of it
  inside), two data bytes, one of them the serial start, and two cartridges: MBC1 with 4 banks, and RAM without a mapper.
  Deadlock is off because of `CartRam`.
* `joypad`: two keys of each group, one under the mask and one not, stores that select any groups.
* `alu`: every accumulator, every flag combination, and 35 operands at the edges of digits, signs and bytes.
* `cpu`: two programs. One has all opcodes, each once with the initial registers and with operand bytes that are small or
  negative and name addresses in RAM or not. The other has twelve instructions that move the stack, at five addresses (jump, return and interrupt
  targets among them) and six values of SP, three of which put the stack on IF; IE is behind the first words pushed. VBLANK is requested at
  any point, as often as wanted. All 512 entries of `Decode` and 6000 random executions of `Cpu` were also compared
  with the compiled C.
* `picture`: a screen of 12 by 10 over maps of 4 by 4 tiles (wider than a tile, not so wide as the map; higher than half a tall
  sprite), six settings of the registers, three of OAM and one store per frame, between any two lines. Scrolling wraps in both
  directions, the window begins within the screen and left of it, sprites overlap and cross the edges.

### Fairness

The only fairness is that of the single-threaded loop: it always makes its next call
(`WF` of `CpuStep` and `Step` in `Timer` and `Lcd`, of `Loop` in `Interrupts` and `Emulator`). `while (true)` in
`main.c` justifies it; closing the window is one way out (phase `closed` of `Emulator`), an instruction that ends the process
the other (phase `exited`, and `at = "exited"` in `Interrupts`). `Timer` and `Lcd` alone have neither: their liveness is about a process that goes on. No fairness
is assumed of the program in ROM, of the keys or of the register stores: the liveness
properties name what they need (timer left running, LCD left on, interrupts enabled again and again).

## 4. Proofs

TLAPS proves these for every value of the constants that satisfies the named
assumptions (`TimerAssumption`, `LcdAssumption`, `InterruptsAssumption`, `EmulatorAssumption`, `LayoutAssumption`,
`CartAssumption`, `JoypadAssumption`, `PictureAssumption`, `OperandsAssumption`, `CpuAssumption`); TLC evaluates the assumptions in each run.

* **Timer.** `TypeCorrect`; `NoBacklog`, inductive as it stands since `timer_reset` runs on each
  change of rate; `RefinesIntervalTimer` with `credit = TIMA * period + timer_ctr`: a tick moves one
  period from `timer_ctr` to TIMA and leaves `credit` alone, and only an overflow of TIMA takes anything from it, or one of the int:
  `Wrap`, which the invariant of `NoBacklog` excludes at prompt rates. `TypeCorrect` says that the counters stay ints as they wrap; that
  `timer_ctr` is not negative is true at prompt rates only, and part of `NoBacklog`.
* **Lcd.** `TypeCorrect`; `LineClock`; the lemma `FrameAlways`, a strengthening that says which lines are drawn both
  during and after the visible part, needed because `VBlankFrameComplete` is about a step taken below the visible
  lines; from it `LinesDrawnInOrder`, `LineZeroSkipped`, `FrameComplete`; `RefinesRaster` with
  `pos = (LY - 1) * SCLN_CYCLES + scanline_counter`. `LineClock` is needed there: the one time the counter
  stands at a full line is line 0 after the LCD was off, and that is the start of line 1.
* **Interrupts.** `TypeCorrect` with `StackOK` (only handlers return); `DIFinal`; `MaskInv`: with EI
  executed only while off, interrupts are on or about to be on only when no handler is running or the handler has just
  executed its last EI; from it `NoNesting`. `EIDelay`, from an invariant of its own for programs with redundant EIs as well; `HaltSound`; `RequestsKept`.
* **Emulator.** `DevicesGetEveryCycle` and `OverrunNeverGrows` from an invariant indexed by `phase`: what the frame counter
  has and a device has not is what the loop still owes it, nothing at the head of the loop. `FramesKeepPace`, from the
  arithmetic of the two differences: with NSEC nanoseconds to a second and any times, the seconds borrow what the
  nanoseconds lack. `TimerFitsLoop`, `LcdFitsLoop` and `InterruptsFitLoop` are refinements of the components' own
  specifications (without their fairness): each step of the loop is the component's step, a neighbour's that
  the component allows, or none. They rest on `Shared`, the bits IF can have.
* **The whole machine.** `TimerProofs`, `LcdProofs` and `InterruptsProofs` prove their lemmas of `Run`, the specification without
  fairness; `EmulatorProofs` instantiates them in `Emulator` with the refinements above, so that
  `MachineTimesIntervals` (the refinement of `IntervalTimer`, through `Timer`), `MachineTimerIsPrompt`, `MachineDrawsLinesInOrder`, `MachineMasksInterrupts` and `MachineLosesNoRequest` hold of the composed machine without
  being proved again.
* **Memory.** `TypeCorrect`: the bank register stays in the mask; `BankDecided`; `RefinesFlatMemory`: one lemma per
  region says that the array a store writes is the one the read ladder finds at that address, and no other,
  for any layout whose regions follow one another and whose OAM starts a page.
* **Joypad.** `TypeCorrect`; `BitsFollowKeys`, each nibble is the complement of the keys held; from it
  `SelectedGroupRead`; `NoSilentChange`.
* **Picture.** `LinesAlwaysDrawn`, the inductive invariant: on every line drawn in this frame each pixel is what drawing that line put
  there, `Undisturbed` by the sprites of later lines, which the linear `frame_buffer` lets reach over a side. Registers and sprites are those
  remembered in `shown`, so that no store in between matters. The two properties then speak of one line at a time:
  1. `BackgroundAlwaysShown`. The code goes from a pixel to a tile, with a remainder and a quotient in each direction; the property from a
     tile to a pixel. `Parts` (quotient and remainder are unique) and `Wraps` (what scrolling takes away modulo the map
     comes back) join them; `TileLocated` says that a signed tile number finds the same tile as an offset in its area.
  2. `SpritesAlwaysShown`. `SpritesOfLine`: the sprites drawn into a cell are those over the pixel that are not transparent there, and
     `FrontSprite`: the last of them is one, by well-foundedness of the numbers of OAM, since the library's `Max` is a CHOOSE.

  They hold for every size of screen and map, every content of VRAM, all transparency and any sequence of stores. Of the constants
  `PictureAssumption` says that both maps are in VRAM (`TileMap` is a function on their addresses), tile numbers are bytes and OAM is a sequence of entries.
* **Alu.** The program's registers stay bytes and flags (every operation is total on them), so each result about all bytes
  and flags holds of every program. `SubtractionAlwaysUndone`: two sums modulo 256 cancel. `ShiftsAlwaysUndone`: a
  byte is its top or bottom bit and seven others. `BytesAlwaysMakeWords`: a sum of two bytes wraps at most once, and what wraps is
  what ADC adds above. `DecimalAlwaysAdjusted`: digit by digit, 6 and 96 are what turns a carry at 16 into one at 10; the test for
  more than 153 sees the upper digit before the lower one's carry, and still decides right.
* **Instruction table.** `TableFollowsBits`: the entries of `instruction_init`, written as it assigns them, in columns, blocks and
  overlapping loops, are 512 with an index each, and each is the instruction the bits of its opcode stand for
  (`ByBits`, a definition by quarter, row and column that only the proofs use). One direction goes entry by entry: every one is that of
  its bits, so no index is assigned two. The other goes by place: every quarter, row and column has an entry.
* **Cpu.** The argument has four layers, the first two without a state:
  1. `FetchedFits`: every instruction that `cpu_step` can fetch, from any three bytes, has the operands, length and cycles that its case of the
     switch takes. Read off `TableFollowsBits`, quarter by quarter.
  2. `OutcomeEffect`: from a sound machine, what `cpu_step` does is a push, a pop, a call, a return, a jump or none of these,
     leaves a sound machine, and buries no word of the stack but those stored over. `WriteByte`, `PushShort` and `PopShort` are the lemmas about
     memory it rests on: SP wraps, a push may hit IF and IE, and a store may hit the stack.
  3. `StateAlwaysOK`, the inductive invariant `StateOK`: every register, flag and byte keeps its width, and the words counted as on the
     stack lie one above the other below 65536, all of them in memory that keeps what is stored. Without the second half a return could read
     a word that was lost, and with SP beyond the top of memory the words would not follow one another.
  4. From these `CallsNest`, the refinement of `CallStack`: a step is the one the kind of its effect names, a request or an interrupt the
     store or the push that it is; `EveryOpcodeIsExecuted`, `AlwaysGoesOnBehindOperands` and `CyclesAlwaysMatchAccesses`.

  They hold for every ROM (any set of `Programs`: any code at any addresses with any values of SP) and any `Ram`, of which
  `CpuAssumption` says that it has IF and IE and nothing below 0x8000: a store to ROM selects a bank (`mem.c:128`) and is not kept. The proof
  found an error in the model: two guards of a CASE in `Jumped` overlapped, so that TLA+ left open which of the two branches was taken while TLC
  took the first. It is an IF now.

Only model-checked:

* all liveness (`TimerKeepsFiring`, `DivKeepsMoving`, `VBlankKeepsComing`, `VBlankServed`, `FramesKeepComing`,
  `VBlankWakesHalt`), because the prover does not handle fairness or ENABLED.

Every invariant and every action property of the passing runs is a theorem.

## 5. Not modelled

* ROM loading and the header's printing: file I/O once before the loop; `Memory` takes the two fields of the header that are
  read later as constants.
* The debugger prompt, the command line and the two viewers: they do I/O and change no emulated state. The prompt blocks within
  `cpu_step`, when none of the machine's clocks moves.
* Colours: `get_color` and the palette registers.

Where the code departs from a comment, "findings" in `PROJECT.json` says so: with a run for STAT enables (lcd.c:70), the joypad mask
(input.c:77) and tall sprites (ppu.c:188); without one for the mode while the LCD is off (lcd.c:22), bank 0 of large cartridges
(mem.c:143), tile numbers from 128 on (ppu.c:72), the pixels left of the window (ppu.c:111), sprites
upside down (ppu.c:193), the message about late frames (main.c:250) and the first frame's unassigned `frame_start` (main.c:240). The models do as the code does in each case; the
properties of `Picture` leave out tile numbers from 128 on in the first area, the pixels left of the window, and sprites upside down or below row 8, and say so.

Other things met in the source and not stated as a property: the transfer mode is reported as
searching (lcd.c:49); the LYC interrupt is requested again on each step of its line (lcd.c:66); LY stays at 154 for a line
before it goes to 1 (ppu.c:47); with the background off its pixels stay as the last frame left them (ppu.c:65); the priority bit of a sprite is ignored;
a store to cartridge RAM lacks a `return` (mem.c:176) that never matters because the store before it fails; `echo_ram` does not follow stores to work RAM;
JP HL has length 3 in the table, which is not used; `cpu_step` returns before EI's delay and the debugger while
halted (cpu.c:277); cycles counted by instruction are M-cycles while a frame and a line are measured in T-cycles.

## 6. Plan

Done, in this order: Timer, Lcd, Interrupts, Emulator, Joypad, Memory, Alu, Decode, Cpu, Picture, Pacing; the proofs about all of
them.

1. `Joypad` and `Memory` inside `Emulator`, and `Cpu` in place of `Interrupts` there, with their theorems carried over as those
   of the timer, the LCD and interrupt control are.
2. `Picture` with the colours of tiles and palettes, and OAM DMA in the middle of a frame.
