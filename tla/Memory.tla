-------------------------------- MODULE Memory --------------------------------
(***************************************************************************)
(* The memory map of src/mem.c: mem_read_byte, mem_write_byte with MBC1     *)
(* banking, and mem_dma_transfer.  One variable per array; addresses are    *)
(* numbers and each region starts at a constant, so that the two ladders of *)
(* comparisons can disagree here where they could in the code.              *)
(*                                                                          *)
(* A byte is the set of its bits, so that & is \cap and | is \cup; a ROM    *)
(* bank number too.  ram_enable is assigned but never read, and left out.   *)
(***************************************************************************)
EXTENDS Integers

CONSTANTS
  (* first address of each region: 0x4000, 0x8000, 0xA000, 0xC000, 0xD000,  *)
  (* 0xE000, 0xFE00, 0xFEA0, 0xFF00, 0xFF80 and 0xFFFF                      *)
  ROMX, VRAM, EXRAM, WRAM0, WRAM1, ECHO, OAM, UNUSABLE, IO, HRAM, IE,
  (* registers in io: two that differ from plain ones, and those set to 0   *)
  JOYPAD_ADDR, SC_ADDR, DMA_TRANSFER_ADDR, ClearedRegs,
  DeviceRegs,   (* registers the timer, LCD and CPU write with write_io     *)
  IoStart,      (* what mem_init stores in the registers                    *)
  PageSize,     (* 0x100                                                    *)
  Low,          (* bits of the bank register, 0 .. 4                        *)
  Carts,        (* headers: has MBC1, has RAM, bits of rom_banks - 1        *)
  Rom,          (* contents of each bank                                    *)
  BankWrites,   (* bytes the program stores in the bank register ...        *)
  DataWrites    (* ... and elsewhere                                        *)

Bits == 0 .. 7
Byte == SUBSET Bits
Cart == [mbc1 : BOOLEAN, ram : BOOLEAN, bits : Nat]

(* SC: start a transfer with the internal clock, 0x81. *)
TRANSFER == {0, 7}

Mapped == (IO .. HRAM - 1) \ {JOYPAD_ADDR}

(* Numbers of the pages a DMA may copy from, 0 .. 255. *)
Pages == 0 .. IE \div PageSize

ASSUME LayoutAssumption ==
  /\ {ROMX, VRAM, EXRAM, WRAM0, WRAM1, ECHO, OAM, UNUSABLE, IO, HRAM, IE}
       \subseteq Nat
  /\ 0 < ROMX /\ VRAM = 2 * ROMX /\ VRAM < EXRAM
  /\ EXRAM < WRAM0 /\ WRAM0 < WRAM1 /\ WRAM1 < ECHO /\ ECHO < OAM
  /\ OAM - ECHO <= ECHO - WRAM0
  /\ OAM < UNUSABLE /\ UNUSABLE <= IO /\ IO < HRAM /\ HRAM < IE
  /\ PageSize \in Nat \ {0}
  /\ OAM % PageSize = 0 /\ UNUSABLE <= OAM + PageSize
  /\ \A page \in Pages : page * PageSize + (UNUSABLE - OAM - 1) <= IE
  /\ JOYPAD_ADDR \in IO .. HRAM - 1
  /\ ClearedRegs \subseteq Mapped
  /\ DeviceRegs \subseteq Mapped \ {SC_ADDR}
  /\ IoStart \in [{a - IO : a \in Mapped} -> Byte]
  /\ SC_ADDR \in Mapped \ ClearedRegs
  /\ DMA_TRANSFER_ADDR \in Mapped \ (ClearedRegs \cup {SC_ADDR})

ASSUME CartAssumption ==
  /\ Low = 0 .. 4
  /\ Carts \subseteq Cart
  /\ \A c \in Carts : c.bits \in 1 .. 8
  /\ Rom \in [Byte -> [0 .. ROMX - 1 -> Byte]]
  /\ BankWrites \subseteq Byte
  /\ DataWrites \subseteq Byte

VARIABLES
  cart,          (* the header of the ROM loaded                             *)
  rom_bank,      (* rom_bank_number                                          *)
  vram, wram_0, wram_1, echo_ram, oam, io, hram, ie,
  joypad,        (* what input_read returns (module Joypad)                  *)
  alive          (* FALSE once the program has gone through a null pointer   *)

ramVars == <<vram, wram_0, wram_1, echo_ram, oam, io, hram, ie>>
vars    == <<cart, rom_bank, ramVars, joypad, alive>>

Zeros(n) == [i \in 0 .. n - 1 |-> {}]

Init ==
  /\ cart \in Carts
  /\ rom_bank = {0}
  /\ vram = Zeros(EXRAM - VRAM)
  /\ wram_0 = Zeros(WRAM1 - WRAM0)
  /\ wram_1 = Zeros(ECHO - WRAM1)
  /\ echo_ram = Zeros(OAM - ECHO)
  /\ oam = Zeros(UNUSABLE - OAM)
  /\ io = IoStart
  /\ hram = Zeros(IE - HRAM)
  /\ ie = {}
  /\ joypad = 0 .. 3
  /\ alive = TRUE

------------------------------------------------------------------------------
(* mem_read_byte; ex_ram is never allocated, see CartRam below. *)

mem_read_byte(addr) ==
  IF addr < ROMX             THEN Rom[{}][addr]
  ELSE IF addr < VRAM        THEN Rom[rom_bank][addr - ROMX]
  ELSE IF addr < EXRAM       THEN vram[addr - VRAM]
  ELSE IF addr < WRAM0       THEN {}
  ELSE IF addr < WRAM1       THEN wram_0[addr - WRAM0]
  ELSE IF addr < ECHO        THEN wram_1[addr - WRAM1]
  ELSE IF addr < OAM         THEN echo_ram[addr - ECHO]
  ELSE IF addr < UNUSABLE    THEN oam[addr - OAM]
  ELSE IF addr < IO          THEN {}
  ELSE IF addr = JOYPAD_ADDR THEN joypad
  ELSE IF addr < HRAM        THEN io[addr - IO]
  ELSE IF addr < IE          THEN hram[addr - HRAM]
  ELSE ie

------------------------------------------------------------------------------
(* mem_write_byte, one action per region. *)

(* Bits that address the banks there are. *)
Mask == 0 .. cart.bits - 1

(* Mutant: a store of 0 selects no bank at all. *)
SelectBank_zero(data) == (rom_bank \ Low) \cup (data \cap Mask)

(* Mutant: the mask of the banks there are is forgotten. *)
SelectBank_unmasked(data) ==
  (rom_bank \ Low) \cup (IF data \cap Low = {} THEN {0} ELSE data)

(* set_rom_bank_number_lo keeps the bits above Low, and the mask lets more   *)
(* than Low through.                                                         *)
SelectBank(data) ==
  (rom_bank \ Low) \cup (IF data \cap Low = {} THEN {0} ELSE data \cap Mask)

StoreBank(data) ==
  /\ cart.mbc1
  /\ rom_bank' = SelectBank(data)
  /\ UNCHANGED <<cart, ramVars, joypad, alive>>

StoreVram(addr, data) ==
  /\ addr \in VRAM .. EXRAM - 1
  /\ vram' = [vram EXCEPT ![addr - VRAM] = data]
  /\ UNCHANGED <<cart, rom_bank, wram_0, wram_1, echo_ram, oam, io, hram, ie, joypad, alive>>

(* Any access to cartridge RAM, a DMA's included: ex_ram is NULL, and only   *)
(* looked at when the header says there is RAM.  Without RAM reads give 0,   *)
(* stores nothing.                                                           *)
CartRam ==
  /\ alive' = ~cart.ram
  /\ UNCHANGED <<cart, rom_bank, ramVars, joypad>>

(* Mutant: both halves of work RAM are taken for the first. *)
write_wram_one_half(addr, data) ==
  /\ addr \in WRAM0 .. ECHO - 1
  /\ wram_0' = [wram_0 EXCEPT ![(addr - WRAM0) % (WRAM1 - WRAM0)] = data]
  /\ UNCHANGED wram_1

write_wram(addr, data) ==
  \/ /\ addr \in WRAM0 .. WRAM1 - 1
     /\ wram_0' = [wram_0 EXCEPT ![addr - WRAM0] = data]
     /\ UNCHANGED wram_1
  \/ /\ addr \in WRAM1 .. ECHO - 1
     /\ wram_1' = [wram_1 EXCEPT ![addr - WRAM1] = data]
     /\ UNCHANGED wram_0

StoreWram(addr, data) ==
  /\ write_wram(addr, data)
  /\ UNCHANGED <<cart, rom_bank, vram, echo_ram, oam, io, hram, ie, joypad, alive>>

(* "mem_write_byte(addr - 0x2000, data)" *)
StoreEcho(addr, data) ==
  /\ addr \in ECHO .. OAM - 1
  /\ echo_ram' = [echo_ram EXCEPT ![addr - ECHO] = data]
  /\ write_wram(addr - (ECHO - WRAM0), data)
  /\ UNCHANGED <<cart, rom_bank, vram, oam, io, hram, ie, joypad, alive>>

StoreOam(addr, data) ==
  /\ addr \in OAM .. UNUSABLE - 1
  /\ oam' = [oam EXCEPT ![addr - OAM] = data]
  /\ UNCHANGED <<cart, rom_bank, vram, wram_0, wram_1, echo_ram, io, hram, ie, joypad, alive>>

(* What is left in a register by a store; TMC's reset of the timer is in     *)
(* module Timer.  A transfer is over as soon as it is asked for.             *)
Stored(addr, data) ==
  IF addr \in ClearedRegs \/ (addr = SC_ADDR /\ data = TRANSFER) THEN {} ELSE data

StoreIo(addr, data) ==
  /\ addr \in Mapped \ {DMA_TRANSFER_ADDR}
  /\ io' = [io EXCEPT ![addr - IO] = Stored(addr, data)]
  /\ UNCHANGED <<cart, rom_bank, vram, wram_0, wram_1, echo_ram, oam, hram, ie, joypad, alive>>

StoreHram(addr, data) ==
  /\ addr \in HRAM .. IE - 1
  /\ hram' = [hram EXCEPT ![addr - HRAM] = data]
  /\ UNCHANGED <<cart, rom_bank, vram, wram_0, wram_1, echo_ram, oam, io, ie, joypad, alive>>

StoreIe(data) ==
  /\ ie' = data
  /\ UNCHANGED <<cart, rom_bank, vram, wram_0, wram_1, echo_ram, oam, io, hram, joypad, alive>>

(* A store to DMA_TRANSFER_ADDR.  Copying byte by byte is copying at once: a *)
(* page that meets OAM is OAM itself.                                        *)
mem_dma_transfer(src) ==
  /\ cart.ram =>
       \A i \in DOMAIN oam : src * PageSize + i \notin EXRAM .. WRAM0 - 1
  /\ oam' = [i \in DOMAIN oam |-> mem_read_byte(src * PageSize + i)]
  /\ UNCHANGED <<cart, rom_bank, vram, wram_0, wram_1, echo_ram, io, hram, ie, joypad, alive>>

(* input_read gives something else: a key, or a store to JOYPAD_ADDR.        *)
JoypadChange ==
  /\ joypad' \in DataWrites
  /\ UNCHANGED <<cart, rom_bank, ramVars, alive>>

(* write_io of the timer, the LCD and the interrupt requests.                *)
write_io(addr) ==
  /\ addr \in DeviceRegs
  /\ \E data \in DataWrites : io' = [io EXCEPT ![addr - IO] = data]
  /\ UNCHANGED <<cart, rom_bank, vram, wram_0, wram_1, echo_ram, oam, hram, ie, joypad, alive>>

(* Stores to the ROM outside the bank register and to the unusable area do   *)
(* nothing and are not listed.                                                *)
mem_write_byte(addr, data) ==
  \/ StoreVram(addr, data)
  \/ StoreWram(addr, data)
  \/ StoreEcho(addr, data)
  \/ StoreOam(addr, data)
  \/ StoreIo(addr, data)
  \/ StoreHram(addr, data)

Step ==
  \/ \E data \in BankWrites : StoreBank(data)
  \/ \E addr \in VRAM .. IE - 1, data \in DataWrites : mem_write_byte(addr, data)
  \/ \E data \in DataWrites : StoreIe(data)
  \/ \E src \in Pages : mem_dma_transfer(src)
  \/ CartRam
  \/ JoypadChange
  \/ \E addr \in DeviceRegs : write_io(addr)

Next == alive /\ Step

Spec == Init /\ [][Next]_vars

------------------------------------------------------------------------------
(* Properties. *)

(* The bank register always names a bank the ROM has: mem_read_byte stays    *)
(* inside the file, whatever sequence of bytes the program stores.           *)
TypeOK ==
  /\ cart \in Carts
  /\ rom_bank \subseteq Mask
  /\ vram \in [0 .. EXRAM - VRAM - 1 -> Byte]
  /\ wram_0 \in [0 .. WRAM1 - WRAM0 - 1 -> Byte]
  /\ wram_1 \in [0 .. ECHO - WRAM1 - 1 -> Byte]
  /\ echo_ram \in [0 .. OAM - ECHO - 1 -> Byte]
  /\ oam \in [0 .. UNUSABLE - OAM - 1 -> Byte]
  /\ io \in [{a - IO : a \in Mapped} -> Byte]
  /\ hram \in [0 .. IE - HRAM - 1 -> Byte]
  /\ ie \in Byte
  /\ joypad \in Byte
  /\ alive \in BOOLEAN

(* With 32 banks or fewer the bank selected is a function of the last byte   *)
(* stored: no earlier store leaves bits behind.                              *)
StoreDecidesBank ==
  [][\A data \in BankWrites :
       StoreBank(data) /\ Mask \subseteq Low =>
         rom_bank' = (IF data \cap Low = {} THEN {0} ELSE data \cap Mask)]_vars

(* Reading back the whole address space shows one flat memory: every store   *)
(* changes the byte read at its own address (and an echo store the work RAM  *)
(* byte below it) and no other, for both ladders of comparisons.             *)
Shows(bank) == [x \in ROMX .. VRAM - 1 |-> Rom[bank][x - ROMX]]

Flat == INSTANCE FlatMemory WITH
  view       <- [x \in 0 .. IE |-> mem_read_byte(x)],
  Last       <- IE,
  Zero       <- {},
  Data       <- DataWrites,
  Ram        <- (VRAM .. EXRAM - 1) \cup (WRAM0 .. UNUSABLE - 1)
                \cup (Mapped \ {DMA_TRANSFER_ADDR}) \cup (HRAM .. IE),
  Echo       <- ECHO .. OAM - 1,
  EchoOffset <- ECHO - WRAM0,
  Oam        <- OAM .. UNUSABLE - 1,
  Volatile   <- DeviceRegs \cup {JOYPAD_ADDR},
  Restored   <- (ClearedRegs \X Byte) \cup {<<SC_ADDR, TRANSFER>>},
  Window     <- ROMX .. VRAM - 1,
  banks      <- {Shows(bank) : bank \in SUBSET Mask}

ImplementsFlatMemory == Flat!Spec
===============================================================================
