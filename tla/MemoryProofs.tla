----------------------------- MODULE MemoryProofs -----------------------------
(***************************************************************************)
(* What Memory promises, for every cartridge and every layout of regions    *)
(* that satisfies LayoutAssumption.                                          *)
(***************************************************************************)
EXTENDS Memory, TLAPS

(* The bank register names a byte's worth of banks at most.                  *)
LEMMA MaskType == ASSUME TypeOK PROVE Mask \subseteq Bits /\ 0 \in Mask
<1>1. cart.bits \in 1 .. 8
  BY CartAssumption DEF TypeOK
<1> QED BY <1>1 DEF Mask, Bits

(* The regions follow one another.                                            *)
LEMMA Layout ==
  /\ ROMX \in Nat /\ VRAM \in Nat /\ EXRAM \in Nat /\ WRAM0 \in Nat /\ WRAM1 \in Nat
  /\ ECHO \in Nat /\ OAM \in Nat /\ UNUSABLE \in Nat /\ IO \in Nat /\ HRAM \in Nat
  /\ IE \in Nat
  /\ 0 < ROMX /\ VRAM = ROMX + ROMX /\ VRAM < EXRAM
  /\ EXRAM < WRAM0 /\ WRAM0 < WRAM1 /\ WRAM1 < ECHO /\ ECHO < OAM
  /\ OAM - ECHO <= ECHO - WRAM0
  /\ OAM < UNUSABLE /\ UNUSABLE <= IO /\ IO < HRAM /\ HRAM < IE
  /\ JOYPAD_ADDR \in IO .. HRAM - 1
<1>1. {ROMX, VRAM, EXRAM, WRAM0, WRAM1, ECHO, OAM, UNUSABLE, IO, HRAM, IE} \subseteq Nat
  BY LayoutAssumption
<1>2. /\ ROMX \in Nat /\ VRAM \in Nat /\ EXRAM \in Nat /\ WRAM0 \in Nat /\ WRAM1 \in Nat
      /\ ECHO \in Nat /\ OAM \in Nat /\ UNUSABLE \in Nat /\ IO \in Nat /\ HRAM \in Nat
      /\ IE \in Nat
  BY <1>1, Zenon
<1>3. VRAM = 2 * ROMX /\ 0 < ROMX /\ VRAM < EXRAM
  BY LayoutAssumption
<1>4. VRAM = ROMX + ROMX
  BY <1>2, <1>3
<1>5. /\ EXRAM < WRAM0 /\ WRAM0 < WRAM1 /\ WRAM1 < ECHO /\ ECHO < OAM
      /\ OAM - ECHO <= ECHO - WRAM0
      /\ OAM < UNUSABLE /\ UNUSABLE <= IO /\ IO < HRAM /\ HRAM < IE
      /\ JOYPAD_ADDR \in IO .. HRAM - 1
  BY LayoutAssumption
<1> QED BY <1>2, <1>3, <1>4, <1>5

(* Every address reads as a byte: the ladder of mem_read_byte leaves no gap. *)
LEMMA ReadType ==
  ASSUME TypeOK, NEW x \in 0 .. IE
  PROVE  mem_read_byte(x) \in Byte
<1>1. rom_bank \in Byte /\ {} \in Byte
  BY MaskType DEF TypeOK, Byte
<1>2. CASE x < ROMX
  <2>1. x \in 0 .. ROMX - 1
    BY <1>2, Layout
  <2>2. Rom[{}][x] \in Byte
    BY <1>1, <2>1, CartAssumption
  <2> QED BY <1>2, <2>2 DEF mem_read_byte
<1>3. CASE x \in ROMX .. VRAM - 1
  <2>1. x - ROMX \in 0 .. ROMX - 1 /\ ~(x < ROMX) /\ x < VRAM
    BY <1>3, Layout
  <2>2. Rom[rom_bank][x - ROMX] \in Byte
    BY <1>1, <2>1, CartAssumption
  <2> QED BY <2>1, <2>2 DEF mem_read_byte
<1>4. CASE x \in VRAM .. WRAM0 - 1
  BY <1>1, <1>4, Layout DEF mem_read_byte, TypeOK
<1>5. CASE x \in WRAM0 .. ECHO - 1
  <2>1. CASE x < WRAM1
    BY <1>5, <2>1, Layout DEF mem_read_byte, TypeOK
  <2>2. CASE ~(x < WRAM1)
    BY <1>5, <2>2, Layout DEF mem_read_byte, TypeOK
  <2> QED BY <2>1, <2>2
<1>6. CASE x \in ECHO .. OAM - 1
  <2>1. x - ECHO \in 0 .. OAM - ECHO - 1 /\ mem_read_byte(x) = echo_ram[x - ECHO]
    BY <1>6, Layout DEF mem_read_byte
  <2> QED BY <2>1 DEF TypeOK
<1>7. CASE x \in OAM .. IO - 1
  <2>1. CASE x < UNUSABLE
    <3>1. x - OAM \in 0 .. UNUSABLE - OAM - 1 /\ mem_read_byte(x) = oam[x - OAM]
      BY <1>7, <2>1, Layout DEF mem_read_byte
    <3> QED BY <3>1 DEF TypeOK
  <2>2. CASE ~(x < UNUSABLE)
    BY <1>1, <1>7, <2>2, Layout DEF mem_read_byte
  <2> QED BY <2>1, <2>2
<1>8. CASE x \in IO .. HRAM - 1
  <2>1. CASE x = JOYPAD_ADDR
    BY <1>8, <2>1, Layout DEF mem_read_byte, TypeOK
  <2>2. CASE x # JOYPAD_ADDR
    <3>1. x \in Mapped /\ mem_read_byte(x) = io[x - IO]
      BY <1>8, <2>2, Layout DEF mem_read_byte, Mapped
    <3> QED BY <3>1 DEF TypeOK
  <2> QED BY <2>1, <2>2
<1>9. CASE x \in HRAM .. IE
  BY <1>9, Layout DEF mem_read_byte, TypeOK
<1> QED
  BY <1>2, <1>3, <1>4, <1>5, <1>6, <1>7, <1>8, <1>9, Layout

(* A DMA reads inside the address space.                                     *)
LEMMA PageInside ==
  ASSUME NEW page \in Pages, NEW i \in 0 .. UNUSABLE - OAM - 1
  PROVE  page * PageSize + i \in 0 .. IE
<1>1. PageSize \in Nat /\ page \in Nat /\ IE \in Nat /\ UNUSABLE \in Nat /\ OAM \in Nat
  BY LayoutAssumption DEF Pages
<1>2. page * PageSize \in Nat
  BY <1>1
<1>3. page * PageSize + (UNUSABLE - OAM - 1) <= IE
  BY LayoutAssumption
<1> QED BY <1>1, <1>2, <1>3

(* No store gives an array another size or the bank register a bank the ROM  *)
(* does not have: the bits above Low were masked when they were stored.      *)
LEMMA TypeStep == TypeOK /\ [Next]_vars => TypeOK'
<1> SUFFICES ASSUME TypeOK, [Next]_vars PROVE TypeOK'
  OBVIOUS
<1> USE DEF TypeOK
<1>1. ASSUME NEW data \in BankWrites, StoreBank(data) PROVE TypeOK'
  <2>1. SelectBank(data) \subseteq Mask
    BY MaskType, CartAssumption DEF SelectBank
  <2> QED BY <1>1, <2>1 DEF StoreBank, ramVars, Mask
<1>2. ASSUME NEW addr \in VRAM .. IE - 1, NEW data \in DataWrites, mem_write_byte(addr, data)
      PROVE  TypeOK'
  <2>1. data \in Byte /\ Stored(addr, data) \in Byte
    BY CartAssumption DEF Stored, Byte
  <2>2. CASE StoreVram(addr, data)
    BY <2>1, <2>2 DEF StoreVram, Mask
  <2>3. CASE StoreWram(addr, data)
    BY <2>1, <2>3 DEF StoreWram, write_wram, Mask
  <2>4. CASE StoreEcho(addr, data)
    BY <2>1, <2>4 DEF StoreEcho, write_wram, Mask
  <2>5. CASE StoreOam(addr, data)
    BY <2>1, <2>5 DEF StoreOam, Mask
  <2>6. CASE StoreIo(addr, data)
    BY <2>1, <2>6 DEF StoreIo, Mask
  <2>7. CASE StoreHram(addr, data)
    BY <2>1, <2>7 DEF StoreHram, Mask
  <2> QED BY <1>2, <2>2, <2>3, <2>4, <2>5, <2>6, <2>7 DEF mem_write_byte
<1>3. ASSUME NEW data \in DataWrites, StoreIe(data) PROVE TypeOK'
  BY <1>3, CartAssumption DEF StoreIe, Mask
<1>4. ASSUME NEW src \in Pages, mem_dma_transfer(src) PROVE TypeOK'
  <2>1. \A i \in 0 .. UNUSABLE - OAM - 1 : mem_read_byte(src * PageSize + i) \in Byte
    BY PageInside, ReadType
  <2>2. oam' \in [0 .. UNUSABLE - OAM - 1 -> Byte]
    BY <1>4, <2>1 DEF mem_dma_transfer
  <2> QED BY <1>4, <2>2 DEF mem_dma_transfer, Mask
<1>5. CASE CartRam
  BY <1>5, CartAssumption DEF CartRam, ramVars, Mask, Cart
<1>6. CASE JoypadChange
  BY <1>6, CartAssumption DEF JoypadChange, ramVars, Mask
<1>7. ASSUME NEW addr \in DeviceRegs, write_io(addr) PROVE TypeOK'
  BY <1>7, CartAssumption DEF write_io, Mask
<1>8. CASE UNCHANGED vars
  BY <1>8 DEF vars, ramVars, Mask
<1> QED BY <1>1, <1>2, <1>3, <1>4, <1>5, <1>6, <1>7, <1>8 DEF Next, Step

(* mem_init: the arrays start with their own sizes, and bank 0 selected.     *)
LEMMA InitType == Init => TypeOK
<1> SUFFICES ASSUME Init PROVE TypeOK
  OBVIOUS
<1>1. 0 .. 3 \in Byte /\ {} \in Byte
  BY DEF Byte, Bits
<1>2. {0} \subseteq Mask
  BY CartAssumption DEF Init, Mask, Cart
<1> QED BY <1>1, <1>2, LayoutAssumption DEF Init, TypeOK, Zeros

(* The bank register always names a bank the ROM has, and every array keeps  *)
(* its size, for every cartridge and every layout.                           *)
THEOREM TypeCorrect == Spec => []TypeOK
  BY InitType, TypeStep, PTL DEF Spec

(* With 32 banks or fewer the bank selected is a function of the last byte   *)
(* stored in the bank register.                                               *)
THEOREM BankDecided == Spec => StoreDecidesBank
<1>1. ASSUME TypeOK, NEW data \in BankWrites, StoreBank(data), Mask \subseteq Low
      PROVE  rom_bank' = (IF data \cap Low = {} THEN {0} ELSE data \cap Mask)
  BY <1>1 DEF StoreBank, SelectBank, TypeOK
<1>2. TypeOK /\ [Next]_vars =>
        [\A data \in BankWrites :
           StoreBank(data) /\ Mask \subseteq Low =>
             rom_bank' = (IF data \cap Low = {} THEN {0} ELSE data \cap Mask)]_vars
  BY <1>1
<1> QED BY <1>2, TypeCorrect, PTL DEF Spec, StoreDecidesBank

------------------------------------------------------------------------------
(* The refinement.  Only(a, d): the step gives the byte d to address a and   *)
(* leaves the others as they read.                                           *)
Only(a, d) ==
  /\ mem_read_byte(a)' = d
  /\ \A x \in 0 .. IE : x # a => mem_read_byte(x)' = mem_read_byte(x)

(* Each region is written where it is read.                                  *)
LEMMA VramOnly ==
  ASSUME TypeOK, NEW addr, NEW data, StoreVram(addr, data)
  PROVE  addr \in VRAM .. EXRAM - 1 /\ Only(addr, data)
<1>1. addr \in VRAM .. EXRAM - 1
  BY DEF StoreVram
<1>2. vram'[addr - VRAM] = data
  <2>1. addr - VRAM \in 0 .. EXRAM - VRAM - 1
    BY <1>1, Layout
  <2> QED BY <2>1 DEF TypeOK, StoreVram
<1>3. mem_read_byte(addr)' = vram'[addr - VRAM]
  BY <1>1, Layout DEF mem_read_byte
<1>4. ASSUME NEW x \in VRAM .. EXRAM - 1, x # addr
      PROVE  mem_read_byte(x)' = mem_read_byte(x)
  <2>1. vram'[x - VRAM] = vram[x - VRAM]
    BY <1>1, <1>4, Layout DEF TypeOK, StoreVram
  <2>2. mem_read_byte(x) = vram[x - VRAM] /\ mem_read_byte(x)' = vram'[x - VRAM]
    BY <1>4, Layout DEF mem_read_byte
  <2> QED BY <2>1, <2>2
<1>5. ASSUME NEW x \in 0 .. IE, x \notin VRAM .. EXRAM - 1
      PROVE  mem_read_byte(x)' = mem_read_byte(x)
  BY <1>5, Layout DEF StoreVram, mem_read_byte
<1> QED BY <1>1, <1>2, <1>3, <1>4, <1>5 DEF Only

(* The two halves of work RAM.                                               *)
LEMMA WramOnly ==
  ASSUME TypeOK, NEW addr, NEW data, StoreWram(addr, data)
  PROVE  addr \in WRAM0 .. ECHO - 1 /\ Only(addr, data)
<1>1. CASE addr \in WRAM0 .. WRAM1 - 1
  BY <1>1, Layout DEF TypeOK, StoreWram, write_wram, Only, mem_read_byte
<1>2. CASE addr \in WRAM1 .. ECHO - 1
  BY <1>2, Layout DEF TypeOK, StoreWram, write_wram, Only, mem_read_byte
<1> QED BY <1>1, <1>2 DEF StoreWram, write_wram

(* Echo RAM has bytes of its own, and the work RAM below is written too.      *)
LEMMA EchoBoth ==
  ASSUME TypeOK, NEW addr, NEW data, StoreEcho(addr, data)
  PROVE  /\ addr \in ECHO .. OAM - 1
         /\ mem_read_byte(addr)' = data
         /\ mem_read_byte(addr - (ECHO - WRAM0))' = data
         /\ \A x \in 0 .. IE : x \notin {addr, addr - (ECHO - WRAM0)} =>
              mem_read_byte(x)' = mem_read_byte(x)
<1> DEFINE below == addr - (ECHO - WRAM0)
<1>1. addr \in ECHO .. OAM - 1 /\ below \in WRAM0 .. ECHO - 1
  BY Layout DEF StoreEcho
<1>2. CASE below \in WRAM0 .. WRAM1 - 1
  BY <1>1, <1>2, Layout DEF TypeOK, StoreEcho, write_wram, mem_read_byte
<1>3. CASE below \in WRAM1 .. ECHO - 1
  BY <1>1, <1>3, Layout DEF TypeOK, StoreEcho, write_wram, mem_read_byte
<1> QED BY <1>1, <1>2, <1>3, Layout

(* Object attributes, above the echo.                                         *)
LEMMA OamOnly ==
  ASSUME TypeOK, NEW addr, NEW data, StoreOam(addr, data)
  PROVE  addr \in OAM .. UNUSABLE - 1 /\ Only(addr, data)
<1>1. addr \in OAM .. UNUSABLE - 1
  BY DEF StoreOam
<1>2. oam'[addr - OAM] = data
  <2>1. addr - OAM \in 0 .. UNUSABLE - OAM - 1
    BY <1>1, Layout
  <2> QED BY <2>1 DEF TypeOK, StoreOam
<1>3. mem_read_byte(addr)' = oam'[addr - OAM]
  BY <1>1, Layout DEF mem_read_byte
<1>4. ASSUME NEW x \in OAM .. UNUSABLE - 1, x # addr
      PROVE  mem_read_byte(x)' = mem_read_byte(x)
  <2>1. oam'[x - OAM] = oam[x - OAM]
    BY <1>1, <1>4, Layout DEF TypeOK, StoreOam
  <2>2. mem_read_byte(x) = oam[x - OAM] /\ mem_read_byte(x)' = oam'[x - OAM]
    BY <1>4, Layout DEF mem_read_byte
  <2> QED BY <2>1, <2>2
<1>5. ASSUME NEW x \in 0 .. IE, x \notin OAM .. UNUSABLE - 1
      PROVE  mem_read_byte(x)' = mem_read_byte(x)
  BY <1>5, Layout DEF StoreOam, mem_read_byte
<1> QED BY <1>1, <1>2, <1>3, <1>4, <1>5 DEF Only

(* Registers, apart from the joypad's.                                        *)
LEMMA IoOnly ==
  ASSUME TypeOK, NEW addr \in Mapped, NEW data,
         io' = [io EXCEPT ![addr - IO] = data],
         UNCHANGED <<cart, rom_bank, vram, wram_0, wram_1, echo_ram, oam, hram, ie, joypad>>
  PROVE  Only(addr, data)
  BY Layout DEF TypeOK, Only, mem_read_byte, Mapped

(* High RAM, above the registers.                                             *)
LEMMA HramOnly ==
  ASSUME TypeOK, NEW addr, NEW data, StoreHram(addr, data)
  PROVE  addr \in HRAM .. IE - 1 /\ Only(addr, data)
<1>1. addr \in HRAM .. IE - 1
  BY DEF StoreHram
<1>2. hram'[addr - HRAM] = data
  <2>1. addr - HRAM \in 0 .. IE - HRAM - 1
    BY <1>1, Layout
  <2> QED BY <2>1 DEF TypeOK, StoreHram
<1>3. mem_read_byte(addr)' = hram'[addr - HRAM]
  BY <1>1, Layout DEF mem_read_byte
<1>4. ASSUME NEW x \in HRAM .. IE - 1, x # addr
      PROVE  mem_read_byte(x)' = mem_read_byte(x)
  <2>1. hram'[x - HRAM] = hram[x - HRAM]
    BY <1>1, <1>4, Layout DEF TypeOK, StoreHram
  <2>2. mem_read_byte(x) = hram[x - HRAM] /\ mem_read_byte(x)' = hram'[x - HRAM]
    BY <1>4, Layout DEF mem_read_byte
  <2> QED BY <2>1, <2>2
<1>5. ASSUME NEW x \in 0 .. IE, x \notin HRAM .. IE - 1
      PROVE  mem_read_byte(x)' = mem_read_byte(x)
  BY <1>5, Layout DEF StoreHram, mem_read_byte
<1> QED BY <1>1, <1>2, <1>3, <1>4, <1>5 DEF Only

(* The last address.                                                          *)
LEMMA IeOnly ==
  ASSUME TypeOK, NEW data, StoreIe(data)
  PROVE  Only(IE, data)
<1>1. mem_read_byte(IE)' = data
  BY Layout DEF StoreIe, mem_read_byte
<1>2. ASSUME NEW x \in 0 .. IE, x # IE PROVE mem_read_byte(x)' = mem_read_byte(x)
  BY <1>2, Layout DEF StoreIe, mem_read_byte
<1> QED BY <1>1, <1>2 DEF Only

(* A page starts where OAM starts, and is not shorter.                        *)
LEMMA PageOffset ==
  ASSUME NEW i \in 0 .. UNUSABLE - OAM - 1
  PROVE  (OAM + i) % PageSize = i
<1>1. PageSize \in Nat \ {0} /\ OAM \in Nat /\ OAM % PageSize = 0
  BY LayoutAssumption, Layout
<1>2. i \in Nat /\ i < PageSize
  BY <1>1, LayoutAssumption, Layout
<1> DEFINE k == OAM \div PageSize
           j == (OAM + i) \div PageSize
           r == (OAM + i) % PageSize
<1>3. k \in Int /\ OAM = PageSize * k
  BY <1>1
<1>4. j \in Int /\ r \in 0 .. PageSize - 1 /\ OAM + i = PageSize * j + r
  BY <1>1, <1>2
<1> HIDE DEF k, j, r
<1>5. PageSize * (k - j) = r - i
  BY <1>1, <1>2, <1>3, <1>4
<1>6. ~(k - j >= 1)
  BY <1>1, <1>2, <1>3, <1>4, <1>5
<1>7. ~(k - j <= -1)
  BY <1>1, <1>2, <1>3, <1>4, <1>5
<1>8. k - j = 0
  BY <1>3, <1>4, <1>6, <1>7
<1> QED BY <1>1, <1>2, <1>4, <1>5, <1>8 DEF r

(* A store that gives one address the byte the registers keep.               *)
LEMMA OnlyIsStore ==
  ASSUME NEW addr \in 0 .. IE, addr \notin ECHO .. OAM - 1, NEW data \in DataWrites,
         Only(addr, Stored(addr, data))
  PROVE  Flat!Store(addr, data)
<1>1. Flat!Kept(addr, data) = Stored(addr, data)
  BY CartAssumption DEF Flat!Kept, Stored
<1>2. Flat!Touched(addr) = {addr}
  BY DEF Flat!Touched
<1> QED BY <1>1, <1>2 DEF Flat!Store, Flat!Addr, Only

(* Outside the registers a store keeps the byte.                              *)
LEMMA PlainStored ==
  ASSUME NEW addr, NEW data, addr \notin Mapped
  PROVE  Stored(addr, data) = data
  BY LayoutAssumption DEF Stored

(* Every store of the program is a store of the flat memory.                  *)
LEMMA WriteIsStore ==
  ASSUME TypeOK, NEW addr \in VRAM .. IE - 1, NEW data \in DataWrites,
         mem_write_byte(addr, data)
  PROVE  Flat!Step
<1> DEFINE Ram == (VRAM .. EXRAM - 1) \cup (WRAM0 .. UNUSABLE - 1)
                  \cup (Mapped \ {DMA_TRANSFER_ADDR}) \cup (HRAM .. IE)
<1> SUFFICES addr \in Ram /\ Flat!Store(addr, data)
  BY DEF Flat!Step
<1>0. addr \in 0 .. IE
  BY Layout
<1>1. CASE StoreVram(addr, data)
  <2>1. addr \in VRAM .. EXRAM - 1 /\ Only(addr, data)
    BY <1>1, VramOnly
  <2>2. addr \notin Mapped /\ addr \notin ECHO .. OAM - 1
    BY <2>1, Layout DEF Mapped
  <2> QED BY <1>0, <2>1, <2>2, OnlyIsStore, PlainStored
<1>2. CASE StoreWram(addr, data)
  <2>1. addr \in WRAM0 .. ECHO - 1 /\ Only(addr, data)
    BY <1>2, WramOnly
  <2>2. addr \notin Mapped /\ addr \notin ECHO .. OAM - 1 /\ addr \in WRAM0 .. UNUSABLE - 1
    BY <2>1, Layout DEF Mapped
  <2> QED BY <1>0, <2>1, <2>2, OnlyIsStore, PlainStored
<1>3. CASE StoreEcho(addr, data)
  <2>1. addr \in ECHO .. OAM - 1
    BY <1>3, EchoBoth
  <2>2. addr \notin Mapped /\ addr \in WRAM0 .. UNUSABLE - 1
    BY <2>1, Layout DEF Mapped
  <2>3. Flat!Kept(addr, data) = data
    BY <2>2, LayoutAssumption DEF Flat!Kept
  <2>4. Flat!Touched(addr) = {addr, addr - (ECHO - WRAM0)}
    BY <2>1 DEF Flat!Touched
  <2>5. addr - (ECHO - WRAM0) \in 0 .. IE
    BY <2>1, Layout
  <2>6. /\ mem_read_byte(addr)' = data
        /\ mem_read_byte(addr - (ECHO - WRAM0))' = data
        /\ \A x \in 0 .. IE : x \notin {addr, addr - (ECHO - WRAM0)} =>
              mem_read_byte(x)' = mem_read_byte(x)
    BY <1>3, EchoBoth
  <2>7. Flat!Store(addr, data)
    BY <1>0, <2>3, <2>4, <2>5, <2>6 DEF Flat!Store, Flat!Addr
  <2> QED BY <2>2, <2>7
<1>4. CASE StoreOam(addr, data)
  <2>1. addr \in OAM .. UNUSABLE - 1 /\ Only(addr, data)
    BY <1>4, OamOnly
  <2>2. addr \notin Mapped /\ addr \notin ECHO .. OAM - 1 /\ addr \in WRAM0 .. UNUSABLE - 1
    BY <2>1, Layout DEF Mapped
  <2> QED BY <1>0, <2>1, <2>2, OnlyIsStore, PlainStored
<1>5. CASE StoreIo(addr, data)
  <2>1. addr \in Mapped \ {DMA_TRANSFER_ADDR} /\ Only(addr, Stored(addr, data))
    BY <1>5, IoOnly DEF StoreIo
  <2>2. addr \notin ECHO .. OAM - 1
    BY <2>1, Layout DEF Mapped
  <2> QED BY <1>0, <2>1, <2>2, OnlyIsStore
<1>6. CASE StoreHram(addr, data)
  <2>1. addr \in HRAM .. IE - 1 /\ Only(addr, data)
    BY <1>6, HramOnly
  <2>2. addr \notin Mapped /\ addr \notin ECHO .. OAM - 1 /\ addr \in HRAM .. IE
    BY <2>1, Layout DEF Mapped
  <2> QED BY <1>0, <2>1, <2>2, OnlyIsStore, PlainStored
<1> QED BY <1>1, <1>2, <1>3, <1>4, <1>5, <1>6 DEF mem_write_byte

(* A store in the bank register changes the window, and shows there a bank    *)
(* of the ROM loaded.                                                         *)
LEMMA BankIsSwitch ==
  ASSUME TypeOK, TypeOK', NEW data, StoreBank(data)
  PROVE  Flat!Switch
<1>1. ASSUME NEW x \in 0 .. IE, x \notin ROMX .. VRAM - 1
      PROVE  mem_read_byte(x)' = mem_read_byte(x)
  BY <1>1, Layout DEF StoreBank, ramVars, mem_read_byte
<1>2. ASSUME NEW x \in ROMX .. VRAM - 1
      PROVE  x \in 0 .. IE /\ mem_read_byte(x)' = Shows(rom_bank')[x]
  BY <1>2, Layout DEF mem_read_byte, Shows
<1>3. rom_bank' \in SUBSET Mask
  BY DEF TypeOK, StoreBank, Mask
<1> QED BY <1>1, <1>2, <1>3 DEF Flat!Switch, Flat!Addr

(* A DMA copies a page as it reads before the copy.                           *)
LEMMA DmaIsCopy ==
  ASSUME TypeOK, NEW src \in Pages, mem_dma_transfer(src)
  PROVE  Flat!Copy(src)
<1>1. ASSUME NEW x \in 0 .. IE, x \notin OAM .. UNUSABLE - 1
      PROVE  mem_read_byte(x)' = mem_read_byte(x)
  BY <1>1, Layout DEF mem_dma_transfer, mem_read_byte
<1>2. ASSUME NEW x \in OAM .. UNUSABLE - 1
      PROVE  /\ x \in 0 .. IE
             /\ src * PageSize + (x % PageSize) \in 0 .. IE
             /\ mem_read_byte(x)' = mem_read_byte(src * PageSize + (x % PageSize))
  <2> DEFINE i == x - OAM
  <2>1. i \in 0 .. UNUSABLE - OAM - 1 /\ x = OAM + i /\ x \in 0 .. IE
    BY <1>2, Layout
  <2>2. x % PageSize = i
    BY <2>1, PageOffset
  <2>3. mem_read_byte(x)' = oam'[i]
    BY <1>2, <2>1, Layout DEF mem_read_byte
  <2>4. oam'[i] = mem_read_byte(src * PageSize + i)
    BY <2>1 DEF mem_dma_transfer, TypeOK
  <2>5. src * PageSize + i \in 0 .. IE
    BY <2>1, PageInside
  <2> QED BY <2>1, <2>2, <2>3, <2>4, <2>5
<1> QED BY <1>1, <1>2 DEF Flat!Copy, Flat!Addr

(* Every address reads as a byte.                                             *)
ViewOK == \A x \in 0 .. IE : mem_read_byte(x) \in Byte

(* One step of the memory map is one step of the flat memory, or none.        *)
LEMMA StepIsFlat ==
  ASSUME TypeOK, TypeOK', ViewOK', [Next]_vars
  PROVE  [Flat!Next]_Flat!vars
<1>1. cart' = cart /\ Mask' = Mask
  BY DEF Next, Step, mem_write_byte, StoreBank, StoreVram, StoreWram, StoreEcho, StoreOam,
         StoreIo, StoreHram, StoreIe, mem_dma_transfer, CartRam, JoypadChange, write_io,
         vars, ramVars, Mask
<1>2. {Shows(bank) : bank \in SUBSET Mask}' = {Shows(bank) : bank \in SUBSET Mask}
  BY <1>1 DEF Shows
<1>3. [x \in 0 .. IE |-> mem_read_byte(x)]' \in [Flat!Addr -> Byte]
  BY DEF ViewOK, Flat!Addr
<1>4. Flat!Step => Flat!Next
  BY <1>2, <1>3 DEF Flat!Next
<1>5. ASSUME NEW data \in BankWrites, StoreBank(data) PROVE Flat!Step
  BY <1>5, BankIsSwitch DEF Flat!Step
<1>6. ASSUME NEW addr \in VRAM .. IE - 1, NEW data \in DataWrites, mem_write_byte(addr, data)
      PROVE  Flat!Step
  BY <1>6, WriteIsStore
<1>7. ASSUME NEW data \in DataWrites, StoreIe(data) PROVE Flat!Step
  <2>1. IE \notin Mapped /\ IE \notin ECHO .. OAM - 1 /\ IE \in HRAM .. IE /\ IE \in 0 .. IE
    BY Layout DEF Mapped
  <2>2. Only(IE, Stored(IE, data))
    BY <1>7, <2>1, IeOnly, PlainStored
  <2>3. Flat!Store(IE, data)
    BY <2>1, <2>2, OnlyIsStore
  <2> QED BY <2>1, <2>3 DEF Flat!Step
<1>8. ASSUME NEW src \in Pages, mem_dma_transfer(src) PROVE Flat!Step
  BY <1>8, DmaIsCopy DEF Flat!Step, Pages
<1>9. ASSUME CartRam \/ UNCHANGED vars PROVE Flat!Step
  <2>1. \A x \in 0 .. IE : mem_read_byte(x)' = mem_read_byte(x)
    BY <1>9 DEF CartRam, vars, ramVars, mem_read_byte
  <2> QED BY <2>1 DEF Flat!Step, Flat!Change, Flat!Addr
<1>10. ASSUME JoypadChange PROVE Flat!Step
  <2>1. \A x \in 0 .. IE \ {JOYPAD_ADDR} : mem_read_byte(x)' = mem_read_byte(x)
    BY <1>10 DEF JoypadChange, ramVars, mem_read_byte
  <2> QED BY <2>1 DEF Flat!Step, Flat!Change, Flat!Addr
<1>11. ASSUME NEW addr \in DeviceRegs, write_io(addr) PROVE Flat!Step
  <2>1. PICK data \in DataWrites : io' = [io EXCEPT ![addr - IO] = data]
    BY <1>11 DEF write_io
  <2>2. addr \in Mapped
    BY <1>11, LayoutAssumption
  <2>3. Only(addr, data)
    BY <1>11, <2>1, <2>2, IoOnly DEF write_io
  <2>4. \A x \in 0 .. IE \ DeviceRegs : mem_read_byte(x)' = mem_read_byte(x)
    BY <1>11, <2>3 DEF Only
  <2> QED BY <2>4 DEF Flat!Step, Flat!Change, Flat!Addr
<1> QED BY <1>4, <1>5, <1>6, <1>7, <1>8, <1>9, <1>10, <1>11 DEF Next, Step

(* The arrays filled by mem_init are a flat memory.                           *)
LEMMA InitIsFlat == TypeOK /\ ViewOK => Flat!Init
<1> SUFFICES ASSUME TypeOK, ViewOK PROVE Flat!Init
  OBVIOUS
<1>1. [x \in 0 .. IE |-> mem_read_byte(x)] \in [Flat!Addr -> Byte]
  BY DEF ViewOK, Flat!Addr
<1>2. ASSUME NEW bank \in SUBSET Mask
      PROVE  Shows(bank) \in [ROMX .. VRAM - 1 -> Byte]
  <2>1. bank \in Byte
    BY MaskType DEF Byte
  <2>2. \A x \in ROMX .. VRAM - 1 : x - ROMX \in 0 .. ROMX - 1
    BY Layout
  <2> QED BY <2>1, <2>2, CartAssumption DEF Shows
<1> QED BY <1>1, <1>2 DEF Flat!Init

(* The memory map, with its two ladders of comparisons, its echo and its      *)
(* banks, implements the flat memory of module FlatMemory.                    *)
THEOREM RefinesFlatMemory == Spec => ImplementsFlatMemory
<1>1. TypeOK => ViewOK
  BY ReadType DEF ViewOK
<1>2. TypeOK /\ TypeOK' /\ ViewOK' /\ [Next]_vars => [Flat!Next]_Flat!vars
  BY StepIsFlat
<1> QED BY <1>1, <1>2, InitType, InitIsFlat, TypeCorrect, PTL
        DEF Spec, ImplementsFlatMemory, Flat!Spec
===============================================================================
