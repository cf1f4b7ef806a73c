SPECIFICATION Spec
CONSTANTS
  ROMX = 2
  VRAM = 4
  EXRAM = 5
  WRAM0 = 8
  WRAM1 = 9
  ECHO = 10
  OAM = 12
  UNUSABLE = 13
  IO = 15
  JOYPAD_ADDR = 15
  SC_ADDR = 17
  ClearedRegs = {18}
  DeviceRegs = {18}
  DMA_TRANSFER_ADDR = 19
  HRAM = 20
  IE = 21
  IoStart <- MCIoStart
  PageSize = 2
  Low <- MCLow
  Carts <- MCCarts
  Rom <- MCRom
  BankWrites <- MCBankWrites
  DataWrites <- MCDataWrites
INVARIANTS
  TypeOK
PROPERTIES
  StoreDecidesBank
  ImplementsFlatMemory
CHECK_DEADLOCK FALSE
