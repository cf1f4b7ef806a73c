SPECIFICATION Spec
CONSTANTS
  SCLN_CNT = 5
  SCLN_VISIBLE_CNT = 3
  SCLN_CYCLES = 6
  SEARCHING_BOUNDS = 4
  TRANSFER_BOUNDS = 2
  CycleCounts = {1, 2}
  IrrBits = {"VBLANK", "STAT"}
  LycWrites = {0, 2}
  StatWrites <- MCStatWrites
INVARIANTS
  TypeOK
  LinesAboveDrawn
  LineZeroOnlyAfterRestart
PROPERTIES
  VBlankFrameComplete
  ImplementsRaster
  VBlankKeepsComing
