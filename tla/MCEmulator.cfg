SPECIFICATION Spec
CONSTANTS
  CYCLES_PER_FRAME = 2
  InstrCycles = {1}
  IrqCycles = 2
  TmcWrites <- MCTmcWrites
  ByteWrites = {0}
  LcdcWrites = {TRUE, FALSE}
  ByteMod = 1
  IntMax = 4
  DividerPeriod = 1
  Period <- MCPeriod
  SCLN_CNT = 2
  SCLN_VISIBLE_CNT = 1
  SCLN_CYCLES = 3
  SEARCHING_BOUNDS = 2
  TRANSFER_BOUNDS = 1
  LycWrites = {0}
  StatWrites <- MCStatWrites
  IeWrites <- MCIeWrites
  IrrWrites = {{}}
  RedundantEI = FALSE
  MaxNesting = 1
  NSEC = 120
  ClockTimes = {0, 119}
  FrameTimes = {1, 3, 122}
INVARIANTS
  CyclesAgree
  OverrunBounded
  FramesPaced
PROPERTIES
  TimerInLoop
  LcdInLoop
  InterruptsInLoop
  FramesKeepComing
  VBlankWakesHalt
CHECK_DEADLOCK FALSE
