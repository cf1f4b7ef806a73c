SPECIFICATION Spec
CONSTANTS
  ByteMod = 2
  IntMax = 11
  DividerPeriod = 4
  Period <- MCPeriod
  CycleCounts = {1, 4}
  IrrBits = {"TIMER"}
INVARIANTS
  TypeOK
  NoBacklogAtPromptRate
PROPERTIES
  ImplementsIntervalTimer
  TimerKeepsFiring
  DivKeepsMoving
