SPECIFICATION Spec
CONSTANTS
  IeWrites <- MCIeWrites
  IrrWrites <- MCIrrWrites
  RedundantEI = FALSE
  MaxNesting = 3
INVARIANTS
  DIHolds
  EIDelayed
  HandlersNotNested
  HaltMeansNothingPending
PROPERTIES
  NoRequestLost
  VBlankServed
CHECK_DEADLOCK FALSE
