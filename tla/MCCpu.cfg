SPECIFICATION Spec
CONSTANTS
  Ram <- MCRam
  Programs <- MCPrograms
INVARIANTS
  EveryOpcodeExecutes
  GoesOnBehindOperands
  CyclesMatchAccesses
PROPERTY
  ImplementsCallStack
CHECK_DEADLOCK FALSE
