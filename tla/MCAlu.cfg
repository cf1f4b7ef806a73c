SPECIFICATION Spec
CONSTANTS
  Operands <- MCOperands
INVARIANTS
  DecimalAdjust
  BytesMakeWords
  SubtractionUndone
  ShiftsUndone
