SPECIFICATION Spec
CONSTANTS
  Instructions <- StraightLine
  ImemLate = FALSE
INVARIANTS
  OperandIsLatest
