SPECIFICATION Spec
CONSTANTS
  Instructions <- Program
  ImemLate = TRUE
INVARIANTS
  IInv
  OperandIsLatestIfPrompt
  RegisterFileCatchesUp
