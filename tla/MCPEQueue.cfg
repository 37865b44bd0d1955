SPECIFICATION MCSpec
CONSTANTS
  MaxHist = 6
  Inputs <- SmallInputs
INVARIANTS
  IInv
  ComparesHistories
PROPERTY BagSpec
CHECK_DEADLOCK FALSE
