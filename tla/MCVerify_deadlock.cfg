CONSTANTS
  Nets <- LoopNet
  Options <- ErvOnly
  Specifications <- OneFile
  PartialAt = 500
SPECIFICATION VerifySpec
INVARIANT DeadlocksFound
CHECK_DEADLOCK FALSE
