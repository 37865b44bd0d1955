SPECIFICATION Spec
CONSTANTS
  Nets <- LoopOnly
  Options <- ErvOnly
INVARIANTS
  WrittenInitial
CHECK_DEADLOCK FALSE
