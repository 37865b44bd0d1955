SPECIFICATION Spec
CONSTANTS
  Nets <- Contexts
  Options <- ErvOnly
INVARIANTS
  MarkingComplete
CHECK_DEADLOCK FALSE
