SPECIFICATION Spec
CONSTANTS
  Nets <- FewNets
  Options <- Interactive
INVARIANTS
  CutoffAssertion
CHECK_DEADLOCK FALSE
