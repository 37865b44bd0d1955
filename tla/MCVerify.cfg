CONSTANTS
  Nets <- CheckedNets
  Options <- ErvOrUser
  Specifications <- Files
  PartialAt = 4
SPECIFICATION VerifySpec
INVARIANTS Ownership Normalised DeadlocksReal ConfigurationsOnly
PROPERTIES AnswersRight Decided
CHECK_DEADLOCK FALSE
