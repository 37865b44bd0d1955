SPECIFICATION Spec
CONSTANTS
  NAMES_START = 1
  NAMES_OFFSET = 1
  MAXINT = 6
  Idents <- SmallIdents
  Keywords <- SomeKeywords
  MaxLines = 5
INVARIANT ReadArcsEitherWay
CHECK_DEADLOCK FALSE
