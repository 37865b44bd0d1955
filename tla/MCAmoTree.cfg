SPECIFICATION Spec
CONSTANT Sizes <- UpToSix
INVARIANTS
  IInv
  Sound
  Conservative
PROPERTY Terminates
CHECK_DEADLOCK FALSE
