SPECIFICATION Spec
CONSTANTS
  Formulas <- Small
  restart_first = 1
  MaxRestarts = 3
INVARIANTS PropagationComplete ReasonsJustify KeepsModels Answers
CHECK_DEADLOCK FALSE
