SPECIFICATION Spec
CONSTANT Inputs <- Files
INVARIANTS FoldsHistories FoldIsUnfolding
CHECK_DEADLOCK FALSE
