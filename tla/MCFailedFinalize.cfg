SPECIFICATION Spec
CONSTANT MaxRuns = 1
INVARIANT FailedFinalizeRestoresOld
CHECK_DEADLOCK FALSE
