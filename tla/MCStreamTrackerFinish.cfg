SPECIFICATION Spec
INVARIANT FinishAfterAllBodiesClosed
CHECK_DEADLOCK FALSE
