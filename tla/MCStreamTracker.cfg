SPECIFICATION Spec
INVARIANTS TypeOK AllClosedFinishes
CHECK_DEADLOCK FALSE
