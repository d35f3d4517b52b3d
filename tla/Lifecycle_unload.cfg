SPECIFICATION Spec
CONSTANT Versions = 1
INVARIANTS NothingLeftChanged
CHECK_DEADLOCK FALSE
