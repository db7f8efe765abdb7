SPECIFICATION Spec
INVARIANT Complete
PROPERTIES Quiescent Terminates
CHECK_DEADLOCK FALSE
