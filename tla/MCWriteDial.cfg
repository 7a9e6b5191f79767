\* Looking for a write endpoint that fails.
CONSTANT MaxDials = 2
SPECIFICATION Spec
CHECK_DEADLOCK FALSE
INVARIANT WriteOutageSurvived
