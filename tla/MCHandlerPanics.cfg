\* Redis may refuse a command: does the handler report it?
CONSTANTS
  c1 = c1
  c2 = c2
  Call = {c1, c2}
  Threshold = 2
  MaxUpdates = 2
  Fault = {"xadd"}
  Request <- AllRequests
SPECIFICATION Spec
CHECK_DEADLOCK FALSE
INVARIANT NoHandlerPanics
