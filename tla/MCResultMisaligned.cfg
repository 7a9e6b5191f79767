\* No fault at all: does a result carry its own id?
CONSTANTS
  c1 = c1
  c2 = c2
  Call = {c1, c2}
  Threshold = 2
  MaxUpdates = 2
  Fault = {}
  Request <- AllRequests
SPECIFICATION Spec
CHECK_DEADLOCK FALSE
INVARIANT ResultIsOwnId
