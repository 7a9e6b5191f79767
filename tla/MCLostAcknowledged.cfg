\* The connection may break: is an acknowledged update written?
CONSTANTS
  c1 = c1
  c2 = c2
  Call = {c1, c2}
  Threshold = 2
  MaxUpdates = 2
  Fault = {"pipeline"}
  Request <- AllRequests
SPECIFICATION Spec
CHECK_DEADLOCK FALSE
INVARIANT AcknowledgedIsWritten
