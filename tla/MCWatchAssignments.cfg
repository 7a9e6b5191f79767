\* One call: calls share only the cache and the process.  The clock runs past
\* every deadline.
CONSTANTS
  Call = {c1}
  past = past
  ahead = ahead
  malformed = malformed
  Ticket <- TicketDef
  Request <- RequestDef
  Ctime <- CtimeDef
  TTL = 2
  Lag = 1
  Horizon = 5
SPECIFICATION Spec
CHECK_DEADLOCK FALSE
INVARIANTS
  EarlyReturnIsComplete
  GivesUpAfterTTL
  PanicsOnlyAfterTimeout
