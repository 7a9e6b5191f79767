\* Looking for an assignment that arrives after its call timed out.
CONSTANTS
  Call = {c1}
  past = past
  ahead = ahead
  malformed = malformed
  Ticket <- TicketDef
  Request <- RequestDef
  Ctime <- CtimeDef
  TTL = 2
  Lag = 1
  Horizon = 5
SPECIFICATION Spec
CHECK_DEADLOCK FALSE
INVARIANT PutsThenExits
