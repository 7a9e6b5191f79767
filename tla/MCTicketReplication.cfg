\* One instance, one restart.
CONSTANTS
  Instance = {om1}
  TTL = 1
  ATTL = 1
  Capacity = 1
  MaxLog = 3
  MaxTime = 3
  MaxRestarts = 1
SPECIFICATION Spec
CHECK_DEADLOCK FALSE
INVARIANTS
  TypeOK
  LiveViewMatchesLog
  AssignmentsKept
  NothingLost
PROPERTY ImplementsTicketPool
