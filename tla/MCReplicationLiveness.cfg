\* One instance under fairness, two restarts: what eventually happens.
CONSTANTS
  Instance = {om1}
  TTL = 1
  ATTL = 1
  Capacity = 1
  MaxLog = 2
  MaxTime = 3
  MaxRestarts = 2
SPECIFICATION FairSpec
CHECK_DEADLOCK FALSE
PROPERTIES
  EveryUpdateArrives
  EveryTicketLeaves
