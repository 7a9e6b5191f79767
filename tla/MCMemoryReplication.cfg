\* Batches of two updates, a channel with room for one, one clock setback.
CONSTANTS
  Threshold = 2
  Capacity = 1
  MaxUpdates = 4
  MaxTime = 3
  MaxSetbacks = 1
SPECIFICATION FairSpec
CHECK_DEADLOCK FALSE
INVARIANTS
  AppliedInOrder
  TicketBeforeActivation
  IdsIncrease
PROPERTIES
  EveryUpdateApplied
