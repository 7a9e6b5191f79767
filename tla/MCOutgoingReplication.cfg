\* Two calls, batches of at most two updates, every fault.
CONSTANTS
  c1 = c1
  c2 = c2
  Call = {c1, c2}
  Threshold = 2
  MaxUpdates = 2
  Fault = {"pipeline", "xadd", "xtrim"}
  Request <- AllRequests
SPECIFICATION OrderedFairSpec
CHECK_DEADLOCK FALSE
INVARIANTS
  NobodyWaitsInVain
  NoSendOnClosed
  ResultsInOrder
  CleanResultsTrue
  FailuresReported
PROPERTIES
  ImplementsUpdateStore
  EveryCallReturns
