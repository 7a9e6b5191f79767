\* Two dials before the read side gives up.
CONSTANT MaxDials = 2
SPECIFICATION FairSpec
CHECK_DEADLOCK FALSE
INVARIANTS
  ConnectedBeforeRunning
  SignalsEndOutagesDoNot
PROPERTIES
  StartupEnds
  PollerRecovers
