\* Two tickets and one InvokeMatchmakingFunctions call: calls do not interact.
CONSTANTS
  Ticket = {t1, t2}
  Reader = {r1}
SPECIFICATION Spec
SYMMETRY Symmetry
INVARIANTS
  TypeOK
  ActiveWasActivated
  PoolSound
  PoolComplete
