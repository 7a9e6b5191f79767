\* Looking for a pool that is spread over several chunks.
CONSTANTS
  NaN = NaN
  Infinity = 1000
  Absent = Absent
  Invalid = Invalid
  t1 = t1
  t2 = t2
  t3 = t3
  Ticket = {t1, t2, t3}
  Pool = {"p1", "p2", "p3"}
  Scenario <- AllScenes
  TTL = 2
  MaxPbSize = 10
  Start = 60
  End = 62
SPECIFICATION Spec
CHECK_DEADLOCK FALSE
INVARIANT PoolsReassemble
