\* The same instance, asked for the promise of CreateTicket's comment.
CONSTANTS
  Ticket = {t1, t2}
  Reader = {r1}
SPECIFICATION Spec
SYMMETRY Symmetry
INVARIANT PoolOnlyActive
