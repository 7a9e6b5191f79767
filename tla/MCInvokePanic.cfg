SPECIFICATION Spec
INVARIANTS
  NoSendOnClosed
CONSTANTS
  m1 = m1
  m2 = m2
  x1 = x1
  x2 = x2
  t1 = t1
  t2 = t2
  Mmf <- MCMmf
  Match <- MCMatch
  Ticket <- MCTicket
  MatchesOf <- MCMatchesOf
  TicketsOf <- MCTicketsOf
  Contested <- MCContested
CHECK_DEADLOCK FALSE
