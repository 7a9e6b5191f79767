------------------------ MODULE MCTicketReplication -------------------------
(***************************************************************************)
(* TicketReplication on small instances.  The TTL is one tick, so tickets  *)
(* die, are trimmed and are replayed within the bounds of the clock.       *)
(***************************************************************************)
EXTENDS TicketReplication, TLC

Symmetry == Permutations(Instance)

=============================================================================
