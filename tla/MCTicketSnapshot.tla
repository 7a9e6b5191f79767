-------------------------- MODULE MCTicketSnapshot --------------------------
(***************************************************************************)
(* TicketSnapshot on a small instance: two tickets, one of which can be    *)
(* created, activated, expired while a call is about to visit the other.   *)
(***************************************************************************)
EXTENDS TicketSnapshot, TLC

\* Tickets are interchangeable.
Symmetry == Permutations(Ticket)

=============================================================================
