----------------------------- MODULE TicketPool -----------------------------
(***************************************************************************)
(* What the replicated ticket cache promises to an om-core instance.       *)
(*                                                                         *)
(* There is one log of updates.  Each instance has a position in it, moves *)
(* forward entry by entry, and may pass over an entry only once that entry *)
(* is older than the ticket TTL.  The tickets it can put in pools are, at  *)
(* every moment, exactly the live tickets whose last update up to that     *)
(* position is an Activate: a function of the log and the position, so two *)
(* instances at the same position offer the same tickets.                  *)
(***************************************************************************)
EXTENDS Integers, Sequences

CONSTANTS Instance,  \* om-core instances
          TTL        \* OM_CACHE_TICKET_TTL_MS

VARIABLES log, now, pos, pool

vars == <<log, now, pos, pool>>

Dead(k) == now - log[k].at > TTL

IsTicket(k) == log[k].cmd = "ticket"

Live(k) == IsTicket(k) /\ now <= log[k].exp

\* The last Activate or Deactivate of t among entries 1..n is an Activate.
ActiveAt(t, n) ==
  \E a \in t + 1 .. n :
    /\ log[a].cmd = "activate" /\ log[a].key = t
    /\ \A d \in a + 1 .. n : ~ (log[d].cmd = "deactivate" /\ log[d].key = t)

Offered(n) == {t \in 1 .. n : Live(t) /\ ActiveAt(t, n)}

Init ==
  /\ log = << >>
  /\ now = 0
  /\ pos = [i \in Instance |-> 0]
  /\ pool = [i \in Instance |-> {}]

\* An update is replicated: a ticket lives at most TTL from then on.
Publish ==
  /\ Len(log') = Len(log) + 1
  /\ log' = Append(log, log'[Len(log) + 1])
  /\ log'[Len(log) + 1].at = now
  /\ log'[Len(log) + 1].exp <= now + TTL
  /\ UNCHANGED <<now, pos>>

Advance(i) ==
  /\ \E n \in pos[i] + 1 .. Len(log) :
       /\ \A k \in pos[i] + 1 .. n - 1 : Dead(k)
       /\ pos' = [pos EXCEPT ![i] = n]
  /\ UNCHANGED <<log, now>>

\* An instance that starts anew skips nothing that is not dead already.
Recover(i) ==
  /\ \E n \in 0 .. Len(log) :
       /\ \A k \in 1 .. n : Dead(k)
       /\ pos' = [pos EXCEPT ![i] = n]
  /\ UNCHANGED <<log, now>>

Tick ==
  /\ now' = now + 1
  /\ UNCHANGED <<log, pos>>

Next ==
  /\ \/ Publish
     \/ \E i \in Instance : Advance(i) \/ Recover(i)
     \/ Tick
  /\ pool' = [i \in Instance |-> Offered(pos[i])']

Spec == Init /\ [][Next]_vars

=============================================================================
