--------------------------- MODULE TicketSnapshot ---------------------------
(***************************************************************************)
(* One om-core instance seen at the grain of its sync.Map operations.      *)
(*                                                                         *)
(* One goroutine, IncomingReplicationQueue, writes the ticket cache: it    *)
(* applies the updates it receives and, between two bursts of updates,     *)
(* removes what expired.  Any number of InvokeMatchmakingFunctions calls   *)
(* read the cache at the same time through setDifference, which copies     *)
(* InactiveSet and then ranges over Tickets.  No lock is taken on either   *)
(* side, so every Store, Delete and visited key is a step of its own.      *)
(*                                                                         *)
(* sync.Map.Range visits each key at most once and may report its state at *)
(* any moment of the Range: a reader samples every key at a moment of its  *)
(* own choosing, in any order.                                             *)
(***************************************************************************)
EXTENDS FiniteSets

CONSTANTS Ticket,   \* ticket ids
          Reader    \* concurrent InvokeMatchmakingFunctions calls

ASSUME SnapshotAssumption == IsFiniteSet(Ticket)

VARIABLES
  tickets,      \* keys of tc.Tickets
  inactive,     \* keys of tc.InactiveSet
  writer,       \* what the applier goroutine does next
  toVisit,      \* keys the applier's current Range has not visited yet
  expired,      \* tickets past their own ExpirationTime
  aged,         \* tickets older than OM_CACHE_TICKET_TTL_MS
  seen,         \* history: ids some update was applied for
  activated,    \* history: ids whose last applied update is an Activate
  call,         \* call[r]: phase of reader r's setDifference
  dumped,       \* dumped[r]: keys r has sampled in InactiveSet
  ranged,       \* ranged[r]: keys r has sampled in Tickets
  inactiveIds,  \* inactiveIds[r]: r's local inactiveTicketIds
  pool,         \* pool[r]: r's activeTickets so far
  wasActive,    \* history: tickets active at some moment of r's call
  stayedActive, \* history: tickets active at every moment of r's call
  createdMeanwhile \* history: tickets stored in the cache during r's call

cacheVars  == <<tickets, inactive>>
writerVars == <<writer, toVisit, seen, activated>>
clockVars  == <<expired, aged>>
readerVars == <<call, dumped, ranged, inactiveIds, pool>>
histVars   == <<wasActive, stayedActive, createdMeanwhile>>
vars == <<cacheVars, writerVars, clockVars, readerVars, histVars>>

Idle == [op |-> "apply"]

WriterState ==
  {Idle, [op |-> "rangeInactive"], [op |-> "rangeTickets"]}
    \cup [op : {"storeTicket", "deleteInactive"}, id : Ticket]

TypeOK ==
  /\ tickets \in SUBSET Ticket
  /\ inactive \in SUBSET Ticket
  /\ writer \in WriterState
  /\ toVisit \in SUBSET Ticket
  /\ expired \in SUBSET Ticket
  /\ aged \in SUBSET expired
  /\ seen \in SUBSET Ticket
  /\ activated \in SUBSET seen
  /\ call \in [Reader -> {"idle", "dump", "range", "done"}]
  /\ dumped \in [Reader -> SUBSET Ticket]
  /\ ranged \in [Reader -> SUBSET Ticket]
  /\ inactiveIds \in [Reader -> SUBSET Ticket]
  /\ pool \in [Reader -> SUBSET Ticket]
  /\ wasActive \in [Reader -> SUBSET Ticket]
  /\ stayedActive \in [Reader -> SUBSET Ticket]
  /\ createdMeanwhile \in [Reader -> SUBSET Ticket]

\* A ticket is active when it is in the cache and not on the inactive list:
\* there is no other flag, and this is what an MMF's pools are drawn from.
Active == tickets \ inactive

Init ==
  /\ tickets = {}
  /\ inactive = {}
  /\ writer = Idle
  /\ toVisit = {}
  /\ expired = {}
  /\ aged = {}
  /\ seen = {}
  /\ activated = {}
  /\ call = [r \in Reader |-> "idle"]
  /\ dumped = [r \in Reader |-> {}]
  /\ ranged = [r \in Reader |-> {}]
  /\ inactiveIds = [r \in Reader |-> {}]
  /\ pool = [r \in Reader |-> {}]
  /\ wasActive = [r \in Reader |-> {}]
  /\ stayedActive = [r \in Reader |-> {}]
  /\ createdMeanwhile = [r \in Reader |-> {}]

-----------------------------------------------------------------------------
\* History.  Every writer step ends with one of these.

Running == {r \in Reader : call[r] \in {"dump", "range"}}

\* The step leaves Active' as the set of active tickets.
Observe ==
  /\ wasActive' = [r \in Reader |->
       IF r \in Running THEN wasActive[r] \cup Active' ELSE wasActive[r]]
  /\ stayedActive' = [r \in Reader |->
       IF r \in Running THEN stayedActive[r] \cap Active' ELSE stayedActive[r]]

ObserveWithout == Observe /\ UNCHANGED createdMeanwhile

ObserveCreation(t) ==
  /\ Observe
  /\ createdMeanwhile' = [r \in Reader |->
       createdMeanwhile[r] \cup (IF r \in Running THEN {t} ELSE {})]

-----------------------------------------------------------------------------
\* The applier goroutine: applying updates.

\* A Ticket update, first half: the id goes on the inactive list.  The stream
\* has one Ticket update per id, before any other update of that id.
CreateInactive(t) ==
  /\ writer = Idle
  /\ t \notin seen
  /\ seen' = seen \cup {t}
  /\ inactive' = inactive \cup {t}
  /\ writer' = [op |-> "storeTicket", id |-> t]
  /\ UNCHANGED <<tickets, toVisit, activated, clockVars, readerVars>>
  /\ ObserveWithout

\* A Ticket update, second half: the ticket itself is stored.
StoreTicket(t) ==
  /\ writer = [op |-> "storeTicket", id |-> t]
  /\ tickets' = tickets \cup {t}
  /\ writer' = Idle
  /\ UNCHANGED <<inactive, toVisit, seen, activated, clockVars, readerVars>>
  /\ ObserveCreation(t)

\* An Activate update.
Activate(t) ==
  /\ writer = Idle
  /\ seen' = seen \cup {t}
  /\ inactive' = inactive \ {t}
  /\ activated' = activated \cup {t}
  /\ UNCHANGED <<tickets, writer, toVisit, clockVars, readerVars>>
  /\ ObserveWithout

\* A Deactivate update.  It leaves an entry even if the ticket is gone.
Deactivate(t) ==
  /\ writer = Idle
  /\ seen' = seen \cup {t}
  /\ inactive' = inactive \cup {t}
  /\ activated' = activated \ {t}
  /\ UNCHANGED <<tickets, writer, toVisit, clockVars, readerVars>>
  /\ ObserveWithout

-----------------------------------------------------------------------------
\* The applier goroutine: the expiration closure, run when no update is left.

StartExpiration ==
  /\ writer = Idle
  /\ writer' = [op |-> "rangeInactive"]
  /\ toVisit' = inactive
  /\ UNCHANGED <<cacheVars, seen, activated, clockVars, readerVars, histVars>>

\* Mutant: the list entry goes, the ticket stays.
VisitInactiveKeepingTicket(t) ==
  /\ writer.op = "rangeInactive"
  /\ t \in toVisit
  /\ toVisit' = toVisit \ {t}
  /\ writer' = IF t \in aged THEN [op |-> "deleteInactive", id |-> t] ELSE writer
  /\ UNCHANGED <<cacheVars, seen, activated, clockVars, readerVars>>
  /\ ObserveWithout

\* Visiting t on the inactive list: if t is past the TTL its ticket is deleted
\* at once, and the list entry by the next step.
VisitInactive(t) ==
  /\ writer.op = "rangeInactive"
  /\ t \in toVisit
  /\ toVisit' = toVisit \ {t}
  /\ IF t \in aged
       THEN /\ tickets' = tickets \ {t}
            /\ writer' = [op |-> "deleteInactive", id |-> t]
       ELSE UNCHANGED <<tickets, writer>>
  /\ UNCHANGED <<inactive, seen, activated, clockVars, readerVars>>
  /\ ObserveWithout

DeleteInactive(t) ==
  /\ writer = [op |-> "deleteInactive", id |-> t]
  /\ inactive' = inactive \ {t}
  /\ writer' = [op |-> "rangeInactive"]
  /\ UNCHANGED <<tickets, toVisit, seen, activated, clockVars, readerVars>>
  /\ ObserveWithout

StartTicketExpiration ==
  /\ writer.op = "rangeInactive"
  /\ toVisit = {}
  /\ writer' = [op |-> "rangeTickets"]
  /\ toVisit' = tickets
  /\ UNCHANGED <<cacheVars, seen, activated, clockVars, readerVars, histVars>>

\* Visiting t in Tickets: only the ticket goes, its inactive entry stays.
VisitTicket(t) ==
  /\ writer.op = "rangeTickets"
  /\ t \in toVisit
  /\ toVisit' = toVisit \ {t}
  /\ tickets' = IF t \in expired THEN tickets \ {t} ELSE tickets
  /\ UNCHANGED <<inactive, writer, seen, activated, clockVars, readerVars>>
  /\ ObserveWithout

\* The assignments are expired next; they play no part in the pools.
EndExpiration ==
  /\ writer.op = "rangeTickets"
  /\ toVisit = {}
  /\ writer' = Idle
  /\ UNCHANGED <<cacheVars, toVisit, seen, activated, clockVars, readerVars, histVars>>

-----------------------------------------------------------------------------
\* Time: a ticket reaches its own expiration time no later than the TTL.

Expire(t) ==
  /\ t \notin expired
  /\ expired' = expired \cup {t}
  /\ UNCHANGED <<cacheVars, writerVars, aged, readerVars, histVars>>

\* Mutant: an expiration time later than the TTL was let through.
AgeFirst(t) ==
  /\ t \notin aged
  /\ aged' = aged \cup {t}
  /\ UNCHANGED <<cacheVars, writerVars, expired, readerVars, histVars>>

Age(t) ==
  /\ t \in expired \ aged
  /\ aged' = aged \cup {t}
  /\ UNCHANGED <<cacheVars, writerVars, expired, readerVars, histVars>>

-----------------------------------------------------------------------------
\* setDifference(&tc.Tickets, &tc.InactiveSet), run by a reader.

StartCall(r) ==
  /\ call[r] = "idle"
  /\ call' = [call EXCEPT ![r] = "dump"]
  /\ wasActive' = [wasActive EXCEPT ![r] = Active]
  /\ stayedActive' = [stayedActive EXCEPT ![r] = Active]
  /\ createdMeanwhile' = [createdMeanwhile EXCEPT ![r] = {}]
  /\ UNCHANGED <<cacheVars, writerVars, clockVars, dumped, ranged,
                 inactiveIds, pool>>

\* syncMapDump(inactiveSet) visits, or passes by, key t.
DumpInactive(r, t) ==
  /\ call[r] = "dump"
  /\ t \notin dumped[r]
  /\ dumped' = [dumped EXCEPT ![r] = @ \cup {t}]
  /\ inactiveIds' = [inactiveIds EXCEPT ![r] = @ \cup ({t} \cap inactive)]
  /\ UNCHANGED <<cacheVars, writerVars, clockVars, call, ranged, pool, histVars>>

\* Mutant: the dump of the inactive list stops early.
FinishDumpEarly(r) ==
  /\ call[r] = "dump"
  /\ call' = [call EXCEPT ![r] = "range"]
  /\ UNCHANGED <<cacheVars, writerVars, clockVars, dumped, ranged,
                 inactiveIds, pool, histVars>>

FinishDump(r) ==
  /\ call[r] = "dump"
  /\ dumped[r] = Ticket
  /\ call' = [call EXCEPT ![r] = "range"]
  /\ UNCHANGED <<cacheVars, writerVars, clockVars, dumped, ranged,
                 inactiveIds, pool, histVars>>

\* Mutant: the Range callback returns ok, so the first inactive ticket ends it.
RangeTicketsUntilInactive(r, t) ==
  /\ call[r] = "range"
  /\ t \notin ranged[r]
  /\ ranged' = [ranged EXCEPT ![r] =
       IF t \in tickets \cap inactiveIds[r] THEN Ticket ELSE @ \cup {t}]
  /\ pool' = [pool EXCEPT ![r] = @ \cup (({t} \cap tickets) \ inactiveIds[r])]
  /\ UNCHANGED <<cacheVars, writerVars, clockVars, call, dumped, inactiveIds,
                 histVars>>

\* tix.Range visits, or passes by, key t.
RangeTickets(r, t) ==
  /\ call[r] = "range"
  /\ t \notin ranged[r]
  /\ ranged' = [ranged EXCEPT ![r] = @ \cup {t}]
  /\ pool' = [pool EXCEPT ![r] = @ \cup (({t} \cap tickets) \ inactiveIds[r])]
  /\ UNCHANGED <<cacheVars, writerVars, clockVars, call, dumped, inactiveIds,
                 histVars>>

FinishCall(r) ==
  /\ call[r] = "range"
  /\ ranged[r] = Ticket
  /\ call' = [call EXCEPT ![r] = "done"]
  /\ UNCHANGED <<cacheVars, writerVars, clockVars, dumped, ranged,
                 inactiveIds, pool, histVars>>

-----------------------------------------------------------------------------
Writer ==
  \/ \E t \in Ticket :
       \/ CreateInactive(t) \/ StoreTicket(t)
       \/ Activate(t) \/ Deactivate(t)
       \/ VisitInactive(t) \/ DeleteInactive(t) \/ VisitTicket(t)
  \/ StartExpiration \/ StartTicketExpiration \/ EndExpiration

Clock == \E t \in Ticket : Expire(t) \/ Age(t)

Invoke(r) ==
  \/ StartCall(r) \/ FinishDump(r) \/ FinishCall(r)
  \/ \E t \in Ticket : DumpInactive(r, t) \/ RangeTickets(r, t)

Next == Writer \/ Clock \/ \E r \in Reader : Invoke(r)

Spec == Init /\ [][Next]_vars

-----------------------------------------------------------------------------
\* A ticket that can be drawn into a pool is one whose last update was an
\* Activate: the two halves of a creation and the two deletions of an expired
\* ticket are ordered so that no moment in between shows an inactive ticket as
\* active (replicatedticketcache.go, "ticket ids expired from the inactive list
\* MUST also have their tickets removed").
ActiveWasActivated == Active \subseteq activated

\* What a call puts in its pools was active at some moment of the call, or was
\* created while the call ran: a ticket deactivated before the call started is
\* never offered to an MMF, whatever the applier does meanwhile.
PoolSound ==
  \A r \in Reader :
    call[r] = "done" => pool[r] \subseteq wasActive[r] \cup createdMeanwhile[r]

\* A ticket that is active from the start of a call to its end is in the pools:
\* updates and expirations of other tickets never hide it.
PoolComplete ==
  \A r \in Reader : call[r] = "done" => stayedActive[r] \subseteq pool[r]

\* What CreateTicket's comment promises: a ticket starts out inactive and must
\* be activated before it is put in a pool.  The code breaks it: a ticket
\* created after the dump of InactiveSet and before the Range of Tickets is
\* taken for active.
PoolOnlyActive ==
  \A r \in Reader : call[r] = "done" => pool[r] \subseteq wasActive[r]

=============================================================================
