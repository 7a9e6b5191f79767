-------------------------- MODULE TicketReplication -------------------------
(***************************************************************************)
(* The replication of ticket state from Redis into the instances' caches.  *)
(*                                                                         *)
(* Every change of ticket state is an entry of one Redis stream,           *)
(* om-replication.  Each om-core instance has a polling goroutine, which   *)
(* reads the stream (GetUpdates) and feeds a bounded channel, and an       *)
(* applier goroutine, which applies the updates to the instance's maps     *)
(* and, when the channel is empty, removes what expired.  Writers trim     *)
(* from the stream what is older than the ticket TTL, and an instance that *)
(* starts reads what is left.                                              *)
(*                                                                         *)
(* An entry's id is its index in log, the history of the stream; a ticket  *)
(* id is the id of the entry that created it.  A key that names no entry   *)
(* is Malformed: the code finds no creation time in it.                    *)
(***************************************************************************)
EXTENDS Integers, Sequences

CONSTANTS
  Instance,     \* om-core instances
  TTL,          \* OM_CACHE_TICKET_TTL_MS
  ATTL,         \* OM_CACHE_ASSIGNMENT_ADDITIONAL_TTL_MS
  Capacity,     \* OM_CACHE_IN_MAX_UPDATES_PER_POLL: XREAD COUNT, channel size
  MaxLog,       \* bound: entries ever added to the stream
  MaxTime,      \* bound: the clock
  MaxRestarts   \* bound: restarts of all instances together

ASSUME ReplicationAssumption ==
  /\ TTL \in Nat
  /\ ATTL \in Nat \ {0}
  /\ Capacity \in Nat \ {0}
  /\ MaxLog \in Nat
  /\ MaxTime \in Nat
  /\ MaxRestarts \in Nat

VARIABLES
  now,       \* the clock, shared: instances and Redis are taken to agree on it
  log,       \* every entry ever added to the stream, oldest first
  trimmed,   \* XTRIM removed entries 1..trimmed
  readLen,   \* the read endpoint has received the stream up to this entry
  readTrim,  \* and, at that moment, lacked entries 1..readTrim
  cursor,    \* cursor[i]: rr.replId, the last entry GetUpdates returned
  next,      \* next[i]: the entry of that result to put in the channel next
  queue,     \* queue[i]: the channel replStream
  done,      \* history: done[i] is the last entry applied by i
  tickets,   \* tickets[i]: keys of tc.Tickets
  inactive,  \* inactive[i]: keys of tc.InactiveSet
  assigned,  \* assigned[i]: keys of tc.Assignments
  restarts   \* bound: restarts so far

streamVars == <<log, trimmed>>
readVars   == <<readLen, readTrim>>
pollVars   == <<cursor, next>>
cacheVars  == <<tickets, inactive, assigned>>
vars == <<now, streamVars, readVars, pollVars, queue, done, cacheVars, restarts>>

Malformed == 0

Command == {"ticket", "activate", "deactivate", "assign"}

Entry == [cmd : Command, key : Nat, at : Nat, exp : Nat]

Larger(a, b)  == IF a > b THEN a ELSE b
Smaller(a, b) == IF a < b THEN a ELSE b

Entries == 1 .. Len(log)

\* now - creation time > OM_CACHE_TICKET_TTL_MS
Dead(k) == now - log[k].at > TTL

\* time.Now().After(ticket.ExpirationTime)
Expired(k) == now > log[k].exp

TypeOK ==
  /\ now \in Nat
  /\ log \in Seq(Entry)
  /\ trimmed \in 0 .. Len(log)
  /\ readLen \in 0 .. Len(log)
  /\ readTrim \in 0 .. trimmed
  /\ cursor \in [Instance -> 0 .. Len(log)]
  /\ next \in [Instance -> 1 .. Len(log) + 1]
  /\ queue \in [Instance -> Seq(Entries)]
  /\ done \in [Instance -> 0 .. Len(log)]
  /\ tickets \in [Instance -> SUBSET Entries]
  /\ inactive \in [Instance -> SUBSET (Entries \cup {Malformed})]
  /\ assigned \in [Instance -> SUBSET (Entries \cup {Malformed})]
  /\ restarts \in Nat

Init ==
  /\ now = 0
  /\ log = << >>
  /\ trimmed = 0
  /\ readLen = 0
  /\ readTrim = 0
  /\ cursor = [i \in Instance |-> 0]
  /\ next = [i \in Instance |-> 1]
  /\ queue = [i \in Instance |-> << >>]
  /\ done = [i \in Instance |-> 0]
  /\ tickets = [i \in Instance |-> {}]
  /\ inactive = [i \in Instance |-> {}]
  /\ assigned = [i \in Instance |-> {}]
  /\ restarts = 0

-----------------------------------------------------------------------------
\* Writing the stream (SendUpdates, by any instance).

XAdd(cmd, key, exp) ==
  /\ Len(log) < MaxLog
  /\ log' = Append(log, [cmd |-> cmd, key |-> key, at |-> now, exp |-> exp])
  /\ UNCHANGED <<now, trimmed, readVars, pollVars, queue, done, cacheVars, restarts>>

\* CreateTicket: the entry's id becomes the ticket's id.  The expiration time
\* was checked to be no later than the TTL from then.
AddTicket == \E life \in 0 .. TTL : XAdd("ticket", Len(log) + 1, now + life)

\* ActivateTickets checks the form of the ids, not that they name a ticket.
AddActivate == \E key \in Entries : XAdd("activate", key, now)

\* DeactivateTickets checks the ids too; the deactivation of a match's tickets
\* takes whatever ids the MMF wrote in the match.
AddDeactivate == \E key \in Entries \cup {Malformed} : XAdd("deactivate", key, now)

AddAssign == \E key \in Entries \cup {Malformed} : XAdd("assign", key, now)

\* Mutant: the threshold is inclusive.
XTrimInclusive(n) ==
  /\ trimmed < n
  /\ now - log[n].at >= TTL
  /\ n < Len(log) => log[n].at < log[n + 1].at
  /\ trimmed' = n
  /\ UNCHANGED <<now, log, readVars, pollVars, queue, done, cacheVars, restarts>>

\* XTRIM MINID: every entry of a time before a threshold that was, when the
\* batch was built, one TTL ago.
XTrim(n) ==
  /\ trimmed < n
  /\ Dead(n)
  /\ n < Len(log) => log[n].at < log[n + 1].at
  /\ trimmed' = n
  /\ UNCHANGED <<now, log, readVars, pollVars, queue, done, cacheVars, restarts>>

\* Redis replicates the stream to the endpoint om-core reads.
Sync ==
  /\ readLen' = Len(log)
  /\ readTrim' = trimmed
  /\ UNCHANGED <<now, streamVars, pollVars, queue, done, cacheVars, restarts>>

-----------------------------------------------------------------------------
\* The polling goroutine of instance i.

\* Mutant: the cursor moves by COUNT from the first entry of the reply, instead of
\* to its last.
PollByCount(i) ==
  LET first == Larger(cursor[i], readTrim) + 1
  IN  /\ next[i] > cursor[i]
      /\ first <= readLen
      /\ next' = [next EXCEPT ![i] = first]
      /\ cursor' = [cursor EXCEPT ![i] = first + Capacity]
      /\ UNCHANGED <<now, streamVars, readVars, queue, done, cacheVars, restarts>>

\* Mutant: a reply of a single entry is taken for an empty one.
PollSeveral(i) ==
  LET first == Larger(cursor[i], readTrim) + 1
  IN  /\ next[i] > cursor[i]
      /\ first < readLen
      /\ next' = [next EXCEPT ![i] = first]
      /\ cursor' = [cursor EXCEPT ![i] = Smaller(first + Capacity - 1, readLen)]
      /\ UNCHANGED <<now, streamVars, readVars, queue, done, cacheVars, restarts>>

\* GetUpdates returned at least one entry.  (When nothing is newer than the
\* cursor it returns empty after a timeout and nothing changes.)
Poll(i) ==
  LET first == Larger(cursor[i], readTrim) + 1
  IN  /\ next[i] > cursor[i]
      /\ first <= readLen
      /\ next' = [next EXCEPT ![i] = first]
      /\ cursor' = [cursor EXCEPT ![i] = Smaller(first + Capacity - 1, readLen)]
      /\ UNCHANGED <<now, streamVars, readVars, queue, done, cacheVars, restarts>>

\* Mutant: an update that finds the channel full is dropped.
EnqueueOrDrop(i) ==
  /\ next[i] <= cursor[i]
  /\ queue' = [queue EXCEPT ![i] =
       IF Len(@) < Capacity THEN Append(@, next[i]) ELSE @]
  /\ next' = [next EXCEPT ![i] = @ + 1]
  /\ UNCHANGED <<now, streamVars, readVars, cursor, done, cacheVars, restarts>>

\* replStream <- *curUpdate, which blocks while the channel is full.
Enqueue(i) ==
  /\ next[i] <= cursor[i]
  /\ Len(queue[i]) < Capacity
  /\ queue' = [queue EXCEPT ![i] = Append(@, next[i])]
  /\ next' = [next EXCEPT ![i] = @ + 1]
  /\ UNCHANGED <<now, streamVars, readVars, cursor, done, cacheVars, restarts>>

-----------------------------------------------------------------------------
\* The applier goroutine of instance i.

\* Mutant: an assignment is stored under its own id, not its ticket's.
ApplyByEntryId(i) ==
  LET k == Head(queue[i])
      e == log[k]
  IN  /\ queue[i] # << >>
      /\ queue' = [queue EXCEPT ![i] = Tail(@)]
      /\ done' = [done EXCEPT ![i] = k]
      /\ tickets' = [tickets EXCEPT ![i] =
           IF e.cmd = "ticket" THEN @ \cup {k} ELSE @]
      /\ inactive' = [inactive EXCEPT ![i] =
           CASE e.cmd = "ticket"     -> @ \cup {k}
             [] e.cmd = "activate"   -> @ \ {e.key}
             [] e.cmd = "deactivate" -> @ \cup {e.key}
             [] OTHER                -> @]
      /\ assigned' = [assigned EXCEPT ![i] =
           IF e.cmd = "assign" THEN @ \cup {k} ELSE @]
      /\ UNCHANGED <<now, streamVars, readVars, pollVars, restarts>>

Apply(i) ==
  LET k == Head(queue[i])
      e == log[k]
  IN  /\ queue[i] # << >>
      /\ queue' = [queue EXCEPT ![i] = Tail(@)]
      /\ done' = [done EXCEPT ![i] = k]
      /\ tickets' = [tickets EXCEPT ![i] =
           IF e.cmd = "ticket" THEN @ \cup {k} ELSE @]
      /\ inactive' = [inactive EXCEPT ![i] =
           CASE e.cmd = "ticket"     -> @ \cup {k}
             [] e.cmd = "activate"   -> @ \ {e.key}
             [] e.cmd = "deactivate" -> @ \cup {e.key}
             [] OTHER                -> @]
      /\ assigned' = [assigned EXCEPT ![i] =
           IF e.cmd = "assign" THEN @ \cup {e.key} ELSE @]
      /\ UNCHANGED <<now, streamVars, readVars, pollVars, restarts>>

\* Ids the expiration closure removes from a set of ids: no creation time can
\* be read from a malformed id, which counts as age zero on the inactive list
\* and as infinitely old in the assignments.
Aged(ids) == {t \in ids \ {Malformed} : Dead(t)}

Outlived(ids) ==
  {t \in ids : t = Malformed \/ now - log[t].at > TTL + ATTL}

\* Mutant: only the inactive list is swept for tickets.
RemoveInactiveOnly(i) ==
  /\ tickets' = [tickets EXCEPT ![i] = @ \ Aged(inactive[i])]
  /\ inactive' = [inactive EXCEPT ![i] = @ \ Aged(@)]
  /\ assigned' = [assigned EXCEPT ![i] = @ \ Outlived(@)]
  /\ UNCHANGED <<now, streamVars, readVars, pollVars, queue, done, restarts>>

RemoveExpired(i) ==
  /\ tickets' = [tickets EXCEPT ![i] =
       {t \in @ \ Aged(inactive[i]) : ~ Expired(t)}]
  /\ inactive' = [inactive EXCEPT ![i] = @ \ Aged(@)]
  /\ assigned' = [assigned EXCEPT ![i] = @ \ Outlived(@)]
  /\ UNCHANGED <<now, streamVars, readVars, pollVars, queue, done, restarts>>

\* The channel is empty: the default case of the select.
EndBurst(i) == queue[i] = << >> /\ RemoveExpired(i)

\* updateTimeout fired although updates are waiting.
LockTimeout(i) == queue[i] # << >> /\ RemoveExpired(i)

-----------------------------------------------------------------------------
\* Instance i stops, losing its memory, and starts again: it asks for the
\* entries after <now - TTL - ATTL>-0.

\* Mutant: a starting instance asks for new updates only.
HorizonNow == now

Horizon == now - TTL - ATTL

\* Entry k does not come after the id <Horizon>-0.
BeforeHorizon(k) ==
  \/ log[k].at < Horizon
  \/ log[k].at = Horizon /\ \A j \in 1 .. k - 1 : log[j].at < Horizon

Restart(i) ==
  /\ restarts < MaxRestarts
  /\ restarts' = restarts + 1
  /\ \E c \in 0 .. Len(log) :
       /\ \A k \in Entries : k <= c <=> BeforeHorizon(k)
       /\ cursor' = [cursor EXCEPT ![i] = c]
       /\ next' = [next EXCEPT ![i] = c + 1]
       /\ done' = [done EXCEPT ![i] = c]
  /\ queue' = [queue EXCEPT ![i] = << >>]
  /\ tickets' = [tickets EXCEPT ![i] = {}]
  /\ inactive' = [inactive EXCEPT ![i] = {}]
  /\ assigned' = [assigned EXCEPT ![i] = {}]
  /\ UNCHANGED <<now, streamVars, readVars>>

Tick ==
  /\ now < MaxTime
  /\ now' = now + 1
  /\ UNCHANGED <<streamVars, readVars, pollVars, queue, done, cacheVars, restarts>>

-----------------------------------------------------------------------------
Stream ==
  \/ AddTicket \/ AddActivate \/ AddDeactivate \/ AddAssign
  \/ \E n \in Entries : XTrim(n)
  \/ Sync

Core(i) ==
  \/ Poll(i) \/ Enqueue(i)
  \/ Apply(i) \/ EndBurst(i) \/ LockTimeout(i)
  \/ Restart(i)

Next == Stream \/ Tick \/ \E i \in Instance : Core(i)

Spec == Init /\ [][Next]_vars

\* Both goroutines keep running, Redis keeps replicating.  Nothing makes
\* clients send updates, the clock advance, or an instance restart.
Fairness ==
  /\ WF_vars(Sync)
  /\ \A i \in Instance :
       WF_vars(Poll(i)) /\ WF_vars(Enqueue(i)) /\ WF_vars(Apply(i))
         /\ WF_vars(EndBurst(i))

FairSpec == Spec /\ Fairness

-----------------------------------------------------------------------------
\* What the cache is for: the abstract view, at position done[i], is what an
\* MMF can be given now - the live tickets not on the inactive list.
PoolOf(i) ==
  {t \in tickets[i] \ inactive[i] : log[t].cmd = "ticket" /\ ~ Expired(t)}

Cache == INSTANCE TicketPool
           WITH pos <- done, pool <- [i \in Instance |-> PoolOf(i)]

\* The cache shows the log: a live ticket that i has received is in Tickets,
\* and is on the inactive list exactly if the last update of it that i has
\* received is not an Activate.  It holds whatever was trimmed, polled late or
\* replayed after a restart.
LiveViewMatchesLog ==
  \A i \in Instance : \A t \in 1 .. done[i] :
    Cache!Live(t) =>
      /\ t \in tickets[i]
      /\ t \in inactive[i] <=> ~ Cache!ActiveAt(t, done[i])

\* An assignment that was received is kept at least until its ticket's TTL has
\* passed, restarts included (api.proto, CreateAssignments).
AssignmentsKept ==
  \A i \in Instance : \A a \in 1 .. done[i] :
    log[a].cmd = "assign" /\ log[a].key # Malformed /\ ~ Dead(log[a].key)
      => log[a].key \in assigned[i]

\* Updates wait in the channel in stream order, and an entry between the last
\* applied one and the poller's position that is not waiting is dead: neither
\* trimming, nor the read endpoint's lag, nor a full channel loses one.
NothingLost ==
  \A i \in Instance :
    /\ \A m, n \in DOMAIN queue[i] : m < n => queue[i][m] < queue[i][n]
    /\ \A k \in done[i] + 1 .. next[i] - 1 :
         Dead(k) \/ \E n \in DOMAIN queue[i] : queue[i][n] = k

\* The cache implements the abstract view: every step advances it by an entry,
\* skipping dead ones only, or starts it anew, or leaves it alone.
ImplementsTicketPool == Cache!Spec

\* Every update reaches every instance, or outlives its usefulness first.
EveryUpdateArrives ==
  \A i \in Instance : \A k \in 1 .. MaxLog :
    (k \in Entries) ~> (k \in Entries /\ (done[i] >= k \/ Dead(k)))

\* Tickets leave the cache once expired, and so do the inactive entries of
\* tickets past the TTL.
EveryTicketLeaves ==
  \A i \in Instance : \A k \in 1 .. MaxLog :
    /\ (k \in tickets[i] /\ Expired(k)) ~> (k \notin tickets[i])
    /\ (k \in inactive[i] /\ Dead(k)) ~> (k \notin inactive[i])

=============================================================================
