----------------------- MODULE TicketReplication_proofs ---------------------
(***************************************************************************)
(* The cache of every instance implements TicketPool, for any number of    *)
(* instances, any TTLs and any channel capacity.                           *)
(*                                                                         *)
(* The argument: entries are ordered by time, and a ticket lives at most   *)
(* TTL.  So if an instance passes over a dead entry, every ticket created  *)
(* before that entry is dead as well, and an instance misses no update of  *)
(* a ticket that is alive.  That what is passed over is dead follows from  *)
(* what XTRIM removes, from where a starting instance begins to read, and  *)
(* from the channel, which keeps every entry until it is applied.          *)
(***************************************************************************)
EXTENDS TicketReplication, SequenceTheorems, TLAPS

USE DEF streamVars, readVars, pollVars, cacheVars

-----------------------------------------------------------------------------
\* The inductive invariant.

\* Entries are in the order of their times, a ticket lives at most TTL, and an
\* update of a ticket comes after the ticket.
LogOK ==
  \A k \in Entries :
    /\ log[k].at <= now
    /\ log[k].exp <= log[k].at + TTL
    /\ log[k].cmd = "ticket" => log[k].key = k
    /\ log[k].cmd # "ticket" => log[k].key < k
    /\ \A j \in 1 .. k : log[j].at <= log[k].at

\* XTRIM removes what is dead.
TrimmedDead == \A k \in 1 .. trimmed : Dead(k)

\* What i has applied, has in the channel, and has been given by GetUpdates.
PositionsOK ==
  \A i \in Instance :
    /\ done[i] < next[i]
    /\ next[i] <= cursor[i] + 1
    /\ \A n \in DOMAIN queue[i] : done[i] < queue[i][n] /\ queue[i][n] < next[i]

StoredSeen == \A i \in Instance : \A t \in tickets[i] : t <= done[i]

IInv == /\ TypeOK /\ LogOK /\ TrimmedDead
        /\ PositionsOK /\ NothingLost
        /\ StoredSeen /\ LiveViewMatchesLog /\ AssignmentsKept

-----------------------------------------------------------------------------
\* Type correctness.

\* Appending an entry leaves the others where they were.
LEMMA AppendEntry ==
  ASSUME NEW S, NEW s \in Seq(S), NEW e \in S
  PROVE  /\ Append(s, e) \in Seq(S)
         /\ Len(Append(s, e)) = Len(s) + 1
         /\ \A k \in 1 .. Len(s) : Append(s, e)[k] = s[k]
         /\ Append(s, e)[Len(s) + 1] = e
  BY AppendProperties

LEMMA TypeInit == Init => TypeOK
  BY ReplicationAssumption DEF Init, TypeOK, Entries

\* The sets of entries only grow with the log.
LEMMA TypeLog ==
  ASSUME TypeOK, NEW e \in Entry, log' = Append(log, e),
         UNCHANGED <<now, trimmed, readVars, pollVars, queue, done, cacheVars,
                     restarts>>
  PROVE  TypeOK'
<1>1. log' \in Seq(Entry) /\ Len(log') = Len(log) + 1
  BY AppendEntry DEF TypeOK
<1>2. Entries \subseteq Entries'
  BY <1>1 DEF Entries, TypeOK
<1>3. \A i \in Instance : queue[i] \in Seq(Entries')
  BY <1>2, SeqMonotonic DEF TypeOK
<1>4. queue' \in [Instance -> Seq(Entries')]
  BY <1>3 DEF TypeOK
<1>5. /\ tickets' \in [Instance -> SUBSET Entries']
      /\ inactive' \in [Instance -> SUBSET (Entries' \cup {Malformed})]
      /\ assigned' \in [Instance -> SUBSET (Entries' \cup {Malformed})]
  BY <1>2 DEF TypeOK
<1>6. Len(log) \in Nat /\ Len(log') \in Nat
  BY <1>1 DEF TypeOK
<1>7. /\ cursor' \in [Instance -> 0 .. Len(log')]
      /\ next' \in [Instance -> 1 .. Len(log') + 1]
      /\ done' \in [Instance -> 0 .. Len(log')]
  BY <1>1, <1>6 DEF TypeOK
<1>8. QED
  BY <1>1, <1>4, <1>5, <1>6, <1>7 DEF TypeOK

\* Every writer of the stream appends one entry, of a known shape.
EntryAdded(e) ==
  /\ e \in Entry
  /\ log' = Append(log, e)
  /\ e.at = now /\ e.exp <= now + TTL
  /\ e.cmd = "ticket" => e.key = Len(log) + 1
  /\ e.cmd # "ticket" => e.key \in 0 .. Len(log)
  /\ UNCHANGED <<now, trimmed, readVars, pollVars, queue, done, cacheVars,
                 restarts>>

Added == AddTicket \/ AddActivate \/ AddDeactivate \/ AddAssign

LEMMA AddedEntry ==
  ASSUME TypeOK, Added
  PROVE  \E e : EntryAdded(e)
<1> USE ReplicationAssumption
<1>0. Len(log) \in Nat /\ now \in Nat
  BY DEF TypeOK
<1>1. ASSUME NEW cmd \in Command, NEW key \in Nat, NEW life \in 0 .. TTL,
             XAdd(cmd, key, now + life),
             IF cmd = "ticket" THEN key = Len(log) + 1 ELSE key \in 0 .. Len(log)
      PROVE  \E e : EntryAdded(e)
  <2> DEFINE e == [cmd |-> cmd, key |-> key, at |-> now, exp |-> now + life]
  <2>1. e \in Entry
    BY <1>0 DEF Entry
  <2>2. EntryAdded(e)
    BY <1>0, <1>1, <2>1 DEF EntryAdded, XAdd
  <2>3. QED
    BY <2>2
<1>2. CASE AddTicket
  <2>1. PICK life \in 0 .. TTL : XAdd("ticket", Len(log) + 1, now + life)
    BY <1>2 DEF AddTicket
  <2>2. QED
    BY <1>0, <1>1, <2>1 DEF Command
<1>3. ASSUME NEW cmd \in Command, NEW key \in 0 .. Len(log), cmd # "ticket",
             XAdd(cmd, key, now)
      PROVE  \E e : EntryAdded(e)
  <2>1. now + 0 = now /\ 0 \in 0 .. TTL
    BY <1>0
  <2>2. XAdd(cmd, key, now + 0)
    BY <1>3, <2>1
  <2>3. key \in Nat
    BY <1>0
  <2>4. QED
    BY <1>1, <1>3, <2>1, <2>2, <2>3
<1>4. CASE AddActivate
  BY <1>0, <1>3, <1>4 DEF AddActivate, Entries, Command
<1>5. CASE AddDeactivate
  BY <1>0, <1>3, <1>5 DEF AddDeactivate, Entries, Command, Malformed
<1>6. CASE AddAssign
  BY <1>0, <1>3, <1>6 DEF AddAssign, Entries, Command, Malformed
<1>7. QED
  BY <1>2, <1>4, <1>5, <1>6 DEF Added

LEMMA EntryTyped ==
  ASSUME TypeOK, NEW k \in Entries
  PROVE  /\ k \in Nat /\ Len(log) \in Nat /\ now \in Nat
         /\ log[k].cmd \in Command /\ log[k].key \in Nat
         /\ log[k].at \in Nat /\ log[k].exp \in Nat
<1>1. log[k] \in Entry /\ Len(log) \in Nat
  BY DEF TypeOK, Entries
<1>2. QED
  BY <1>1 DEF TypeOK, Entry, Entries

LEMMA EntryFacts ==
  ASSUME TypeOK, LogOK, NEW k \in Entries
  PROVE  /\ k \in Nat /\ log[k].cmd \in Command
         /\ log[k].at \in Nat /\ log[k].exp \in Nat
         /\ log[k].key \in 0 .. k
         /\ log[k].key \in Entries \cup {Malformed}
<1>1. log[k].key \in Nat /\ log[k].key <= k
  BY EntryTyped DEF LogOK
<1>2. QED
  BY <1>1, EntryTyped DEF Entries, Malformed

LEMMA TypeStep == TypeOK /\ LogOK /\ [Next]_vars => TypeOK'
<1> SUFFICES ASSUME TypeOK, LogOK, [Next]_vars PROVE TypeOK'
  OBVIOUS
<1> USE ReplicationAssumption
<1>0. Len(log) \in Nat
  BY DEF TypeOK
<1>1. CASE Added
  BY <1>1, AddedEntry, TypeLog DEF EntryAdded
<1>2. ASSUME NEW n \in Entries, XTrim(n) PROVE TypeOK'
  BY <1>0, <1>2 DEF XTrim, TypeOK, Entries
<1>3. CASE Sync
  BY <1>0, <1>3 DEF Sync, TypeOK, Entries
<1>4. ASSUME NEW i \in Instance, Poll(i) PROVE TypeOK'
  <2> DEFINE first == Larger(cursor[i], readTrim) + 1
             last  == Smaller(first + Capacity - 1, readLen)
  <2>1. /\ first <= readLen
        /\ next' = [next EXCEPT ![i] = first]
        /\ cursor' = [cursor EXCEPT ![i] = last]
        /\ UNCHANGED <<now, log, trimmed, readLen, readTrim, queue, done, tickets,
                       inactive, assigned, restarts>>
    BY <1>4 DEF Poll
  <2>2. /\ cursor[i] \in 0 .. Len(log) /\ readTrim \in 0 .. Len(log)
        /\ readLen \in 0 .. Len(log)
    BY <1>0 DEF TypeOK
  <2>3. first \in 1 .. Len(log)
    BY <1>0, <2>1, <2>2 DEF Larger
  <2>4. last \in 0 .. Len(log)
    BY <1>0, <2>2, <2>3 DEF Smaller
  <2> HIDE DEF first, last
  <2>5. /\ cursor' \in [Instance -> 0 .. Len(log)]
        /\ next' \in [Instance -> 1 .. Len(log) + 1]
    BY <1>0, <2>1, <2>3, <2>4 DEF TypeOK
  <2>6. QED
    BY <2>1, <2>5 DEF TypeOK, Entries
<1>5. ASSUME NEW i \in Instance, Enqueue(i) PROVE TypeOK'
  <2>1. next[i] \in Entries
    BY <1>0, <1>5 DEF Enqueue, TypeOK, Entries
  <2>2. Append(queue[i], next[i]) \in Seq(Entries)
    BY <2>1, AppendEntry DEF TypeOK
  <2>3. next[i] + 1 \in 1 .. Len(log) + 1
    BY <1>0, <2>1 DEF Entries
  <2>4. QED
    BY <1>5, <2>2, <2>3 DEF Enqueue, TypeOK, Entries
<1>6. ASSUME NEW i \in Instance, Apply(i) PROVE TypeOK'
  <2>1. Head(queue[i]) \in Entries /\ Tail(queue[i]) \in Seq(Entries)
    BY <1>6, HeadTailProperties DEF Apply, TypeOK
  <2>2. /\ queue' = [queue EXCEPT ![i] = Tail(queue[i])]
        /\ done' = [done EXCEPT ![i] = Head(queue[i])]
        /\ UNCHANGED <<now, log, trimmed, readLen, readTrim, cursor, next, restarts>>
    BY <1>6 DEF Apply
  <2>4. queue' \in [Instance -> Seq(Entries)]
    BY <2>1, <2>2 DEF TypeOK
  <2>5. done' \in [Instance -> 0 .. Len(log)]
    BY <1>0, <2>1, <2>2 DEF TypeOK, Entries
  <2>6. log[Head(queue[i])].key \in Entries \cup {Malformed}
    BY <2>1, EntryFacts
  <2> DEFINE e == log[Head(queue[i])]
             I == CASE e.cmd = "ticket"     -> inactive[i] \cup {Head(queue[i])}
                    [] e.cmd = "activate"   -> inactive[i] \ {e.key}
                    [] e.cmd = "deactivate" -> inactive[i] \cup {e.key}
                    [] OTHER                -> inactive[i]
  <2>7. tickets' \in [Instance -> SUBSET Entries]
    BY <1>6, <2>1 DEF Apply, TypeOK
  <2>8. I \subseteq Entries \cup {Malformed}
    BY <2>1, <2>6 DEF TypeOK
  <2>9. inactive' = [inactive EXCEPT ![i] = I]
    BY <1>6 DEF Apply
  <2>10. assigned' \in [Instance -> SUBSET (Entries \cup {Malformed})]
    BY <1>6, <2>6 DEF Apply, TypeOK
  <2> HIDE DEF e, I
  <2>11. inactive' \in [Instance -> SUBSET (Entries \cup {Malformed})]
    BY <2>8, <2>9 DEF TypeOK
  <2>12. QED
    BY <2>2, <2>4, <2>5, <2>7, <2>10, <2>11 DEF TypeOK, Entries
<1>7. ASSUME NEW i \in Instance, RemoveExpired(i) PROVE TypeOK'
  BY <1>7 DEF RemoveExpired, TypeOK, Entries
<1>8. ASSUME NEW i \in Instance, Restart(i) PROVE TypeOK'
  BY <1>0, <1>8, EmptySeq DEF Restart, TypeOK, Entries
<1>9. CASE Tick
  BY <1>9 DEF Tick, TypeOK, Entries
<1>10. CASE UNCHANGED vars
  BY <1>10 DEF vars, TypeOK, Entries
<1>11. QED
  BY <1>1, <1>2, <1>3, <1>4, <1>5, <1>6, <1>7, <1>8, <1>9, <1>10
     DEF Next, Stream, Core, EndBurst, LockTimeout, Added

-----------------------------------------------------------------------------
\* The log: entries stay as they are, and a dead entry stays dead.

LEMMA LogFrame == [Next]_vars => Added \/ Tick \/ UNCHANGED <<log, now>>
  BY DEF Next, Stream, Core, EndBurst, LockTimeout, Added, XTrim, Sync, Poll,
         Enqueue, Apply, RemoveExpired, Restart, vars

LEMMA LogGrows ==
  ASSUME TypeOK, [Next]_vars, NEW k \in Entries
  PROVE  /\ k \in Entries' /\ log'[k] = log[k]
         /\ now <= now'
         /\ Dead(k) => Dead(k)'
<1>1. Len(log) \in Nat /\ now \in Nat /\ log[k].at \in Nat
  BY EntryTyped
<1>2. CASE Added
  <2>1. PICK e : EntryAdded(e)
    BY <1>2, AddedEntry
  <2>2. now' = now /\ Len(log') = Len(log) + 1 /\ log'[k] = log[k]
    BY <2>1, AppendEntry DEF EntryAdded, TypeOK, Entries
  <2>3. QED
    BY <1>1, <2>2 DEF Entries, Dead
<1>3. CASE Tick
  BY <1>1, <1>3, ReplicationAssumption DEF Tick, Entries, Dead
<1>4. CASE UNCHANGED <<log, now>>
  BY <1>1, <1>4 DEF Entries, Dead
<1>5. QED
  BY <1>2, <1>3, <1>4, LogFrame

LEMMA LogStep == TypeOK /\ LogOK /\ [Next]_vars => LogOK'
<1> SUFFICES ASSUME TypeOK, LogOK, [Next]_vars PROVE LogOK'
  OBVIOUS
<1>1. CASE Added
  <2>1. PICK e : EntryAdded(e)
    BY <1>1, AddedEntry
  <2>2. /\ Len(log) \in Nat /\ now' = now /\ now \in Nat /\ TTL \in Nat
        /\ Len(log') = Len(log) + 1
        /\ \A k \in 1 .. Len(log) : log'[k] = log[k]
        /\ log'[Len(log) + 1] = e
    BY <2>1, AppendEntry, ReplicationAssumption DEF EntryAdded, TypeOK
  <2>3. \A k \in 1 .. Len(log) : log[k].at \in Nat /\ log[k].key \in Nat
    BY EntryTyped DEF Entries
  <2>4. ASSUME NEW k \in Entries', k # Len(log) + 1
        PROVE  /\ log'[k].at <= now'
               /\ log'[k].exp <= log'[k].at + TTL
               /\ log'[k].cmd = "ticket" => log'[k].key = k
               /\ log'[k].cmd # "ticket" => log'[k].key < k
               /\ \A j \in 1 .. k : log'[j].at <= log'[k].at
    <3>1. k \in Entries /\ log'[k] = log[k]
      BY <2>2, <2>4 DEF Entries
    <3>2. \A j \in 1 .. k : log'[j] = log[j]
      BY <2>2, <3>1 DEF Entries
    <3>3. QED
      BY <2>2, <3>1, <3>2 DEF LogOK
  <2>5. /\ e.at = now /\ e.exp <= now + TTL
        /\ e.cmd = "ticket" => e.key = Len(log) + 1
        /\ e.cmd # "ticket" => e.key \in 0 .. Len(log)
    BY <2>1 DEF EntryAdded
  <2>6. ASSUME NEW j \in 1 .. Len(log) + 1 PROVE log'[j].at <= now
    <3>1. CASE j = Len(log) + 1
      BY <2>2, <2>5, <3>1
    <3>2. CASE j # Len(log) + 1
      <4>1. j \in Entries /\ log'[j] = log[j]
        BY <2>2, <3>2 DEF Entries
      <4>2. QED
        BY <4>1 DEF LogOK
    <3>3. QED
      BY <3>1, <3>2
  <2>7. QED
    BY <2>2, <2>4, <2>5, <2>6 DEF LogOK
<1>2. CASE Tick
  <2>1. now \in Nat /\ \A k \in Entries : log[k].at \in Nat
    BY EntryTyped DEF TypeOK
  <2>2. QED
    BY <1>2, <2>1 DEF Tick, LogOK, Entries
<1>3. CASE UNCHANGED <<log, now>>
  BY <1>3 DEF LogOK, Entries
<1>4. QED
  BY <1>1, <1>2, <1>3, LogFrame

\* What is older than a dead entry is dead.
LEMMA OlderIsDead ==
  ASSUME TypeOK, LogOK, NEW k \in Entries, NEW j \in 1 .. k, Dead(k)
  PROVE  Dead(j)
<1>1. j \in Entries /\ log[j].at <= log[k].at
  BY DEF LogOK, Entries, TypeOK
<1>2. log[j].at \in Nat /\ log[k].at \in Nat /\ now \in Nat
  BY <1>1, EntryFacts DEF TypeOK
<1>3. QED
  BY <1>1, <1>2, ReplicationAssumption DEF Dead

\* A ticket past the TTL is past its own expiration time.
LEMMA DeadIsExpired ==
  ASSUME TypeOK, LogOK, NEW k \in Entries, Dead(k)
  PROVE  ~ Cache!Live(k) /\ Expired(k)
  BY EntryFacts, ReplicationAssumption DEF TypeOK, LogOK, Dead, Expired, Cache!Live

LEMMA TrimStep ==
  TypeOK /\ LogOK /\ TrimmedDead /\ [Next]_vars => TrimmedDead'
<1> SUFFICES ASSUME TypeOK, LogOK, TrimmedDead, [Next]_vars PROVE TrimmedDead'
  OBVIOUS
<1>0. \A k \in 1 .. trimmed : k \in Entries
  BY DEF TypeOK, Entries
<1>1. CASE trimmed' = trimmed
  BY <1>0, <1>1, LogGrows DEF TrimmedDead
<1>2. ASSUME NEW n \in Entries, XTrim(n) PROVE TrimmedDead'
  <2>1. \A k \in 1 .. n : Dead(k)
    BY <1>2, OlderIsDead DEF XTrim
  <2>2. QED
    BY <1>2, <2>1 DEF XTrim, TrimmedDead, Dead
<1>3. QED
  BY <1>1, <1>2, AddedEntry
     DEF Next, Stream, Core, EndBurst, LockTimeout, Added, EntryAdded, Sync, Poll,
         Enqueue, Apply, RemoveExpired, Restart, Tick, vars

-----------------------------------------------------------------------------
\* The channel: what is between the last applied entry and the next one to be
\* queued waits in order, or is dead.

\* The first entry waiting is the next to apply: what comes before is dead.
LEMMA HeadOfQueue ==
  ASSUME TypeOK, PositionsOK, NothingLost, NEW i \in Instance, queue[i] # << >>
  PROVE  /\ Head(queue[i]) \in Entries
         /\ done[i] < Head(queue[i]) /\ Head(queue[i]) < next[i]
         /\ Tail(queue[i]) \in Seq(Entries)
         /\ Len(Tail(queue[i])) = Len(queue[i]) - 1
         /\ \A n \in DOMAIN Tail(queue[i]) :
              /\ n + 1 \in DOMAIN queue[i]
              /\ Tail(queue[i])[n] = queue[i][n + 1]
              /\ Head(queue[i]) < Tail(queue[i])[n]
         /\ \A k \in done[i] + 1 .. Head(queue[i]) - 1 : Dead(k)
<1> DEFINE q == queue[i]
<1>1. q \in Seq(Entries) /\ Len(q) \in Nat /\ DOMAIN q = 1 .. Len(q)
  BY DEF TypeOK
<1>2. /\ Head(q) \in Entries /\ Tail(q) \in Seq(Entries)
      /\ Len(Tail(q)) = Len(q) - 1 /\ Len(q) > 0
      /\ \A n \in 1 .. Len(Tail(q)) : Tail(q)[n] = q[n + 1]
  BY <1>1, HeadTailProperties, EmptySeq
<1>3. Head(q) = q[1] /\ 1 \in DOMAIN q
  BY <1>1, <1>2
<1>4. done[i] < Head(q) /\ Head(q) < next[i]
  BY <1>3 DEF PositionsOK
<1>5. DOMAIN Tail(q) = 1 .. Len(Tail(q))
  BY <1>2
<1>6. \A n \in DOMAIN Tail(q) :
        n + 1 \in DOMAIN q /\ Tail(q)[n] = q[n + 1] /\ Head(q) < Tail(q)[n]
  BY <1>1, <1>2, <1>3, <1>5 DEF NothingLost
<1>7. ASSUME NEW k \in done[i] + 1 .. Head(q) - 1 PROVE Dead(k)
  <2>1. /\ done[i] \in Nat /\ next[i] \in Nat /\ Head(q) \in Nat /\ k \in Int
        /\ k < Head(q) /\ k \in done[i] + 1 .. next[i] - 1
    BY <1>2, <1>4 DEF TypeOK, Entries
  <2>2. \A n \in DOMAIN q : q[n] # k
    <3>1. ASSUME NEW n \in DOMAIN q PROVE q[n] = q[1] \/ q[1] < q[n]
      BY <1>1, <1>3 DEF NothingLost
    <3>2. \A n \in DOMAIN q : q[n] \in Nat
      BY <1>1 DEF Entries
    <3>3. QED
      BY <1>3, <2>1, <3>1, <3>2
  <2>3. QED
    BY <2>1, <2>2 DEF NothingLost
<1>8. QED
  BY <1>2, <1>4, <1>6, <1>7

LEMMA PositionsStep ==
  TypeOK /\ PositionsOK /\ NothingLost /\ [Next]_vars => PositionsOK'
<1> SUFFICES ASSUME TypeOK, PositionsOK, NothingLost, [Next]_vars
             PROVE  PositionsOK'
  OBVIOUS
<1> DEFINE Placed(j) ==
      /\ done[j] < next[j]
      /\ next[j] <= cursor[j] + 1
      /\ \A n \in DOMAIN queue[j] : done[j] < queue[j][n] /\ queue[j][n] < next[j]
<1>0. \A j \in Instance :
        /\ done[j] \in Nat /\ next[j] \in Nat /\ cursor[j] \in Nat
        /\ queue[j] \in Seq(Entries) /\ Len(queue[j]) \in Nat
        /\ \A n \in DOMAIN queue[j] : queue[j][n] \in Nat
  BY DEF TypeOK, Entries
<1>1. ASSUME NEW i \in Instance, Poll(i) PROVE PositionsOK'
  <2> DEFINE first == Larger(cursor[i], readTrim) + 1
             last  == Smaller(first + Capacity - 1, readLen)
  <2>1. /\ first <= readLen /\ next[i] > cursor[i]
        /\ next' = [next EXCEPT ![i] = first]
        /\ cursor' = [cursor EXCEPT ![i] = last]
        /\ queue' = queue /\ done' = done
    BY <1>1 DEF Poll
  <2>2. /\ readTrim \in Nat /\ readLen \in Nat
        /\ next[i] = cursor[i] + 1
    BY <1>0, <2>1 DEF PositionsOK, TypeOK
  <2>3. first \in Nat /\ next[i] <= first
    BY <1>0, <2>2 DEF Larger
  <2>4. last \in Nat /\ first <= last + 1
    BY <2>1, <2>2, <2>3, ReplicationAssumption DEF Smaller
  <2> HIDE DEF first, last
  <2>5. ASSUME NEW j \in Instance PROVE Placed(j)'
    BY <1>0, <2>1, <2>3, <2>4 DEF PositionsOK, TypeOK
  <2>6. QED
    BY <2>5 DEF PositionsOK
<1>2. ASSUME NEW i \in Instance, Enqueue(i) PROVE PositionsOK'
  <2>1. /\ next[i] <= cursor[i]
        /\ queue' = [queue EXCEPT ![i] = Append(queue[i], next[i])]
        /\ next' = [next EXCEPT ![i] = next[i] + 1]
        /\ cursor' = cursor /\ done' = done
    BY <1>2 DEF Enqueue
  <2>2. /\ DOMAIN Append(queue[i], next[i]) = 1 .. Len(queue[i]) + 1
        /\ \A n \in 1 .. Len(queue[i]) :
             Append(queue[i], next[i])[n] = queue[i][n]
        /\ Append(queue[i], next[i])[Len(queue[i]) + 1] = next[i]
    BY <1>0, AppendProperties
  <2>3. ASSUME NEW n \in DOMAIN Append(queue[i], next[i])
        PROVE  /\ done[i] < Append(queue[i], next[i])[n]
               /\ Append(queue[i], next[i])[n] < next[i] + 1
    BY <1>0, <2>2 DEF PositionsOK
  <2>4. ASSUME NEW j \in Instance PROVE Placed(j)'
    <3>1. CASE j = i
      BY <1>0, <2>1, <2>3, <3>1 DEF PositionsOK, TypeOK
    <3>2. CASE j # i
      BY <1>0, <2>1, <3>2 DEF PositionsOK, TypeOK
    <3>3. QED
      BY <3>1, <3>2
  <2>5. QED
    BY <2>4 DEF PositionsOK
<1>3. ASSUME NEW i \in Instance, Apply(i) PROVE PositionsOK'
  <2>1. /\ queue[i] # << >>
        /\ queue' = [queue EXCEPT ![i] = Tail(queue[i])]
        /\ done' = [done EXCEPT ![i] = Head(queue[i])]
        /\ next' = next /\ cursor' = cursor
    BY <1>3 DEF Apply
  <2>2. ASSUME NEW j \in Instance PROVE Placed(j)'
    <3>1. CASE j = i
      BY <2>1, <3>1, HeadOfQueue DEF PositionsOK, TypeOK
    <3>2. CASE j # i
      BY <2>1, <3>2 DEF PositionsOK, TypeOK
    <3>3. QED
      BY <3>1, <3>2
  <2>3. QED
    BY <2>2 DEF PositionsOK
<1>4. ASSUME NEW i \in Instance, Restart(i) PROVE PositionsOK'
  <2>1. PICK c \in 0 .. Len(log) :
          /\ cursor' = [cursor EXCEPT ![i] = c]
          /\ next' = [next EXCEPT ![i] = c + 1]
          /\ done' = [done EXCEPT ![i] = c]
    BY <1>4 DEF Restart
  <2>2. queue' = [queue EXCEPT ![i] = << >>]
    BY <1>4 DEF Restart
  <2>3. c \in Nat /\ DOMAIN << >> = {}
    BY DEF TypeOK
  <2>4. QED
    BY <2>1, <2>2, <2>3 DEF PositionsOK, TypeOK
<1>5. CASE UNCHANGED <<cursor, next, queue, done>>
  BY <1>5 DEF PositionsOK
<1>6. QED
  BY <1>1, <1>2, <1>3, <1>4, <1>5, AddedEntry
     DEF Next, Stream, Core, EndBurst, LockTimeout, Added, EntryAdded, XTrim, Sync,
         RemoveExpired, Tick, vars

LEMMA QueueStep ==
  TypeOK /\ LogOK /\ TrimmedDead /\ PositionsOK /\ NothingLost /\ [Next]_vars
    => NothingLost'
<1> SUFFICES ASSUME TypeOK, LogOK, TrimmedDead, PositionsOK, NothingLost,
                    [Next]_vars
             PROVE  NothingLost'
  OBVIOUS
<1> DEFINE InOrder(j) ==
             \A m, n \in DOMAIN queue[j] : m < n => queue[j][m] < queue[j][n]
           Kept(j) ==
             \A k \in done[j] + 1 .. next[j] - 1 :
               Dead(k) \/ \E n \in DOMAIN queue[j] : queue[j][n] = k
<1>a. \A j \in Instance : InOrder(j) /\ Kept(j)
  BY DEF NothingLost
<1>b. SUFFICES ASSUME NEW j \in Instance PROVE InOrder(j)' /\ Kept(j)'
  BY DEF NothingLost
<1>0. /\ done[j] \in Nat /\ next[j] \in Nat /\ cursor[j] \in Nat
      /\ next[j] <= Len(log) + 1 /\ Len(log) \in Nat
      /\ queue[j] \in Seq(Entries) /\ Len(queue[j]) \in Nat
      /\ \A n \in DOMAIN queue[j] : queue[j][n] \in Nat
  BY DEF TypeOK, Entries
<1>c. \A k \in done[j] + 1 .. next[j] - 1 : k \in Entries /\ (Dead(k) => Dead(k)')
  BY <1>0, LogGrows DEF Entries
<1>1. CASE Poll(j)
  <2> DEFINE first == Larger(cursor[j], readTrim) + 1
  <2>1. /\ first <= readLen /\ next[j] > cursor[j]
        /\ next' = [next EXCEPT ![j] = first]
        /\ queue' = queue /\ done' = done /\ log' = log /\ now' = now
    BY <1>1 DEF Poll
  <2>2. /\ readTrim \in Nat /\ trimmed \in Nat /\ readTrim <= trimmed
        /\ next[j] = cursor[j] + 1
    BY <1>0, <2>1 DEF PositionsOK, TypeOK
  <2>3. ASSUME NEW k \in done[j] + 1 .. first - 1
        PROVE  k \in done[j] + 1 .. next[j] - 1 \/ k \in 1 .. trimmed
    BY <1>0, <2>2 DEF Larger
  <2>4. next'[j] = first
    BY <2>1 DEF TypeOK
  <2> HIDE DEF first
  <2>5. Kept(j)'
    BY <1>a, <2>1, <2>3, <2>4 DEF TrimmedDead, Dead
  <2>6. QED
    BY <1>a, <2>1, <2>5
<1>2. CASE Enqueue(j)
  <2> DEFINE q == Append(queue[j], next[j])
  <2>1. /\ queue'[j] = q /\ next'[j] = next[j] + 1
        /\ done' = done /\ log' = log /\ now' = now
    BY <1>2 DEF Enqueue, TypeOK
  <2>2. /\ DOMAIN q = 1 .. Len(queue[j]) + 1
        /\ \A n \in 1 .. Len(queue[j]) : q[n] = queue[j][n] /\ n \in DOMAIN queue[j]
        /\ q[Len(queue[j]) + 1] = next[j]
    BY <1>0, AppendProperties
  <2> HIDE DEF q
  <2>3. \A n \in 1 .. Len(queue[j]) : q[n] < next[j]
    BY <2>2 DEF PositionsOK
  <2>4. ASSUME NEW m \in DOMAIN q, NEW n \in DOMAIN q, m < n PROVE q[m] < q[n]
    <3>1. m \in 1 .. Len(queue[j])
      BY <1>0, <2>2, <2>4
    <3>2. CASE n = Len(queue[j]) + 1
      BY <2>2, <2>3, <3>1, <3>2
    <3>3. CASE n # Len(queue[j]) + 1
      BY <1>0, <1>a, <2>2, <2>4, <3>1, <3>3
    <3>4. QED
      BY <3>2, <3>3
  <2>5. ASSUME NEW k \in done[j] + 1 .. next[j]
        PROVE  Dead(k) \/ \E n \in DOMAIN q : q[n] = k
    <3>1. CASE k = next[j]
      BY <1>0, <2>2, <3>1
    <3>2. CASE k # next[j]
      <4>1. k \in done[j] + 1 .. next[j] - 1
        BY <1>0, <3>2
      <4>2. CASE Dead(k)
        BY <4>2
      <4>3. CASE \E n \in DOMAIN queue[j] : queue[j][n] = k
        <5>1. PICK n \in DOMAIN queue[j] : queue[j][n] = k
          BY <4>3
        <5>2. n \in 1 .. Len(queue[j])
          BY <1>0
        <5>3. n \in DOMAIN q /\ q[n] = k
          BY <1>0, <2>2, <5>1, <5>2
        <5>4. QED
          BY <5>3
      <4>4. QED
        BY <1>a, <4>1, <4>2, <4>3
    <3>3. QED
      BY <3>1, <3>2
  <2>6. QED
    BY <1>0, <2>1, <2>4, <2>5 DEF Dead
<1>3. CASE Apply(j)
  <2> DEFINE q == Tail(queue[j])
  <2>1. /\ queue[j] # << >>
        /\ queue'[j] = q /\ done'[j] = Head(queue[j])
        /\ next' = next /\ log' = log /\ now' = now
    BY <1>3 DEF Apply, TypeOK
  <2>2. /\ Head(queue[j]) \in Entries /\ q \in Seq(Entries)
        /\ Len(q) = Len(queue[j]) - 1 /\ done[j] < Head(queue[j])
        /\ \A n \in DOMAIN q : n + 1 \in DOMAIN queue[j] /\ q[n] = queue[j][n + 1]
    BY <2>1, HeadOfQueue
  <2>3. Head(queue[j]) = queue[j][1] /\ DOMAIN q = 1 .. Len(q)
        /\ DOMAIN queue[j] = 1 .. Len(queue[j])
    BY <1>0, <2>1, <2>2
  <2> HIDE DEF q
  <2>4. InOrder(j)'
    <3>1. ASSUME NEW m \in DOMAIN q, NEW n \in DOMAIN q, m < n PROVE q[m] < q[n]
      <4>1. m + 1 < n + 1
        BY <1>0, <2>2, <2>3, <3>1
      <4>2. QED
        BY <1>a, <2>2, <4>1
    <3>2. QED
      BY <2>1, <3>1
  <2>5. ASSUME NEW k \in Head(queue[j]) + 1 .. next[j] - 1
        PROVE  Dead(k) \/ \E n \in DOMAIN q : q[n] = k
    <3>1. /\ k \in done[j] + 1 .. next[j] - 1 /\ Head(queue[j]) < k
          /\ Head(queue[j]) \in Nat
      BY <1>0, <2>2 DEF Entries
    <3>2. ASSUME NEW n \in DOMAIN queue[j], queue[j][n] = k
          PROVE  \E m \in DOMAIN q : q[m] = k
      <4>1. n # 1
        BY <2>3, <3>1, <3>2
      <4>2. n - 1 \in DOMAIN q /\ (n - 1) + 1 = n
        BY <1>0, <2>2, <2>3, <4>1
      <4>3. QED
        BY <2>2, <3>2, <4>2
    <3>3. QED
      BY <1>a, <3>1, <3>2
  <2>6. Kept(j)'
    BY <2>1, <2>5 DEF Dead
  <2>7. QED
    BY <2>4, <2>6
<1>4. CASE Restart(j)
  <2>1. PICK c \in 0 .. Len(log) : next'[j] = c + 1 /\ done'[j] = c
    BY <1>4 DEF Restart, TypeOK
  <2>2. queue'[j] = << >>
    BY <1>4 DEF Restart, TypeOK
  <2>3. done'[j] + 1 .. next'[j] - 1 = {} /\ DOMAIN << >> = {}
    BY <1>0, <2>1
  <2>4. QED
    BY <2>2, <2>3
<1>5. CASE UNCHANGED <<next[j], queue[j], done[j]>>
  BY <1>a, <1>c, <1>5
<1>6. ASSUME NEW i \in Instance, i # j,
             Poll(i) \/ Enqueue(i) \/ Apply(i) \/ Restart(i)
      PROVE  UNCHANGED <<next[j], queue[j], done[j]>>
  BY <1>6 DEF Poll, Enqueue, Apply, Restart, TypeOK
<1>7. ASSUME \A i \in Instance : ~ (Poll(i) \/ Enqueue(i) \/ Apply(i) \/ Restart(i))
      PROVE  UNCHANGED <<next[j], queue[j], done[j]>>
  BY <1>7, AddedEntry
     DEF Next, Stream, Core, EndBurst, LockTimeout, Added, EntryAdded, XTrim, Sync,
         RemoveExpired, Tick, vars
<1>8. QED
  BY <1>1, <1>2, <1>3, <1>4, <1>5, <1>6, <1>7

-----------------------------------------------------------------------------
\* The cache shows the log.

\* If a ticket that was applied is not dead, no entry after it was skipped.
LEMMA NoneSkipped ==
  ASSUME TypeOK, LogOK, PositionsOK, NothingLost,
         NEW i \in Instance, queue[i] # << >>,
         NEW t \in 1 .. done[i], ~ Dead(t)
  PROVE  Head(queue[i]) = done[i] + 1
<1>1. /\ Head(queue[i]) \in Entries /\ done[i] < Head(queue[i])
      /\ \A k \in done[i] + 1 .. Head(queue[i]) - 1 : Dead(k)
  BY HeadOfQueue
<1>2. done[i] \in Nat /\ Head(queue[i]) \in Nat /\ Len(log) \in Nat
      /\ Head(queue[i]) <= Len(log)
  BY <1>1 DEF TypeOK, Entries
<1>3. ASSUME done[i] + 1 < Head(queue[i]) PROVE FALSE
  <2>1. Dead(done[i] + 1)
    BY <1>1, <1>2, <1>3
  <2>2. done[i] + 1 \in Entries /\ t \in 1 .. done[i] + 1
    BY <1>2, <1>3 DEF Entries
  <2>3. QED
    BY <2>1, <2>2, OlderIsDead
<1>4. QED
  BY <1>1, <1>2, <1>3

LEMMA LiveBefore ==
  ASSUME TypeOK, [Next]_vars, NEW t \in Entries, Cache!Live(t)'
  PROVE  Cache!Live(t)
<1>1. log'[t] = log[t] /\ now <= now'
  BY LogGrows
<1>2. now \in Nat /\ now' \in Nat /\ log[t].exp \in Nat
  <2>1. CASE Tick
    BY <2>1, EntryTyped DEF Tick
  <2>2. CASE now' = now
    BY <2>2, EntryTyped
  <2>3. QED
    BY <2>1, <2>2, LogFrame, AddedEntry DEF EntryAdded
<1>3. QED
  BY <1>1, <1>2 DEF Cache!Live, Cache!IsTicket

LEMMA ActiveSame ==
  ASSUME TypeOK, [Next]_vars, NEW n \in 0 .. Len(log), NEW t \in 1 .. n
  PROVE  Cache!ActiveAt(t, n)' <=> Cache!ActiveAt(t, n)
<1>1. ASSUME NEW a \in t + 1 .. n PROVE log'[a] = log[a]
  <2>1. a \in Entries
    BY DEF TypeOK, Entries
  <2>2. QED
    BY <2>1, LogGrows
<1>2. ASSUME NEW a \in t + 1 .. n, NEW d \in a + 1 .. n PROVE d \in t + 1 .. n
  BY DEF TypeOK
<1>3. Cache!ActiveAt(t, n)' <=>
        \E a \in t + 1 .. n :
          /\ log'[a].cmd = "activate" /\ log'[a].key = t
          /\ \A d \in a + 1 .. n : ~ (log'[d].cmd = "deactivate" /\ log'[d].key = t)
  BY DEF Cache!ActiveAt
<1>4. QED
  BY <1>1, <1>2, <1>3 DEF Cache!ActiveAt

\* What one more entry makes of the activity of a ticket.
LEMMA ActiveNext ==
  ASSUME TypeOK, NEW n \in Nat, n + 1 \in Entries, NEW t \in 1 .. n
  PROVE  Cache!ActiveAt(t, n + 1) <=>
           \/ log[n + 1].cmd = "activate" /\ log[n + 1].key = t
           \/ /\ Cache!ActiveAt(t, n)
              /\ ~ (log[n + 1].cmd = "deactivate" /\ log[n + 1].key = t)
<1> DEFINE act(a) == log[a].cmd = "activate" /\ log[a].key = t
           deact(d) == log[d].cmd = "deactivate" /\ log[d].key = t
<1>1. Cache!ActiveAt(t, n) <=>
        \E a \in t + 1 .. n : act(a) /\ \A d \in a + 1 .. n : ~ deact(d)
  BY DEF Cache!ActiveAt
<1>2. Cache!ActiveAt(t, n + 1) <=>
        \E a \in t + 1 .. n + 1 : act(a) /\ \A d \in a + 1 .. n + 1 : ~ deact(d)
  BY DEF Cache!ActiveAt
<1>3. act(n + 1) => ~ deact(n + 1)
  OBVIOUS
<1> HIDE DEF act, deact
<1>4. t + 1 .. n + 1 = (t + 1 .. n) \cup {n + 1}
  OBVIOUS
<1>5. \A a \in t + 1 .. n : a + 1 .. n + 1 = (a + 1 .. n) \cup {n + 1}
  OBVIOUS
<1>6. (n + 1) + 1 .. n + 1 = {}
  OBVIOUS
<1>7. QED
  BY <1>1, <1>2, <1>3, <1>4, <1>5, <1>6 DEF act, deact

LEMMA StoredStep ==
  TypeOK /\ PositionsOK /\ NothingLost /\ StoredSeen /\ [Next]_vars => StoredSeen'
<1> SUFFICES ASSUME TypeOK, PositionsOK, NothingLost, StoredSeen, [Next]_vars
             PROVE  StoredSeen'
  OBVIOUS
<1>0. \A j \in Instance : /\ done[j] \in Nat
                          /\ \A t \in tickets[j] : t \in Nat
  BY DEF TypeOK, Entries
<1>1. ASSUME NEW i \in Instance, Apply(i) PROVE StoredSeen'
  <2>1. /\ queue[i] # << >>
        /\ done' = [done EXCEPT ![i] = Head(queue[i])]
        /\ tickets' \in [Instance -> SUBSET Entries]
    BY <1>1, HeadOfQueue DEF Apply, TypeOK
  <2>2. /\ \A j \in Instance \ {i} : tickets'[j] = tickets[j]
        /\ tickets'[i] \subseteq tickets[i] \cup {Head(queue[i])}
    BY <1>1 DEF Apply, TypeOK
  <2>3. Head(queue[i]) \in Nat /\ done[i] < Head(queue[i])
    BY <2>1, HeadOfQueue DEF Entries
  <2>4. ASSUME NEW j \in Instance, NEW t \in tickets'[j] PROVE t <= done'[j]
    <3>1. CASE j # i
      BY <2>1, <2>2, <3>1 DEF StoredSeen, TypeOK
    <3>2. CASE j = i /\ t = Head(queue[i])
      BY <2>1, <2>3, <3>2 DEF TypeOK
    <3>3. CASE j = i /\ t \in tickets[i]
      <4>1. done'[i] = Head(queue[i])
        BY <2>1 DEF TypeOK
      <4>2. QED
        BY <1>0, <2>3, <3>3, <4>1 DEF StoredSeen
    <3>4. QED
      BY <2>2, <3>1, <3>2, <3>3
  <2>5. QED
    BY <2>4 DEF StoredSeen
<1>2. ASSUME NEW i \in Instance, RemoveExpired(i) PROVE StoredSeen'
  BY <1>2 DEF RemoveExpired, StoredSeen, TypeOK
<1>3. ASSUME NEW i \in Instance, Restart(i) PROVE StoredSeen'
  BY <1>3 DEF Restart, StoredSeen, TypeOK
<1>4. CASE UNCHANGED <<done, tickets>>
  BY <1>4 DEF StoredSeen
<1>5. QED
  BY <1>1, <1>2, <1>3, <1>4, AddedEntry
     DEF Next, Stream, Core, EndBurst, LockTimeout, Added, EntryAdded, XTrim, Sync,
         Poll, Enqueue, Tick, vars

LEMMA ViewStep ==
  /\ TypeOK /\ LogOK /\ PositionsOK /\ NothingLost /\ LiveViewMatchesLog
  /\ [Next]_vars
  => LiveViewMatchesLog'
<1> SUFFICES ASSUME TypeOK, LogOK, PositionsOK, NothingLost, LiveViewMatchesLog,
                    [Next]_vars
             PROVE  LiveViewMatchesLog'
  OBVIOUS
<1>a. SUFFICES ASSUME NEW j \in Instance, NEW t \in 1 .. done'[j], Cache!Live(t)'
               PROVE  /\ t \in tickets'[j]
                      /\ t \in inactive'[j] <=> ~ Cache!ActiveAt(t, done[j])'
  BY DEF LiveViewMatchesLog
<1> DEFINE Shown == /\ t \in tickets[j]
                    /\ t \in inactive[j] <=> ~ Cache!ActiveAt(t, done[j])
<1>0. /\ done[j] \in 0 .. Len(log) /\ done[j] \in Nat /\ Len(log) \in Nat
  BY DEF TypeOK
<1>b. ASSUME t \in 1 .. done[j]
      PROVE  /\ t \in Entries /\ Cache!Live(t) /\ ~ Dead(t) /\ ~ Expired(t)
             /\ Shown
  <2>1. t \in Entries
    BY <1>0, <1>b DEF Entries
  <2>2. Cache!Live(t)
    BY <2>1, <1>a, LiveBefore
  <2>3. ~ Dead(t)
    BY <2>1, <2>2, DeadIsExpired
  <2>4. ~ Expired(t)
    BY <2>1, <2>2, EntryTyped DEF Cache!Live, Expired
  <2>5. QED
    BY <1>b, <2>1, <2>2, <2>3, <2>4 DEF LiveViewMatchesLog
<1>1. CASE Apply(j)
  <2> DEFINE k == Head(queue[j])
             e == log[k]
  <2>1. /\ queue[j] # << >> /\ log' = log /\ now' = now
        /\ done'[j] = k
        /\ tickets'[j] = IF e.cmd = "ticket" THEN tickets[j] \cup {k} ELSE tickets[j]
    BY <1>1 DEF Apply, TypeOK
  <2>2. inactive'[j] =
          CASE e.cmd = "ticket"     -> inactive[j] \cup {k}
            [] e.cmd = "activate"   -> inactive[j] \ {e.key}
            [] e.cmd = "deactivate" -> inactive[j] \cup {e.key}
            [] OTHER                -> inactive[j]
    BY <1>1 DEF Apply, TypeOK
  <2>3. /\ k \in Entries /\ k \in Nat /\ done[j] < k
        /\ \A d \in done[j] + 1 .. k - 1 : Dead(d)
    BY <2>1, HeadOfQueue, EntryTyped
  <2>4. Cache!ActiveAt(t, done[j])' <=> Cache!ActiveAt(t, k)
    BY <2>1 DEF Cache!ActiveAt
  <2> HIDE DEF k
  <2>5. CASE t = k
    <3>1. e.cmd = "ticket"
      BY <1>a, <2>1, <2>5 DEF Cache!Live, Cache!IsTicket
    <3>2. ~ Cache!ActiveAt(k, k)
      BY <2>3 DEF Cache!ActiveAt
    <3>3. t \in tickets'[j] /\ t \in inactive'[j]
      BY <2>1, <2>2, <2>5, <3>1
    <3>4. QED
      BY <2>4, <2>5, <3>2, <3>3
  <2>6. CASE t \in done[j] + 1 .. k - 1
    <3>1. t \in Entries /\ Dead(t)
      BY <1>0, <2>3, <2>6 DEF Entries
    <3>2. ~ Cache!Live(t)
      BY <3>1, DeadIsExpired
    <3>3. QED
      BY <1>a, <2>1, <3>2 DEF Cache!Live, Cache!IsTicket
  <2>7. CASE t \in 1 .. done[j]
    <3>1. Shown /\ ~ Dead(t)
      BY <1>b, <2>7
    <3>2. k = done[j] + 1
      BY <2>1, <2>7, <3>1, NoneSkipped DEF k
    <3>3. Cache!ActiveAt(t, k) <=>
            \/ e.cmd = "activate" /\ e.key = t
            \/ Cache!ActiveAt(t, done[j]) /\ ~ (e.cmd = "deactivate" /\ e.key = t)
      BY <1>0, <2>3, <2>7, <3>2, ActiveNext
    <3>4. t # k /\ e.cmd \in {"ticket", "activate", "deactivate", "assign"}
      BY <1>0, <2>3, <2>7, <3>2, EntryTyped DEF Command
    <3> HIDE DEF e
    <3>5. t \in tickets'[j]
      BY <2>1, <3>1
    <3>6. t \in inactive'[j] <=> ~ Cache!ActiveAt(t, k)
      BY <2>2, <3>1, <3>3, <3>4
    <3>7. QED
      BY <2>4, <3>5, <3>6
  <2>8. QED
    BY <1>0, <2>1, <2>3, <2>5, <2>6, <2>7
<1>2. CASE RemoveExpired(j)
  <2>1. t \in 1 .. done[j] /\ log' = log /\ done' = done
    BY <1>2 DEF RemoveExpired
  <2>2. Shown /\ ~ Dead(t) /\ ~ Expired(t)
    BY <1>b, <2>1
  <2>3. /\ tickets'[j] = {x \in tickets[j] \ Aged(inactive[j]) : ~ Expired(x)}
        /\ inactive'[j] = inactive[j] \ Aged(inactive[j])
    BY <1>2 DEF RemoveExpired, TypeOK
  <2>4. t \notin Aged(inactive[j])
    BY <2>2 DEF Aged
  <2>5. Cache!ActiveAt(t, done[j])' <=> Cache!ActiveAt(t, done[j])
    BY <2>1 DEF Cache!ActiveAt
  <2>6. QED
    BY <2>2, <2>3, <2>4, <2>5
<1>3. CASE Restart(j)
  <2>1. PICK c \in 0 .. Len(log) :
          /\ \A k \in Entries : k <= c <=> BeforeHorizon(k)
          /\ done'[j] = c
    BY <1>3 DEF Restart, TypeOK
  <2>2. t \in Entries /\ BeforeHorizon(t)
    BY <1>0, <2>1 DEF Entries
  <2>3. Dead(t)
    BY <2>2, EntryTyped, ReplicationAssumption DEF BeforeHorizon, Horizon, Dead
  <2>4. ~ Cache!Live(t)
    BY <2>2, <2>3, DeadIsExpired
  <2>5. QED
    BY <1>a, <2>2, <2>4, LiveBefore
<1>4. CASE UNCHANGED <<done[j], tickets[j], inactive[j]>>
  <2>1. t \in 1 .. done[j]
    BY <1>4
  <2>2. Cache!ActiveAt(t, done[j])' <=> Cache!ActiveAt(t, done[j])
    <3>1. PICK n \in 0 .. Len(log) : n = done[j]
      BY <1>0
    <3>2. Cache!ActiveAt(t, n)' <=> Cache!ActiveAt(t, n)
      BY <2>1, <3>1, ActiveSame
    <3>3. done'[j] = n
      BY <1>4, <3>1
    <3>4. QED
      BY <3>1, <3>2, <3>3 DEF Cache!ActiveAt
  <2>3. QED
    BY <1>4, <1>b, <2>1, <2>2
<1>5. ASSUME NEW i \in Instance, i # j, Apply(i) \/ RemoveExpired(i) \/ Restart(i)
      PROVE  UNCHANGED <<done[j], tickets[j], inactive[j]>>
  BY <1>5 DEF Apply, RemoveExpired, Restart, TypeOK
<1>6. ASSUME \A i \in Instance : ~ (Apply(i) \/ RemoveExpired(i) \/ Restart(i))
      PROVE  UNCHANGED <<done[j], tickets[j], inactive[j]>>
  BY <1>6, AddedEntry
     DEF Next, Stream, Core, EndBurst, LockTimeout, Added, EntryAdded, XTrim, Sync,
         Poll, Enqueue, Tick, vars
<1>7. QED
  BY <1>1, <1>2, <1>3, <1>4, <1>5, <1>6

LEMMA AssignStep ==
  /\ TypeOK /\ LogOK /\ PositionsOK /\ NothingLost /\ AssignmentsKept
  /\ [Next]_vars
  => AssignmentsKept'
<1> SUFFICES ASSUME TypeOK, LogOK, PositionsOK, NothingLost, AssignmentsKept,
                    [Next]_vars
             PROVE  AssignmentsKept'
  OBVIOUS
<1>a. SUFFICES ASSUME NEW j \in Instance, NEW a \in 1 .. done'[j],
                      log'[a].cmd = "assign", log'[a].key # Malformed,
                      ~ Dead(log[a].key)'
               PROVE  log'[a].key \in assigned'[j]
  BY DEF AssignmentsKept
<1>0. /\ done[j] \in 0 .. Len(log) /\ done[j] \in Nat /\ Len(log) \in Nat
  BY DEF TypeOK
<1>b. ASSUME a \in Entries
      PROVE  /\ log'[a] = log[a]
             /\ log[a].key \in Entries /\ ~ Dead(log[a].key) /\ ~ Dead(a)
  <2>1. log'[a] = log[a]
    BY <1>b, LogGrows
  <2>2. log[a].key < a /\ log[a].key \in Entries /\ log[a].key \in 1 .. a
    BY <1>a, <1>b, <2>1, EntryFacts DEF LogOK, Malformed, Entries
  <2>3. ~ Dead(log[a].key)
    <3>1. ASSUME NEW k \in Entries, k = log[a].key, Dead(k) PROVE FALSE
      <4>1. now' - log'[k].at > TTL
        BY <3>1, LogGrows DEF Dead
      <4>2. log'[a].key = k
        BY <2>1, <3>1
      <4>3. QED
        BY <1>a, <4>1, <4>2 DEF Dead
    <3>2. QED
      BY <2>2, <3>1
  <2>4. ~ Dead(a)
    BY <1>b, <2>2, <2>3, OlderIsDead
  <2>5. QED
    BY <2>1, <2>2, <2>3, <2>4
<1>c. ASSUME a \in 1 .. done[j]
      PROVE  a \in Entries /\ log[a].key \in assigned[j]
  <2>1. a \in Entries
    BY <1>0, <1>c DEF Entries
  <2>2. QED
    BY <1>a, <1>b, <1>c, <2>1 DEF AssignmentsKept
<1>1. CASE Apply(j)
  <2> DEFINE k == Head(queue[j])
  <2>1. /\ queue[j] # << >>
        /\ done'[j] = k
        /\ assigned'[j] = IF log[k].cmd = "assign"
                            THEN assigned[j] \cup {log[k].key} ELSE assigned[j]
    BY <1>1 DEF Apply, TypeOK
  <2>2. /\ k \in Entries /\ k \in Nat /\ done[j] < k
        /\ \A d \in done[j] + 1 .. k - 1 : Dead(d)
    BY <2>1, HeadOfQueue, EntryTyped
  <2> HIDE DEF k
  <2>3. a \in Entries
    BY <2>1, <2>2 DEF Entries
  <2>4. CASE a = k
    BY <1>a, <1>b, <2>1, <2>3, <2>4
  <2>5. CASE a \in done[j] + 1 .. k - 1
    BY <1>b, <2>2, <2>3, <2>5
  <2>6. CASE a \in 1 .. done[j]
    BY <1>b, <1>c, <2>1, <2>3, <2>6
  <2>7. QED
    BY <1>0, <2>1, <2>2, <2>4, <2>5, <2>6
<1>2. CASE RemoveExpired(j)
  <2>1. a \in 1 .. done[j]
    BY <1>2 DEF RemoveExpired
  <2>2. /\ a \in Entries /\ log[a].key \in assigned[j]
        /\ log'[a] = log[a] /\ log[a].key \in Entries /\ ~ Dead(log[a].key)
    BY <1>b, <1>c, <2>1
  <2>3. assigned'[j] = assigned[j] \ Outlived(assigned[j])
    BY <1>2 DEF RemoveExpired, TypeOK
  <2>4. log[a].key # Malformed
    BY <1>a, <2>2
  <2>5. ~ (now - log[log[a].key].at > TTL + ATTL)
    <3>1. now \in Nat /\ log[log[a].key].at \in Nat
      BY <2>2, EntryTyped
    <3>2. QED
      BY <2>2, <3>1, ReplicationAssumption DEF Dead
  <2>6. QED
    BY <2>2, <2>3, <2>4, <2>5 DEF Outlived
<1>3. CASE Restart(j)
  <2>1. PICK c \in 0 .. Len(log) :
          /\ \A k \in Entries : k <= c <=> BeforeHorizon(k)
          /\ done'[j] = c
    BY <1>3 DEF Restart, TypeOK
  <2>2. a \in Entries /\ BeforeHorizon(a)
    BY <1>0, <2>1 DEF Entries
  <2>3. Dead(a)
    BY <2>2, EntryTyped, ReplicationAssumption DEF BeforeHorizon, Horizon, Dead
  <2>4. QED
    BY <1>b, <2>2, <2>3
<1>4. CASE UNCHANGED <<done[j], assigned[j]>>
  BY <1>4, <1>b, <1>c
<1>5. ASSUME NEW i \in Instance, i # j, Apply(i) \/ RemoveExpired(i) \/ Restart(i)
      PROVE  UNCHANGED <<done[j], assigned[j]>>
  BY <1>5 DEF Apply, RemoveExpired, Restart, TypeOK
<1>6. ASSUME \A i \in Instance : ~ (Apply(i) \/ RemoveExpired(i) \/ Restart(i))
      PROVE  UNCHANGED <<done[j], assigned[j]>>
  BY <1>6, AddedEntry
     DEF Next, Stream, Core, EndBurst, LockTimeout, Added, EntryAdded, XTrim, Sync,
         Poll, Enqueue, Tick, vars
<1>7. QED
  BY <1>1, <1>2, <1>3, <1>4, <1>5, <1>6

-----------------------------------------------------------------------------
LEMMA InitInv == Init => IInv
  BY TypeInit
     DEF Init, IInv, LogOK, TrimmedDead, PositionsOK, NothingLost, StoredSeen,
         LiveViewMatchesLog, AssignmentsKept, Entries

LEMMA InductiveInvariant == Spec => []IInv
<1>1. IInv /\ [Next]_vars => IInv'
  BY TypeStep, LogStep, TrimStep, PositionsStep, QueueStep, StoredStep, ViewStep,
     AssignStep DEF IInv
<1>2. QED
  BY InitInv, <1>1, PTL DEF Spec

\* The variables keep their types: in particular the poller's cursor never runs
\* ahead of the stream, and the cache holds ids of entries or ill-formed ones.
THEOREM ReplicationTypeCorrect == Spec => []TypeOK
  BY InductiveInvariant, PTL DEF IInv

\* Whatever was trimmed, polled late, queued or replayed after a restart, each
\* instance's cache shows the live tickets of the log up to its position, each
\* active exactly if the last update of it is an Activate.
THEOREM ViewMatchesLog == Spec => []LiveViewMatchesLog
  BY InductiveInvariant, PTL DEF IInv

\* An entry an instance has passed over was dead, and those in its channel wait
\* in order.
THEOREM NoUpdateLost == Spec => []NothingLost
  BY InductiveInvariant, PTL DEF IInv

\* An assignment an instance received is kept while its ticket is not dead.
THEOREM AssignmentsAreKept == Spec => []AssignmentsKept
  BY InductiveInvariant, PTL DEF IInv

-----------------------------------------------------------------------------
\* Refinement.

LEMMA PoolIsOffered ==
  IInv => \A i \in Instance : PoolOf(i) = Cache!Offered(done[i])
<1> SUFFICES ASSUME IInv, NEW i \in Instance
             PROVE  PoolOf(i) = Cache!Offered(done[i])
  OBVIOUS
<1>1. /\ done[i] \in Nat /\ done[i] <= Len(log) /\ Len(log) \in Nat
      /\ tickets[i] \subseteq Entries
  BY DEF IInv, TypeOK
<1>2. ASSUME NEW t \in Entries
      PROVE  Cache!Live(t) <=> log[t].cmd = "ticket" /\ ~ Expired(t)
  BY EntryTyped DEF IInv, Cache!Live, Cache!IsTicket, Expired
<1>3. \A t \in 1 .. done[i] : t \in Entries
  BY <1>1 DEF Entries
<1>4. \A t \in tickets[i] : t \in 1 .. done[i]
  BY <1>1 DEF IInv, StoredSeen, Entries
<1>5. \A t \in 1 .. done[i] : Cache!Live(t) =>
        (t \in tickets[i] \ inactive[i] <=> Cache!ActiveAt(t, done[i]))
  BY DEF IInv, LiveViewMatchesLog
<1>6. QED
  BY <1>2, <1>3, <1>4, <1>5 DEF PoolOf, Cache!Offered

LEMMA RefinementInit == Init => Cache!Init
  BY DEF Init, Cache!Init, PoolOf

LEMMA RefinementStep == IInv /\ IInv' /\ [Next]_vars => [Cache!Next]_Cache!vars
<1> SUFFICES ASSUME IInv, IInv', [Next]_vars PROVE [Cache!Next]_Cache!vars
  OBVIOUS
<1>1. /\ [i \in Instance |-> PoolOf(i)] = [i \in Instance |-> Cache!Offered(done[i])]
      /\ [i \in Instance |-> PoolOf(i)]'
           = [i \in Instance |-> Cache!Offered(done[i])']
  <2>1. \A i \in Instance : PoolOf(i) = Cache!Offered(done[i])
    BY PoolIsOffered
  <2>2. (\A i \in Instance : PoolOf(i) = Cache!Offered(done[i]))'
    BY PoolIsOffered, PTL
  <2>3. QED
    BY <2>1, <2>2
<1>2. CASE Added
  <2>1. PICK e : EntryAdded(e)
    BY <1>2, AddedEntry DEF IInv
  <2>2. Cache!Publish
    BY <2>1, AppendEntry DEF EntryAdded, Cache!Publish, IInv, TypeOK
  <2>3. QED
    BY <1>1, <2>2 DEF Cache!Next
<1>3. CASE Tick
  BY <1>1, <1>3 DEF Tick, Cache!Tick, Cache!Next
<1>4. ASSUME NEW i \in Instance, Apply(i) PROVE Cache!Next
  <2>1. queue[i] # << >> /\ log' = log /\ now' = now
        /\ done' = [done EXCEPT ![i] = Head(queue[i])]
    BY <1>4 DEF Apply
  <2>2. /\ Head(queue[i]) \in done[i] + 1 .. Len(log)
        /\ \A k \in done[i] + 1 .. Head(queue[i]) - 1 : Cache!Dead(k)
    <3>1. /\ Head(queue[i]) \in Entries /\ done[i] < Head(queue[i])
          /\ \A k \in done[i] + 1 .. Head(queue[i]) - 1 : Dead(k)
      BY <2>1, HeadOfQueue DEF IInv
    <3>2. done[i] \in Nat /\ Len(log) \in Nat
      BY DEF IInv, TypeOK
    <3>3. QED
      BY <3>1, <3>2 DEF Entries, Dead, Cache!Dead
  <2>3. Cache!Advance(i)
    BY <2>1, <2>2 DEF Cache!Advance
  <2>4. QED
    BY <1>1, <2>3 DEF Cache!Next
<1>5. ASSUME NEW i \in Instance, Restart(i) PROVE Cache!Next
  <2>1. PICK c \in 0 .. Len(log) :
          /\ \A k \in Entries : k <= c <=> BeforeHorizon(k)
          /\ done' = [done EXCEPT ![i] = c]
    BY <1>5 DEF Restart
  <2>2. ASSUME NEW k \in 1 .. c PROVE Cache!Dead(k)
    <3>1. k \in Entries /\ k <= c
      BY DEF Entries, IInv, TypeOK
    <3>2. BeforeHorizon(k)
      BY <2>1, <3>1
    <3>3. now \in Nat /\ log[k].at \in Nat
      BY <3>1, EntryTyped DEF IInv
    <3>4. QED
      BY <3>2, <3>3, ReplicationAssumption DEF BeforeHorizon, Horizon, Cache!Dead
  <2>3. log' = log /\ now' = now
    BY <1>5 DEF Restart
  <2>4. Cache!Recover(i)
    BY <2>1, <2>2, <2>3 DEF Cache!Recover
  <2>5. QED
    BY <1>1, <2>4 DEF Cache!Next
<1>6. CASE UNCHANGED <<log, now, done>>
  <2>1. [i \in Instance |-> Cache!Offered(done[i])']
          = [i \in Instance |-> Cache!Offered(done[i])]
    BY <1>6 DEF Cache!Offered, Cache!Live, Cache!IsTicket, Cache!ActiveAt
  <2>2. QED
    BY <1>1, <1>6, <2>1 DEF Cache!vars
<1>7. QED
  BY <1>2, <1>3, <1>4, <1>5, <1>6
     DEF Next, Stream, Core, EndBurst, LockTimeout, Added, XTrim, Sync, Poll,
         Enqueue, RemoveExpired, vars

\* The cache of every instance implements TicketPool: what an instance offers
\* is at every moment a function of the log and of its position in it, and the
\* position passes over dead entries only.
THEOREM CacheImplementsPool == Spec => ImplementsTicketPool
<1>1. QED
  BY RefinementInit, RefinementStep, InductiveInvariant, PTL
     DEF Spec, ImplementsTicketPool, Cache!Spec

=============================================================================
