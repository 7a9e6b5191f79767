-------------------------- MODULE MemoryReplication -------------------------
(***************************************************************************)
(* Replication with the in-memory replicator, OM_STATE_STORAGE_TYPE        *)
(* "memory": one om-core instance that sends its updates to itself.        *)
(*                                                                         *)
(* SendUpdates gives each update of a batch an id made from the wall clock *)
(* and hands it over on an unbuffered channel, which GetUpdates receives   *)
(* from until a timeout.  The polling goroutine puts what it received into *)
(* the bounded channel replStream and the applier takes it from there, as  *)
(* with Redis; nothing is stored in between, so a sender waits while the   *)
(* poller does.                                                            *)
(***************************************************************************)
EXTENDS Integers, Sequences

CONSTANTS
  Threshold,    \* OM_CACHE_OUT_MAX_QUEUE_THRESHOLD
  Capacity,     \* OM_CACHE_IN_MAX_UPDATES_PER_POLL: room in replStream
  MaxUpdates,   \* bound: updates ever sent
  MaxTime,      \* bound: the clock, in milliseconds
  MaxSetbacks   \* bound: times the clock is set back

ASSUME MemoryAssumption ==
  /\ Threshold \in Nat \ {0} /\ Capacity \in Nat \ {0}
  /\ MaxUpdates \in Nat /\ MaxTime \in Nat \ {0} /\ MaxSetbacks \in Nat

VARIABLES
  now,        \* the wall clock
  setbacks,   \* bound: how often it was set back
  replTS,     \* rc.replTS
  replCount,  \* rc.replCount
  batch,      \* pipeline: the updates SendUpdates has not handed over yet
  step,       \* where getReplId or the send of the first of them is
  sent,       \* history: the updates given an id, in order
  handed,     \* how many of them GetUpdates received
  acked,      \* how many of them were answered: their ids are known to clients
  polling,    \* the poller is in GetUpdates
  polled,     \* the updates GetUpdates received and the poller has to queue
  replStream, \* the channel to the applier
  applied     \* history: the updates applied to the cache, in order

clockVars == <<now, setbacks>>
sendVars == <<replTS, replCount, batch, step, sent, acked>>
pollVars == <<polling, polled>>
vars == <<clockVars, sendVars, handed, pollVars, replStream, applied>>

Id == [ms : Nat, count : Nat]
NoId == [ms |-> 0, count |-> 0]

\* An update as a client asks for it (the id of a new ticket is not known yet),
\* and the id it is given.
Update == [cmd : {"ticket", "activate"}, key : Id]
Entry == [cmd : {"ticket", "activate"}, key : Id, id : Id]

\* Ids are ordered as Redis orders those of stream entries.
Before(a, b) == a.ms < b.ms \/ (a.ms = b.ms /\ a.count < b.count)

-----------------------------------------------------------------------------
Init ==
  /\ now = 1
  /\ setbacks = 0
  /\ replTS = now
  /\ replCount = 0
  /\ batch = << >>
  /\ step = "idle"
  /\ sent = << >>
  /\ handed = 0
  /\ acked = 0
  /\ polling = TRUE
  /\ polled = << >>
  /\ replStream = << >>
  /\ applied = << >>

TypeOK ==
  /\ now \in 1 .. MaxTime
  /\ setbacks \in 0 .. MaxSetbacks
  /\ replTS \in 1 .. MaxTime
  /\ replCount \in Nat
  /\ batch \in Seq(Update) /\ Len(batch) <= Threshold
  /\ step \in {"idle", "compare", "stamp", "send"}
  /\ sent \in Seq(Entry)
  /\ handed \in 0 .. Len(sent) /\ acked \in 0 .. handed
  /\ polling \in BOOLEAN
  /\ polled \in Seq(Entry)
  /\ replStream \in Seq(Entry) /\ Len(replStream) <= Capacity
  /\ applied \in Seq(Entry)

Tick ==
  /\ now < MaxTime
  /\ now' = now + 1
  /\ UNCHANGED <<setbacks, sendVars, handed, pollVars, replStream, applied>>

\* The wall clock is adjusted.
SetBack ==
  /\ setbacks < MaxSetbacks
  /\ setbacks' = setbacks + 1
  /\ now' \in 1 .. now - 1
  /\ UNCHANGED <<sendVars, handed, pollVars, replStream, applied>>

-----------------------------------------------------------------------------
\* OutgoingReplicationQueue and SendUpdates.

KnownIds == {sent[k].id : k \in {j \in 1 .. acked : sent[j].cmd = "ticket"}}

Requests ==
  {[cmd |-> "ticket", key |-> NoId]} \cup
  {[cmd |-> "activate", key |-> id] : id \in KnownIds}

\* A batch is collected: new tickets, and activations of tickets whose id was
\* returned.
StartBatch ==
  /\ batch = << >>
  /\ \E size \in 1 .. Threshold :
       /\ Len(sent) + size <= MaxUpdates
       /\ batch' \in [1 .. size -> Requests]
  /\ step' = "compare"
  /\ UNCHANGED <<clockVars, replTS, replCount, sent, acked, handed, pollVars,
                 replStream, applied>>

\* The first update of the batch has its id: a new ticket takes it as its key.
Stamped(id) ==
  LET up == Head(batch)
  IN  /\ sent' = Append(sent, [cmd |-> up.cmd, id |-> id,
                               key |-> IF up.cmd = "ticket" THEN id ELSE up.key])
      /\ step' = "send"

\* Mutant: the counter is not advanced within a millisecond.
CompareOnly ==
  /\ step = "compare"
  /\ IF now = replTS
       THEN /\ replCount' = replCount
            /\ Stamped([ms |-> replTS, count |-> replCount'])
       ELSE /\ step' = "stamp"
            /\ UNCHANGED <<replCount, sent>>
  /\ UNCHANGED <<clockVars, replTS, batch, acked, handed, pollVars, replStream,
                 applied>>

\* getReplId: in the millisecond of the id before, the counter goes up.
Compare ==
  /\ step = "compare"
  /\ IF now = replTS
       THEN /\ replCount' = replCount + 1
            /\ Stamped([ms |-> replTS, count |-> replCount'])
       ELSE /\ step' = "stamp"
            /\ UNCHANGED <<replCount, sent>>
  /\ UNCHANGED <<clockVars, replTS, batch, acked, handed, pollVars, replStream,
                 applied>>

\* In another, the clock is read once more, and the counter starts anew.
Stamp ==
  /\ step = "stamp"
  /\ replTS' = now
  /\ replCount' = 0
  /\ Stamped([ms |-> now, count |-> 0])
  /\ UNCHANGED <<clockVars, batch, acked, handed, pollVars, replStream, applied>>

\* The results are returned when the whole batch is handed over.
AckAfter(n) == IF Len(batch) = 1 THEN n ELSE acked

\* rc.replChan <- up meets the receive in GetUpdates.
HandOver ==
  /\ step = "send"
  /\ polling
  /\ polled' = Append(polled, sent[Len(sent)])
  /\ handed' = handed + 1
  /\ batch' = Tail(batch)
  /\ step' = IF Len(batch) = 1 THEN "idle" ELSE "compare"
  /\ acked' = AckAfter(handed + 1)
  /\ UNCHANGED <<clockVars, replTS, replCount, sent, polling, replStream, applied>>

-----------------------------------------------------------------------------
\* The polling and the applying goroutine.

\* The timeout of GetUpdates, after which the poller queues what it got.
PollTimeout ==
  /\ polling
  /\ polling' = FALSE
  /\ UNCHANGED <<clockVars, sendVars, handed, polled, replStream, applied>>

\* Mutant: an update that finds replStream full is dropped.
QueueOrDrop ==
  /\ ~ polling
  /\ polled # << >>
  /\ replStream' = IF Len(replStream) < Capacity
                     THEN Append(replStream, Head(polled)) ELSE replStream
  /\ polled' = Tail(polled)
  /\ UNCHANGED <<clockVars, sendVars, handed, polling, applied>>

\* replStream <- *curUpdate, which blocks while the channel is full.
Queue ==
  /\ ~ polling
  /\ polled # << >>
  /\ Len(replStream) < Capacity
  /\ replStream' = Append(replStream, Head(polled))
  /\ polled' = Tail(polled)
  /\ UNCHANGED <<clockVars, sendVars, handed, polling, applied>>

\* Mutant: the poller goes back once replStream is full, and forgets the rest.
PollWhenFull ==
  /\ ~ polling
  /\ polled = << >> \/ Len(replStream) = Capacity
  /\ polled' = << >>
  /\ polling' = TRUE
  /\ UNCHANGED <<clockVars, sendVars, handed, replStream, applied>>

\* Mutant: the poller waits until the cache has all that was sent.
PollWhenSynced ==
  /\ ~ polling
  /\ polled = << >>
  /\ applied = sent
  /\ polling' = TRUE
  /\ UNCHANGED <<clockVars, sendVars, handed, polled, replStream, applied>>

\* Everything is queued and the deadline has passed: GetUpdates again.
PollAgain ==
  /\ ~ polling
  /\ polled = << >>
  /\ polling' = TRUE
  /\ UNCHANGED <<clockVars, sendVars, handed, polled, replStream, applied>>

Apply ==
  /\ replStream # << >>
  /\ applied' = Append(applied, Head(replStream))
  /\ replStream' = Tail(replStream)
  /\ UNCHANGED <<clockVars, sendVars, handed, pollVars>>

Send == StartBatch \/ Compare \/ Stamp \/ HandOver

Next ==
  \/ Tick \/ SetBack
  \/ Send
  \/ PollTimeout \/ Queue \/ PollAgain
  \/ Apply

Spec == Init /\ [][Next]_vars

\* The goroutines keep running.  The sender meets the poller again and again:
\* GetUpdates receives and times out with a random choice when both can happen.
Fairness ==
  /\ WF_vars(Compare) /\ WF_vars(Stamp) /\ SF_vars(HandOver)
  /\ WF_vars(PollTimeout) /\ WF_vars(Queue) /\ WF_vars(PollAgain)
  /\ WF_vars(Apply)

FairSpec == Spec /\ Fairness

-----------------------------------------------------------------------------
\* What was handed over is applied in the order of the ids given, each update
\* once, whatever waits in the poller or in the channel.
AppliedInOrder ==
  applied \o replStream \o polled = SubSeq(sent, 1, handed)

\* An activation is applied after the ticket it activates, so that the ticket's
\* own update does not put it back on the inactive list: a client learns the id
\* only when the ticket's update is on its way.
TicketBeforeActivation ==
  \A k \in DOMAIN applied :
    applied[k].cmd = "activate" =>
      \E j \in 1 .. k - 1 : applied[j].cmd = "ticket" /\ applied[j].key = applied[k].key

\* As long as the wall clock is not set back, no two updates have the same id,
\* and later ones have later ids, as with Redis.
IdsIncrease ==
  setbacks = 0 =>
    \A j, k \in DOMAIN sent : j < k => Before(sent[j].id, sent[k].id)

\* Every update that was given an id is applied: the sender does not wait for ever
\* for a poller that waits for the applier.
EveryUpdateApplied ==
  \A k \in 1 .. MaxUpdates : (Len(sent) >= k) ~> (Len(applied) >= k)

=============================================================================
