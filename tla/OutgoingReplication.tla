------------------------- MODULE OutgoingReplication ------------------------
(***************************************************************************)
(* How one om-core instance replicates the updates of its gRPC handlers.   *)
(*                                                                         *)
(* A handler turns its request into updates, sends them one by one on the  *)
(* unbuffered channel UpRequests, and then waits for as many results on a  *)
(* channel of its own.  The goroutine OutgoingReplicationQueue collects    *)
(* updates of any handlers into a batch, until the batch is full or a      *)
(* timer fires, has the Redis replicator write it as one pipeline, and     *)
(* sends each result to the channel of its update before it collects the   *)
(* next batch.  When the replies do not come, Redis may still run commands *)
(* of the pipeline later.                                                  *)
(***************************************************************************)
EXTENDS Integers, Sequences, FiniteSets

CONSTANTS
  Call,        \* gRPC calls handled by the instance
  Request,     \* requests the calls make
  Threshold,   \* OM_CACHE_OUT_MAX_QUEUE_THRESHOLD
  MaxUpdates,  \* OM_MAX_STATE_UPDATES_PER_CALL
  Fault        \* what may go wrong in Redis: a subset of FaultKind

\* The replies do not arrive, because the connection breaks or the read of them
\* times out; XADD commands are refused; the XTRIM command is refused.
FaultKind == {"pipeline", "xadd", "xtrim"}

\* A ticket id as it stands in a request: in the form of a stream entry id, in
\* another form, or the empty string.
IdForm == {"good", "malformed", "empty"}

\* CreateTicket has no ids.  SetState is ActivateTickets or DeactivateTickets;
\* MatchDeactivation is the deactivation of a match returned by an MMF.
Rpc == {"CreateTicket", "SetState", "MatchDeactivation", "CreateAssignments",
        "EmptyAssignment"}

ASSUME OutgoingAssumption ==
  /\ Request \subseteq [rpc : Rpc, ids : Seq(IdForm)]
  /\ Threshold \in Nat \ {0}
  /\ MaxUpdates \in Nat
  /\ Fault \subseteq FaultKind

VARIABLES
  request,   \* request[c]: what call c was asked for
  phase,     \* phase[c]: where its handler is
  sent,      \* sent[c]: updates it has sent on UpRequests
  rChan,     \* rChan[c]: results buffered in its channel
  closed,    \* closed[c]: its channel is closed
  received,  \* received[c]: results it has taken from its channel
  outcome,   \* outcome[c]: what the caller gets
  batch,     \* pipelineRequests: the updates collected
  pending,   \* results not delivered yet, with the update each is for
  stream,    \* the Redis stream: the updates written, in order
  adrift     \* what Redis has still to run of pipelines given up: sequences of updates

callVars == <<request, phase, sent, rChan, closed, received, outcome>>
vars == <<callVars, batch, pending, stream, adrift>>

-----------------------------------------------------------------------------
\* The updates a handler makes of its request: "valid" or "invalid" is what
\* SendUpdates will find.

Ids(c) == request[c].ids

\* The positions of the ids in the right form, and of those that are not empty.
IsGood(c)   == {n \in DOMAIN Ids(c) : Ids(c)[n] = "good"}
NotEmpty(c) == {n \in DOMAIN Ids(c) : Ids(c)[n] # "empty"}

\* One update for each of the positions.
OneEach(positions, update) == [n \in 1 .. Cardinality(positions) |-> update]

\* validateTicketStateUpdates: the ids in the right form are kept, unless there
\* are too many, or none.  Only SetState validates; assignments without an id
\* are skipped.
Rejected(c) ==
  /\ request[c].rpc = "SetState"
  /\ \/ Len(Ids(c)) > MaxUpdates
     \/ IsGood(c) = {}

Updates(c) ==
  CASE request[c].rpc = "CreateTicket" -> <<"valid">>
    [] request[c].rpc = "SetState" -> OneEach(IsGood(c), "valid")
    [] request[c].rpc = "MatchDeactivation" ->
         [n \in DOMAIN Ids(c) |->
            IF Ids(c)[n] = "empty" THEN "invalid" ELSE "valid"]
    [] request[c].rpc = "CreateAssignments" -> OneEach(NotEmpty(c), "valid")
    [] request[c].rpc = "EmptyAssignment" -> OneEach(NotEmpty(c), "invalid")

\* Mutant: every results channel is unbuffered.
NoRoom(c) == 0

\* make(chan *store.StateResponse) in createTicket, with room for every result
\* in the other handlers: CreateAssignments counts the ids it will skip too.
RoomFor(c) ==
  CASE request[c].rpc = "CreateTicket" -> 0
    [] request[c].rpc \in {"SetState", "MatchDeactivation"} -> Len(Updates(c))
    [] OTHER -> Len(Ids(c))

ClosesChannel(c) == request[c].rpc \in {"SetState", "MatchDeactivation"}

\* The response, once every result is in.  The handlers of SetState build a
\* status from the validation error whenever there is any error to report:
\* with no validation error that is a nil dereference.  Failures of
\* assignments are logged only.
Response(c) ==
  LET failed  == \E n \in DOMAIN received[c] : received[c][n].err
      invalid == IsGood(c) # DOMAIN Ids(c)
  IN  CASE request[c].rpc = "CreateTicket" -> IF failed THEN "error" ELSE "ok"
        [] request[c].rpc = "SetState" /\ invalid -> "error"
        [] request[c].rpc = "SetState" /\ ~ invalid ->
             IF failed THEN "panic" ELSE "ok"
        [] OTHER -> "ok"

-----------------------------------------------------------------------------
\* SendUpdates.  A result has the error flag and the stream id of the response
\* (0 is no id); it also records, for the properties, its update and whether
\* the batch was clean: every update valid and every reply received.

Update == [call : Call, n : Nat]

ValidUpdate(u) == Updates(u.call)[u.n] = "valid"

\* The m-th of a set of positions, and the elements of s at a set of positions.
Nth(S, m) == CHOOSE k \in S : Cardinality({j \in S : j <= k}) = m
Pick(s, S) == [m \in 1 .. Cardinality(S) |-> s[Nth(S, m)]]

\* The commands sent: an update that is not valid adds none.
Commands == Pick(batch, {n \in DOMAIN batch : ValidUpdate(batch[n])})

Written(refused) == Pick(Commands, DOMAIN Commands \ refused)

\* Mutant: the reply of the command before is read.
ReplyBefore(k, refused) ==
  IF k \in refused THEN 0
  ELSE Len(stream) + Cardinality((1 .. k - 1) \ refused)

\* Redis's reply to command k: an entry id, or 0 for an error.
Reply(k, refused) ==
  IF k \in refused THEN 0
  ELSE Len(stream) + Cardinality((1 .. k) \ refused)

\* Mutant: results are matched to the batch from its end.
ResultFromEnd(n, refused, trimFailed) ==
  LET u == batch[Len(batch) + 1 - n]
  IN  [update |-> u,
       clean  |-> Commands = batch,
       err    |-> ~ ValidUpdate(u) \/ trimFailed \/ n \in refused,
       id     |-> IF ValidUpdate(u) /\ ~ trimFailed /\ n <= Len(Commands)
                    THEN Reply(n, refused) ELSE 0]

\* The loop over the replies reads reply n for update n, and the loop ends with
\* the replies: later updates keep the response they were initialised with.
Result(n, refused, trimFailed) ==
  LET u == batch[n]
      answered == n <= Len(Commands)
      failed == answered /\ (trimFailed \/ n \in refused)
  IN  [update |-> u,
       clean  |-> Commands = batch,
       err    |-> ~ ValidUpdate(u) \/ failed,
       id     |-> IF answered /\ ValidUpdate(u) /\ ~ failed
                    THEN Reply(n, refused) ELSE 0]

\* Without a reply every valid update keeps its initial response: no error.
LostResult(n) ==
  [update |-> batch[n], clean |-> FALSE,
   err |-> ~ ValidUpdate(batch[n]), id |-> 0]

-----------------------------------------------------------------------------
Init ==
  /\ request \in [Call -> Request]
  /\ phase = [c \in Call |-> "start"]
  /\ sent = [c \in Call |-> 0]
  /\ rChan = [c \in Call |-> << >>]
  /\ closed = [c \in Call |-> FALSE]
  /\ received = [c \in Call |-> << >>]
  /\ outcome = [c \in Call |-> "none"]
  /\ batch = << >>
  /\ pending = << >>
  /\ stream = << >>
  /\ adrift = {}

Results == [update : Update, clean : BOOLEAN, err : BOOLEAN, id : Nat]

TypeOK ==
  /\ request \in [Call -> Request]
  /\ phase \in [Call -> {"start", "submit", "await", "returned"}]
  /\ sent \in [Call -> Nat] /\ \A c \in Call : sent[c] <= Len(Updates(c))
  /\ rChan \in [Call -> Seq(Results)]
  /\ \A c \in Call : Len(rChan[c]) <= RoomFor(c)
  /\ closed \in [Call -> BOOLEAN]
  /\ received \in [Call -> Seq(Results)]
  /\ outcome \in [Call -> {"none", "ok", "error", "panic"}]
  /\ batch \in Seq(Update) /\ Len(batch) <= Threshold
  /\ pending \in Seq(Results)
  /\ stream \in Seq(Update)
  /\ adrift \subseteq Seq(Update) \ {<< >>}

\* A panic in a handler's goroutine ends the process: nothing recovers it.
Crashed == \E c \in Call : outcome[c] = "panic"

Alive == ~ Crashed

-----------------------------------------------------------------------------
\* The handlers.

Begin(c) ==
  /\ Alive
  /\ phase[c] = "start"
  /\ IF Rejected(c)
       THEN /\ phase' = [phase EXCEPT ![c] = "returned"]
            /\ outcome' = [outcome EXCEPT ![c] = "error"]
       ELSE /\ phase' = [phase EXCEPT ![c] = "submit"]
            /\ UNCHANGED outcome
  /\ UNCHANGED <<request, sent, rChan, closed, received, batch, pending, stream, adrift>>

\* tc.UpRequests <- ..., taken by the collecting goroutine in the same step.
Submit(c) ==
  /\ Alive
  /\ phase[c] = "submit"
  /\ sent[c] < Len(Updates(c))
  /\ pending = << >>
  /\ Len(batch) < Threshold
  /\ batch' = Append(batch, [call |-> c, n |-> sent[c] + 1])
  /\ sent' = [sent EXCEPT ![c] = @ + 1]
  /\ UNCHANGED <<request, phase, rChan, closed, received, outcome, pending, stream, adrift>>

AllSent(c) ==
  /\ Alive
  /\ phase[c] = "submit"
  /\ sent[c] = Len(Updates(c))
  /\ phase' = [phase EXCEPT ![c] = "await"]
  /\ UNCHANGED <<request, sent, rChan, closed, received, outcome, batch, pending,
                 stream, adrift>>

Receive(c) ==
  /\ Alive
  /\ phase[c] = "await"
  /\ rChan[c] # << >>
  /\ received' = [received EXCEPT ![c] = Append(@, Head(rChan[c]))]
  /\ rChan' = [rChan EXCEPT ![c] = Tail(@)]
  /\ UNCHANGED <<request, phase, sent, closed, outcome, batch, pending, stream, adrift>>

\* Mutant: the handler returns as soon as a result has arrived.
HasSomeResult(c) == received[c] # << >> \/ sent[c] = 0

HasAllResults(c) == Len(received[c]) = sent[c]

\* The deferred close runs before the handler builds its response.
Return(c) ==
  /\ Alive
  /\ phase[c] = "await"
  /\ HasAllResults(c)
  /\ phase' = [phase EXCEPT ![c] = "returned"]
  /\ closed' = [closed EXCEPT ![c] = ClosesChannel(c)]
  /\ outcome' = [outcome EXCEPT ![c] = Response(c)]
  /\ UNCHANGED <<request, sent, rChan, received, batch, pending, stream, adrift>>

-----------------------------------------------------------------------------
\* OutgoingReplicationQueue.

Refusable == IF "xadd" \in Fault THEN SUBSET DOMAIN Commands ELSE {{}}

\* Mutant: the batch is not emptied.
FlushAgain ==
  /\ Alive
  /\ pending = << >>
  /\ batch # << >>
  /\ UNCHANGED <<callVars, batch, adrift>>
  /\ \E refused \in Refusable, trimFailed \in {FALSE, "xtrim" \in Fault} :
       /\ stream' = stream \o Written(refused)
       /\ pending' = [n \in DOMAIN batch |-> Result(n, refused, trimFailed)]

\* The batch is full, or the timer fired: SendUpdates, replies received.
Flush ==
  /\ Alive
  /\ pending = << >>
  /\ batch # << >>
  /\ batch' = << >>
  /\ UNCHANGED <<callVars, adrift>>
  /\ \E refused \in Refusable, trimFailed \in {FALSE, "xtrim" \in Fault} :
       /\ stream' = stream \o Written(refused)
       /\ pending' = [n \in DOMAIN batch |-> Result(n, refused, trimFailed)]

\* SendUpdates without replies.  The first m commands reach Redis, and it is left
\* open when it runs them.
FlushBroken ==
  /\ Alive
  /\ "pipeline" \in Fault
  /\ pending = << >>
  /\ batch # << >>
  /\ batch' = << >>
  /\ UNCHANGED <<callVars, stream>>
  /\ pending' = [n \in DOMAIN batch |-> LostResult(n)]
  /\ \E refused \in Refusable : \E m \in 0 .. Len(Written(refused)) :
       adrift' = adrift \cup ({SubSeq(Written(refused), 1, m)} \ {<< >>})

\* Redis runs the next command of a pipeline that was given up: before or after its
\* results are delivered, later batches are written, or the process has died.
RunLate ==
  \E s \in adrift :
    /\ stream' = Append(stream, Head(s))
    /\ adrift' = (adrift \ {s}) \cup ({Tail(s)} \ {<< >>})
    /\ UNCHANGED <<callVars, batch, pending>>

\* pipelineRequests[index].ResultsChan <- result: into the buffer, or, if there
\* is none, straight to a waiting handler.
Deliver ==
  /\ Alive
  /\ pending # << >>
  /\ LET c == Head(pending).update.call
     IN  \/ /\ Len(rChan[c]) < RoomFor(c)
            /\ rChan' = [rChan EXCEPT ![c] = Append(@, Head(pending))]
            /\ UNCHANGED received
         \/ /\ RoomFor(c) = 0
            /\ phase[c] = "await"
            /\ received' = [received EXCEPT ![c] = Append(@, Head(pending))]
            /\ UNCHANGED rChan
  /\ pending' = Tail(pending)
  /\ UNCHANGED <<request, phase, sent, closed, outcome, batch, stream, adrift>>

Queue == Flush \/ FlushBroken \/ Deliver

Handler(c) == Begin(c) \/ Submit(c) \/ AllSent(c) \/ Receive(c) \/ Return(c)

Next == Queue \/ RunLate \/ \E c \in Call : Handler(c)

Spec == Init /\ [][Next]_vars

\* The goroutines keep running.  A handler blocked on UpRequests is served in turn,
\* as Go's channels queue their senders; its other steps are not disabled by others.
\* Nothing makes Redis run what is adrift.
Fairness ==
  /\ WF_vars(Queue)
  /\ \A c \in Call : SF_vars(Handler(c))

FairSpec == Spec /\ Fairness

-----------------------------------------------------------------------------
\* The results that are in the channel of c or with its handler.
Done(c) == Len(received[c]) + Len(rChan[c])

\* The updates that may be written although nobody waits for it any more.
Adrift == UNION {{s[k] : k \in DOMAIN s} : s \in adrift}

Store == INSTANCE UpdateStore
           WITH MayLose <- "pipeline" \in Fault,
                given <- sent, answered <- [c \in Call |-> Done(c)],
                astray <- Adrift, written <- stream

Delivered(c) == {received[c][n] : n \in DOMAIN received[c]}

\* Every call is answered: the goroutine that delivers results never waits for
\* a handler that waits for the goroutine.
EveryCallReturns == <>(Crashed \/ \A c \in Call : phase[c] = "returned")

\* Nobody waits for somebody who waits for him.  The goroutine that delivers results
\* finds room for each, or a handler that waits for it or has nothing left to send
\* first.  A handler that waits has a result in its channel, or one that the
\* goroutine still has to deliver.
NobodyWaitsInVain ==
  /\ pending # << >> =>
       LET c == Head(pending).update.call
       IN  \/ Len(rChan[c]) < RoomFor(c)
           \/ /\ RoomFor(c) = 0
              /\ phase[c] \in {"submit", "await"} /\ sent[c] = Len(Updates(c))
  /\ \A c \in Call :
       phase[c] = "await" /\ ~ HasAllResults(c) =>
         \/ rChan[c] # << >>
         \/ \E n \in DOMAIN batch : batch[n].call = c
         \/ \E n \in DOMAIN pending : pending[n].update.call = c

\* No result is ever owed to a closed channel, on which a send panics.
NoSendOnClosed ==
  /\ \A n \in DOMAIN batch : ~ closed[batch[n].call]
  /\ \A n \in DOMAIN pending : ~ closed[pending[n].update.call]

\* A handler's results come back in the order of its updates: it names the
\* ticket of an error by the position of the result.
ResultsInOrder ==
  \A c \in Call : \A n \in DOMAIN received[c] :
    received[c][n].update = [call |-> c, n |-> n]

\* No update is written twice: the batch is emptied before it is filled again,
\* and there is no retry.
WrittenAtMostOnce ==
  \A m, n \in DOMAIN stream : m # n => stream[m] # stream[n]

\* Whatever the batches and the faults, a call's updates are written once or never,
\* and in its order before they are answered, but for those whose replies were lost
\* in a broken pipeline: these may be written at any later time.  What InvokeMmf and
\* the handlers count on.
ImplementsUpdateStore == Store!Spec

\* In a clean batch, a result without error carries the id under which its own
\* update was written; and an invalid update is never reported as written.  In any
\* batch, an id that is reported is that of an entry of the stream, and it is
\* reported for one update only: lost and shifted replies make no ids up.
CleanResultsTrue ==
  /\ \A c \in Call : \A r \in Delivered(c) :
       /\ r.clean /\ ~ r.err => r.id \in DOMAIN stream /\ stream[r.id] = r.update
       /\ ~ ValidUpdate(r.update) => r.err
       /\ r.id # 0 => r.id \in DOMAIN stream
  /\ \A c, d \in Call : \A r \in Delivered(c), q \in Delivered(d) :
       r.id = q.id /\ r.id # 0 => r.update = q.update

\* A client of CreateTicket, ActivateTickets or DeactivateTickets that is told ok
\* got a result without error for every update of its request, whatever batches
\* they were in.  A handler dies only of a failed update of a request whose ids are
\* all well formed: neither ids that others got wrong nor lost replies kill it.
FailuresReported ==
  \A c \in Call :
    /\ outcome[c] = "ok" /\ request[c].rpc \in {"CreateTicket", "SetState"} =>
         /\ Len(received[c]) = Len(Updates(c))
         /\ \A r \in Delivered(c) : ~ r.err
    /\ outcome[c] = "panic" =>
         /\ request[c].rpc = "SetState" /\ IsGood(c) = DOMAIN Ids(c)
         /\ Fault \cap {"xadd", "xtrim"} # {}

\* StateResponse: "If err is nil, result contains the replication id assigned
\* to the update by the state storage implementation".  An invalid update in
\* the batch shifts the replies.
ResultIsOwnId ==
  \A c \in Call : \A r \in Delivered(c) :
    ~ r.err => r.id \in DOMAIN stream /\ stream[r.id] = r.update

\* An update acknowledged without error was written.  A pipeline without replies
\* leaves every response without error.
AcknowledgedIsWritten ==
  \A c \in Call : \A r \in Delivered(c) :
    ~ r.err => \E k \in DOMAIN stream : stream[k] = r.update

\* ActivateTickets reports which updates failed in its status details, rather
\* than dying of it.
NoHandlerPanics == ~ Crashed

=============================================================================
