------------------------------ MODULE InvokeMmf -----------------------------
(***************************************************************************)
(* One InvokeMatchmakingFunctions call, from the moment its pools are      *)
(* filled: every goroutine it starts and every channel, wait group and     *)
(* context they share.                                                     *)
(*                                                                         *)
(* The handler starts the fan-in goroutine, which streams matches to the   *)
(* caller, and a fan-out goroutine per MMF, which receives the MMF's       *)
(* matches and starts a deactivation goroutine for each.  That one         *)
(* deactivates the match's tickets and puts the match on matchChan.  When  *)
(* all fan-out goroutines are done the handler closes matchChan and waits  *)
(* for the fan-in goroutine.                                               *)
(***************************************************************************)
EXTENDS Integers, Sequences

CONSTANTS
  Mmf,         \* the MMFs of the request
  Match,       \* the matches they may return
  Ticket,      \* the tickets the matches name
  MatchesOf,   \* MatchesOf[m]: what MMF m may return
  TicketsOf,   \* TicketsOf[x]: the ticket ids in the rosters of match x
  Contested    \* the tickets that others deactivate too while the call runs

ASSUME InvokeAssumption ==
  /\ Mmf # {}
  /\ MatchesOf \in [Mmf -> SUBSET Match]
  /\ \A m, n \in Mmf : m # n => MatchesOf[m] \cap MatchesOf[n] = {}
  /\ TicketsOf \in [Match -> Seq(Ticket)]
  /\ "none" \notin Match
  /\ Contested \subseteq Ticket

VARIABLES
  wait,      \* OM_MATCH_TICKET_DEACTIVATION_WAIT
  handler,   \* the handler: before close(matchChan), before its return, after
  fanIn,     \* the fan-in goroutine
  sending,   \* the match it has received and not streamed
  mmf,       \* mmf[m]: the fan-out goroutine of m
  task,      \* task[x]: the deactivation goroutine of x
  asked,     \* asked[x]: updates updateTicketsActiveState has sent for x
  log,       \* the updates stored and not applied here: <<match, index>>
  inactive,  \* tc.InactiveSet
  expired,   \* the context's timeout has passed
  crashed,   \* a goroutine has panicked and ended the process
  streamed,  \* history: the matches the caller was sent
  late,      \* history: matches the deactivation of which was not waited out
  others     \* history: tickets that something else has deactivated

callVars  == <<handler, fanIn, sending, mmf, expired, crashed, streamed>>
cacheVars == <<log, inactive, others>>
taskVars  == <<task, asked, late>>
vars == <<wait, callVars, cacheVars, taskVars>>

Number(x) == Len(TicketsOf[x])
Last(x)   == TicketsOf[x][Number(x)]

\* ctx.Err() # nil: the timeout, or the handler's deferred cancel.
Cancelled == expired \/ handler = "returned"

TaskEnded(x) == task[x] \in {"none", "ended"}

TypeOK ==
  /\ wait \in BOOLEAN
  /\ handler \in {"waiting", "closed", "returned"}
  /\ fanIn \in {"new", "receiving", "sending", "failed", "done"}
  /\ sending \in Match \cup {"none"}
  /\ mmf \in [Mmf -> {"dialing", "receiving", "waiting", "failed", "done"}]
  /\ task \in [Match -> {"none", "updating", "checking", "ready", "queued",
                         "confirming", "ended"}]
  /\ asked \in [Match -> Nat] /\ \A x \in Match : asked[x] <= Number(x)
  /\ log \in Seq(Match \X Nat)
  /\ inactive \subseteq Ticket /\ others \subseteq Ticket
  /\ expired \in BOOLEAN /\ crashed \in BOOLEAN
  /\ streamed \in Seq(Match)
  /\ late \subseteq Match

Init ==
  /\ wait \in BOOLEAN
  /\ handler = "waiting"
  /\ fanIn = "new"
  /\ sending = "none"
  /\ mmf = [m \in Mmf |-> "dialing"]
  /\ task = [x \in Match |-> "none"]
  /\ asked = [x \in Match |-> 0]
  /\ log = << >>
  /\ inactive = {} /\ others = {}
  /\ expired = FALSE /\ crashed = FALSE
  /\ streamed = << >>
  /\ late = {}

-----------------------------------------------------------------------------
\* The fan-out goroutine of MMF m.

MoveMmf(m, from, to) ==
  /\ mmf[m] = from
  /\ mmf' = [mmf EXCEPT ![m] = to]
  /\ UNCHANGED <<wait, handler, fanIn, sending, expired, crashed, streamed,
                 cacheVars, taskVars>>

\* client.Run succeeded and the chunks are sent; a chunk that cannot be sent is
\* only logged.
Dial(m) == MoveMmf(m, "dialing", "receiving")

\* Any error before that: the MMF's URL, its type, the credentials, the
\* connection.  What the other fan-out goroutines append to opts and ctx, which
\* all share, may cause it too.
DialFails(m) == MoveMmf(m, "dialing", "failed")

\* mmfStream.Recv returned match x: a deactivation goroutine starts.  For a
\* match with no tickets it returns at once.
Receive(m, x) ==
  /\ mmf[m] = "receiving"
  /\ x \in MatchesOf[m]
  /\ task[x] = "none"
  /\ task' = [task EXCEPT ![x] = IF Number(x) = 0 THEN "ended" ELSE "updating"]
  /\ UNCHANGED <<wait, callVars, cacheVars, asked, late>>

StreamEnds(m) == MoveMmf(m, "receiving", "waiting")

\* The goroutine returns without waiting for the deactivation goroutines.
StreamFails(m) == MoveMmf(m, "receiving", "failed")

\* Mutant: tdwg.Wait is left out.
EndMmfAtOnce(m) == MoveMmf(m, "waiting", "done")

\* tdwg.Wait.
EndMmf(m) ==
  /\ \A x \in MatchesOf[m] : TaskEnded(x)
  /\ MoveMmf(m, "waiting", "done")

-----------------------------------------------------------------------------
\* The deactivation goroutine of match x.

MoveTask(x, from, to) ==
  /\ task[x] = from
  /\ task' = [task EXCEPT ![x] = to]

\* updateTicketsActiveState: the next ticket's update is stored by the time it is
\* answered.  Or it is not: Redis has refused it, and the error is logged, or the
\* reply was lost, and Redis may run the command later (see Deactivate).  The last
\* result lets the goroutine go on.
Ask(x, stored) ==
  /\ task[x] = "updating"
  /\ asked' = [asked EXCEPT ![x] = @ + 1]
  /\ log' = IF stored THEN Append(log, <<x, asked[x] + 1>>) ELSE log
  /\ task' = [task EXCEPT ![x] =
       IF asked[x] + 1 < Number(x) THEN @ ELSE IF wait THEN "checking" ELSE "ready"]
  /\ UNCHANGED <<wait, callVars, inactive, others, late>>

\* What follows deactivationCheck: the match is returned, or it was already.
AfterCheck(x) ==
  \/ MoveTask(x, "checking", "ready")
  \/ MoveTask(x, "confirming", "ended")

\* Mutant: the check looks at the match's first ticket.
CheckFirst(x) ==
  /\ AfterCheck(x)
  /\ TicketsOf[x][1] \in inactive
  /\ UNCHANGED <<wait, callVars, cacheVars, asked, late>>

\* deactivationCheck finds the match's last ticket on the inactive list.
Check(x) ==
  /\ AfterCheck(x)
  /\ Last(x) \in inactive
  /\ UNCHANGED <<wait, callVars, cacheVars, asked, late>>

\* Mutant: the check has no time limit.
CheckWithoutLimit(x) == FALSE /\ UNCHANGED vars

\* Sixty seconds have passed.
CheckTimeout(x) ==
  /\ AfterCheck(x)
  /\ late' = late \cup {x}
  /\ UNCHANGED <<wait, callVars, cacheVars, asked>>

\* ctx.Err() is read: the match is dropped, or the goroutine sends it, which
\* panics if the channel is closed.
CheckContext(x) ==
  /\ MoveTask(x, "ready", IF Cancelled THEN "ended" ELSE "queued")
  /\ crashed' = (~ Cancelled /\ handler # "waiting")
  /\ UNCHANGED <<wait, handler, fanIn, sending, mmf, expired, streamed, cacheVars,
                 asked, late>>

-----------------------------------------------------------------------------
\* The fan-in goroutine.

\* fanwg.Add(1) is its first statement.
StartFanIn ==
  /\ fanIn = "new"
  /\ fanIn' = "receiving"
  /\ UNCHANGED <<wait, handler, sending, mmf, expired, crashed, streamed, cacheVars,
                 taskVars>>

\* matchChan has no buffer: x passes from its goroutine to this one.
Take(x) ==
  /\ fanIn = "receiving"
  /\ MoveTask(x, "queued", IF wait THEN "ended" ELSE "confirming")
  /\ fanIn' = "sending"
  /\ sending' = x
  /\ UNCHANGED <<wait, handler, mmf, expired, crashed, streamed, cacheVars, asked,
                 late>>

SendMatch ==
  /\ fanIn = "sending"
  /\ fanIn' = "receiving"
  /\ sending' = "none"
  /\ streamed' = Append(streamed, sending)
  /\ UNCHANGED <<wait, handler, mmf, expired, crashed, cacheVars, taskVars>>

\* stream.Send returned an error: the goroutine returns without fanwg.Done.
SendFails ==
  /\ fanIn = "sending"
  /\ fanIn' = "failed"
  /\ sending' = "none"
  /\ UNCHANGED <<wait, handler, mmf, expired, crashed, streamed, cacheVars, taskVars>>

\* Mutant: the goroutine ends when it finds no match on offer.
EndFanInEarly ==
  /\ fanIn = "receiving"
  /\ \A x \in Match : task[x] # "queued"
  /\ fanIn' = "done"
  /\ UNCHANGED <<wait, handler, sending, mmf, expired, crashed, streamed, cacheVars,
                 taskVars>>

\* The channel is closed and empty: fanwg.Done.
EndFanIn ==
  /\ fanIn = "receiving"
  /\ handler # "waiting"
  /\ fanIn' = "done"
  /\ UNCHANGED <<wait, handler, sending, mmf, expired, crashed, streamed, cacheVars,
                 taskVars>>

-----------------------------------------------------------------------------
\* The handler.

\* mmfwg.Wait and close(matchChan), which makes a goroutine that is sending
\* panic.
Close ==
  /\ handler = "waiting"
  /\ \A m \in Mmf : mmf[m] \in {"failed", "done"}
  /\ handler' = "closed"
  /\ crashed' = \E x \in Match : task[x] = "queued"
  /\ UNCHANGED <<wait, fanIn, sending, mmf, expired, streamed, cacheVars, taskVars>>

\* Mutant: fanwg.Wait is left out.
ReturnAtOnce ==
  /\ handler = "closed"
  /\ handler' = "returned"
  /\ UNCHANGED <<wait, fanIn, sending, mmf, expired, crashed, streamed, cacheVars,
                 taskVars>>

\* fanwg.Wait, which does not wait for a goroutine that has not started.
Return ==
  /\ handler = "closed"
  /\ fanIn \in {"new", "done"}
  /\ handler' = "returned"
  /\ UNCHANGED <<wait, fanIn, sending, mmf, expired, crashed, streamed, cacheVars,
                 taskVars>>

-----------------------------------------------------------------------------
\* Around the call: its timeout, the state storage, replication, and what other
\* calls, clients and instances do to the same tickets.

Timeout ==
  /\ ~ Cancelled
  /\ expired' = TRUE
  /\ UNCHANGED <<wait, handler, fanIn, sending, mmf, crashed, streamed, cacheVars,
                 taskVars>>

\* Updates are applied to the local cache in the order they were stored.
Replicate ==
  /\ log # << >>
  /\ LET u == Head(log) IN inactive' = inactive \cup {TicketsOf[u[1]][u[2]]}
  /\ log' = Tail(log)
  /\ UNCHANGED <<wait, callVars, others, taskVars>>

\* A Deactivate is replicated that is none of the stored updates of this call: of a
\* client's DeactivateTickets, of another InvokeMatchmakingFunctions call, of this
\* instance or another, or an update of this call that Redis ran after its answer; or
\* the creation of a ticket this instance did not know.
Deactivate(t) ==
  /\ t \in Contested
  /\ inactive' = inactive \cup {t}
  /\ others' = others \cup {t}
  /\ UNCHANGED <<wait, callVars, log, taskVars>>

\* A client's ActivateTickets call is replicated, or the ticket expires.
Reactivate(t) ==
  /\ t \in inactive
  /\ inactive' = inactive \ {t}
  /\ UNCHANGED <<wait, callVars, log, others, taskVars>>

FanOutStep(m) ==
  \/ Dial(m) \/ DialFails(m)
  \/ \E x \in Match : Receive(m, x)
  \/ StreamEnds(m) \/ StreamFails(m) \/ EndMmf(m)

TaskStep(x) ==
  \/ \E stored \in BOOLEAN : Ask(x, stored)
  \/ Check(x) \/ CheckTimeout(x) \/ CheckContext(x)

FanInStep ==
  \/ StartFanIn \/ \E x \in Match : Take(x)
  \/ SendMatch \/ SendFails \/ EndFanIn

HandlerStep == Close \/ Return

Around ==
  Timeout \/ Replicate \/ \E t \in Ticket : Deactivate(t) \/ Reactivate(t)

Next ==
  /\ ~ crashed
  /\ \/ \E m \in Mmf : FanOutStep(m)
     \/ \E x \in Match : TaskStep(x)
     \/ FanInStep
     \/ HandlerStep
     \/ Around

Spec == Init /\ [][Next]_vars

\* Every goroutine runs; the timers fire; once the context is cancelled Run and
\* Recv fail, whatever the MMF does; the state storage answers every update (see
\* EveryCallReturns of OutgoingReplication).  Nothing makes an MMF or a client act.
Fairness ==
  /\ \A m \in Mmf :
       /\ WF_vars(~ crashed /\ Cancelled /\ (DialFails(m) \/ StreamFails(m)))
       /\ WF_vars(~ crashed /\ EndMmf(m))
  /\ \A x \in Match : WF_vars(~ crashed /\ TaskStep(x))
  /\ WF_vars(~ crashed /\ FanInStep)
  /\ WF_vars(~ crashed /\ HandlerStep)
  /\ WF_vars(~ crashed /\ Timeout)

FairSpec == Spec /\ Fairness

-----------------------------------------------------------------------------
Received(x) == task[x] # "none"

Streamed(x) == \E n \in DOMAIN streamed : streamed[n] = x

\* Nothing went wrong that the call could notice.
Clean == ~ expired /\ fanIn # "failed" /\ \A m \in Mmf : mmf[m] # "failed"

\* A call that returns has streamed every match received from its MMFs that has
\* tickets, unless an MMF, the caller's stream or the time limit failed it: the
\* wait groups cover every goroutine that holds a match.
CleanReturnDelivers ==
  handler = "returned" /\ Clean =>
    \A x \in Match : Received(x) /\ Number(x) > 0 => Streamed(x)

\* Nothing is sent on the caller's stream once the handler has returned, which
\* gRPC forbids.
NothingAfterReturn == [][handler = "returned" => streamed' = streamed]_vars

\* No goroutine sends on matchChan after close, unless an MMF has failed.
PanicsOnlyAfterFailure == crashed => \E m \in Mmf : mmf[m] = "failed"

\* A goroutine that offers a match on the unbuffered matchChan is never left alone
\* with it: the fan-in goroutine is there or will be, and the handler holds close
\* back, unless the caller's stream failed or the process has panicked.
OffersAreTaken ==
  ~ crashed /\ fanIn # "failed" =>
    \A x \in Match : task[x] = "queued" => handler = "waiting" /\ fanIn # "done"

\* The check looks for the last ticket of x alone.  Finding it tells of the last
\* update of x only if no other match received has that ticket, nor an earlier
\* place in x, and nothing else has deactivated it.
LastTells(x) ==
  /\ Last(x) \notin others
  /\ \A n \in 1 .. Number(x) - 1 : TicketsOf[x][n] # Last(x)
  /\ \A y \in Match \ {x} : Received(y) =>
       \A n \in 1 .. Number(y) : TicketsOf[y][n] # Last(x)

\* Before a match leaves, the deactivation of each of its tickets has been asked
\* for, with either setting.  When the call waits, those stored by the time they
\* were answered have been applied to the local cache too, if the last ticket
\* tells and the check did not run out of time.
DeactivatedFirst ==
  \A x \in Match : Streamed(x) \/ sending = x =>
    /\ asked[x] = Number(x)
    /\ wait /\ LastTells(x) /\ x \notin late =>
         \A n \in DOMAIN log : log[n][1] # x

\* A call comes to its end, and so does every goroutine it started, unless the
\* caller's stream failed or the process has panicked.
CallEnds ==
  <>(\/ crashed
     \/ fanIn = "failed"
     \/ handler = "returned" /\ \A x \in Match : TaskEnded(x))

\* What the comments say at the wait groups: when matchChan is closed, the
\* deactivation goroutines are done sending.
NoSendOnClosed == ~ crashed

\* What the comment at stream.Send says: when the caller's stream fails, the rest
\* of the matches are dropped - and the call ends.
HandlerReturns == <>(crashed \/ handler = "returned")

\* What the FAQ says of a call that waits: it confirms that all tickets of a match
\* are marked inactive in the local cache before it returns the match.
WaitConfirmsAll ==
  [][\A x \in Match : wait /\ Check(x) =>
       \A k \in 1 .. Number(x) : TicketsOf[x][k] \in inactive]_vars

\* What the FAQ suggests to an MMF that wants its tickets left active: return the
\* match with its players in the extensions and no tickets in the rosters.
MatchWithoutTicketsArrives ==
  handler = "returned" /\ Clean => \A x \in Match : Received(x) => Streamed(x)

=============================================================================
