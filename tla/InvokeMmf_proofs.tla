-------------------------- MODULE InvokeMmf_proofs --------------------------
(***************************************************************************)
(* InvokeMmf's safety properties hold for any MMFs, matches and tickets.   *)
(*                                                                         *)
(* The wait groups give the argument its shape: an MMF that is done has no *)
(* goroutine left (tdwg), at close every MMF has failed or is done         *)
(* (mmfwg), and when the handler returns the fan-in goroutine is not       *)
(* sending (fanwg).  That a match is deactivated before it leaves rests on *)
(* the order of the updates: what the last ticket of a match shows is true *)
(* of all the updates before it.                                           *)
(***************************************************************************)
EXTENDS InvokeMmf, SequenceTheorems, TLAPS

-----------------------------------------------------------------------------
\* The inductive invariant.

\* tdwg and mmfwg: which goroutines may still run.
GroupsOK ==
  /\ \A x \in Match : Received(x) =>
       \E m \in Mmf : x \in MatchesOf[m] /\ mmf[m] # "dialing"
  /\ \A m \in Mmf : mmf[m] = "done" => \A x \in MatchesOf[m] : TaskEnded(x)
  /\ handler # "waiting" => \A m \in Mmf : mmf[m] \in {"failed", "done"}
  /\ handler # "waiting" /\ ~ crashed => \A x \in Match : task[x] # "queued"

\* fanwg: the fan-in goroutine holds a match exactly while it sends it, and does
\* not while the handler has returned.
FanInOK ==
  /\ fanIn = "sending" <=> sending \in Match
  /\ handler = "returned" => fanIn \in {"new", "receiving", "done"}

\* The updates of a match are asked for while its goroutine is updating.
AskedOK ==
  \A x \in Match :
    /\ task[x] = "none" => asked[x] = 0
    /\ task[x] = "updating" => asked[x] < Number(x)
    /\ task[x] \notin {"none", "updating"} => asked[x] = Number(x)
    /\ Number(x) = 0 => TaskEnded(x)

\* A match is on its way, or was streamed, once its goroutine has passed it on.
PassedOn(x) == Streamed(x) \/ sending = x

MatchesOK ==
  \A x \in Match :
    /\ PassedOn(x) => task[x] \in {"confirming", "ended"} /\ Number(x) > 0
    /\ task[x] \in {"confirming", "ended"} /\ Number(x) > 0 /\ Clean => PassedOn(x)

\* Updates wait in the order they were asked for.
LogOK ==
  /\ \A n \in DOMAIN log : log[n][2] \in 1 .. asked[log[n][1]]
  /\ \A m, n \in DOMAIN log :
       m < n /\ log[m][1] = log[n][1] => log[m][2] < log[n][2]

\* Each ticket on the inactive list was put there by something else, or by update k
\* of some match y, and no update of y up to k is waiting.
AppliedUpTo(y, k) == \A n \in DOMAIN log : log[n][1] = y => k < log[n][2]

InactiveOK ==
  \A t \in inactive \ others : \E y \in Match : \E k \in 1 .. asked[y] :
    TicketsOf[y][k] = t /\ AppliedUpTo(y, k)

\* A match past its check has no update waiting.
CheckedOK ==
  wait => \A x \in Match :
    /\ task[x] # "confirming"
    /\ /\ task[x] \in {"ready", "queued", "ended"} /\ Number(x) > 0
       /\ LastTells(x) /\ x \notin late
       => AppliedUpTo(x, Number(x))

IInv ==
  /\ TypeOK
  /\ GroupsOK
  /\ PanicsOnlyAfterFailure
  /\ FanInOK
  /\ AskedOK
  /\ MatchesOK
  /\ LogOK
  /\ InactiveOK
  /\ CheckedOK

-----------------------------------------------------------------------------
\* Facts about the updates of a match and the log.

LEMMA NumberFacts ==
  ASSUME NEW x \in Match
  PROVE  /\ Number(x) \in Nat
         /\ \A k \in 1 .. Number(x) : TicketsOf[x][k] \in Ticket
  BY InvokeAssumption DEF Number

\* The next update to apply.
LEMMA HeadOfLog ==
  ASSUME TypeOK, LogOK, log # << >>
  PROVE  /\ Head(log) = log[1] /\ 1 \in DOMAIN log
         /\ Head(log)[1] \in Match
         /\ Head(log)[2] \in 1 .. asked[Head(log)[1]]
         /\ Head(log)[2] \in 1 .. Number(Head(log)[1])
         /\ Tail(log) \in Seq(Match \X Nat)
         /\ \A n \in DOMAIN Tail(log) :
              /\ n \in Nat /\ n + 1 \in Nat /\ 1 < n + 1
              /\ n + 1 \in DOMAIN log /\ Tail(log)[n] = log[n + 1]
<1>1. /\ log \in Seq(Match \X Nat) /\ Len(log) \in Nat /\ DOMAIN log = 1 .. Len(log)
      /\ log # << >>
  BY DEF TypeOK
<1>2. /\ Head(log) = log[1] /\ Head(log) \in Match \X Nat
      /\ Tail(log) \in Seq(Match \X Nat) /\ Len(log) > 0
      /\ Len(Tail(log)) = Len(log) - 1
      /\ \A n \in 1 .. Len(Tail(log)) : Tail(log)[n] = log[n + 1]
  BY <1>1, HeadTailProperties, EmptySeq
<1>3. 1 \in DOMAIN log /\ DOMAIN Tail(log) = 1 .. Len(log) - 1
  BY <1>1, <1>2
<1>4. Head(log)[1] \in Match /\ Head(log)[2] \in 1 .. asked[Head(log)[1]]
  BY <1>2, <1>3 DEF LogOK
<1>5. /\ asked[Head(log)[1]] \in Nat /\ Number(Head(log)[1]) \in Nat
      /\ asked[Head(log)[1]] <= Number(Head(log)[1])
  BY <1>4, NumberFacts DEF TypeOK
<1>6. QED
  BY <1>1, <1>2, <1>3, <1>4, <1>5

LEMMA AppendedLog ==
  ASSUME TypeOK, NEW u \in Match \X Nat
  PROVE  /\ Append(log, u) \in Seq(Match \X Nat)
         /\ DOMAIN Append(log, u) = 1 .. Len(log) + 1
         /\ DOMAIN log = 1 .. Len(log) /\ Len(log) \in Nat
         /\ \A n \in 1 .. Len(log) : Append(log, u)[n] = log[n]
         /\ Append(log, u)[Len(log) + 1] = u
<1>1. log \in Seq(Match \X Nat) /\ Len(log) \in Nat /\ DOMAIN log = 1 .. Len(log)
  BY DEF TypeOK
<1>2. QED
  BY <1>1, AppendProperties

-----------------------------------------------------------------------------
\* Type correctness.

LEMMA TypeInit == Init => TypeOK
<1> SUFFICES ASSUME Init PROVE TypeOK
  OBVIOUS
<1>1. \A x \in Match : asked[x] <= Number(x)
  BY NumberFacts DEF Init
<1>2. log \in Seq(Match \X Nat) /\ streamed \in Seq(Match)
  BY EmptySeq DEF Init
<1>3. QED
  BY <1>1, <1>2 DEF Init, TypeOK

LEMMA TypeStep == TypeOK /\ AskedOK /\ LogOK /\ FanInOK /\ [Next]_vars => TypeOK'
<1> SUFFICES ASSUME TypeOK, AskedOK, LogOK, FanInOK, [Next]_vars PROVE TypeOK'
  OBVIOUS
<1> USE DEF TypeOK, callVars, cacheVars, taskVars, Number
<1>1. ASSUME NEW m \in Mmf, FanOutStep(m) PROVE TypeOK'
  BY <1>1 DEF FanOutStep, Dial, DialFails, Receive, StreamEnds, StreamFails, EndMmf,
              MoveMmf
<1>2. ASSUME NEW x \in Match, NEW stored \in BOOLEAN, Ask(x, stored) PROVE TypeOK'
  <2>1. asked[x] \in Nat /\ asked[x] + 1 <= Number(x) /\ Number(x) \in Nat
    BY <1>2, NumberFacts DEF Ask, AskedOK
  <2>2. log' \in Seq(Match \X Nat)
    <3>1. <<x, asked[x] + 1>> \in Match \X Nat
      BY <2>1
    <3>2. Append(log, <<x, asked[x] + 1>>) \in Seq(Match \X Nat)
      BY <3>1, AppendedLog
    <3>3. QED
      BY <1>2, <3>2 DEF Ask
  <2>3. asked' \in [Match -> Nat] /\ \A y \in Match : asked'[y] <= Number(y)
    BY <1>2, <2>1 DEF Ask
  <2>4. task' \in [Match -> {"none", "updating", "checking", "ready", "queued",
                             "confirming", "ended"}]
    BY <1>2 DEF Ask
  <2>5. QED
    BY <1>2, <2>2, <2>3, <2>4 DEF Ask
<1>3. ASSUME NEW x \in Match, Check(x) \/ CheckTimeout(x) \/ CheckContext(x)
      PROVE  TypeOK'
  BY <1>3 DEF Check, CheckTimeout, CheckContext, AfterCheck, MoveTask
<1>4. CASE FanInStep
  <2>1. CASE SendMatch
    <3>1. sending \in Match /\ streamed \in Seq(Match)
      BY <2>1 DEF SendMatch, FanInOK
    <3>2. Append(streamed, sending) \in Seq(Match)
      BY <3>1, AppendProperties
    <3>3. QED
      BY <2>1, <3>2 DEF SendMatch
  <2>2. CASE ~ SendMatch
    BY <1>4, <2>2 DEF FanInStep, StartFanIn, Take, SendFails, EndFanIn, MoveTask
  <2>3. QED
    BY <2>1, <2>2
<1>5. CASE HandlerStep
  BY <1>5 DEF HandlerStep, Close, Return
<1>6. CASE Timeout \/ \E t \in Ticket : Deactivate(t) \/ Reactivate(t)
  BY <1>6, InvokeAssumption DEF Timeout, Deactivate, Reactivate
<1>7. CASE Replicate
  <2>1. /\ Tail(log) \in Seq(Match \X Nat)
        /\ TicketsOf[Head(log)[1]][Head(log)[2]] \in Ticket
    BY <1>7, HeadOfLog, NumberFacts DEF Replicate
  <2>2. QED
    BY <1>7, <2>1 DEF Replicate
<1>8. CASE UNCHANGED vars
  BY <1>8 DEF vars
<1>9. QED
  BY <1>1, <1>2, <1>3, <1>4, <1>5, <1>6, <1>7, <1>8
     DEF Next, TaskStep, Around

-----------------------------------------------------------------------------
\* The wait groups.

LEMMA GroupsStep ==
  TypeOK /\ GroupsOK /\ [Next]_vars => GroupsOK'
<1> SUFFICES ASSUME TypeOK, GroupsOK, [Next]_vars PROVE GroupsOK'
  OBVIOUS
<1> USE DEF TypeOK, GroupsOK, Received, TaskEnded, callVars, cacheVars, taskVars
<1>1. ASSUME NEW m \in Mmf, FanOutStep(m) PROVE GroupsOK'
  <2>1. CASE \E to \in {"receiving", "failed"} : MoveMmf(m, "dialing", to)
    BY <2>1 DEF MoveMmf
  <2>2. ASSUME NEW x \in Match, Receive(m, x) PROVE GroupsOK'
    <3>1. \A n \in Mmf : mmf[n] = "done" => x \notin MatchesOf[n]
      BY <2>2, InvokeAssumption DEF Receive
    <3>2. handler = "waiting"
      BY <2>2 DEF Receive
    <3>3. QED
      BY <2>2, <3>1, <3>2 DEF Receive
  <2>3. CASE \E to \in {"waiting", "failed"} : MoveMmf(m, "receiving", to)
    BY <2>3 DEF MoveMmf
  <2>4. CASE EndMmf(m)
    BY <2>4 DEF EndMmf, MoveMmf
  <2>5. QED
    BY <1>1, <2>1, <2>2, <2>3, <2>4
       DEF FanOutStep, Dial, DialFails, StreamEnds, StreamFails
<1>2. ASSUME NEW x \in Match, ~ crashed,
             \/ \E stored \in BOOLEAN : Ask(x, stored)
             \/ Check(x) \/ CheckTimeout(x)
             \/ CheckContext(x)
             \/ Take(x)
      PROVE  GroupsOK'
  <2>1. /\ task[x] \notin {"none", "ended"}
        /\ \A y \in Match \ {x} : task'[y] = task[y]
        /\ task'[x] # "none"
        /\ UNCHANGED <<mmf, handler>>
    BY <1>2 DEF Ask, Check, CheckTimeout, CheckContext, Take, AfterCheck, MoveTask
  <2>2. handler # "waiting" /\ ~ crashed' => task'[x] # "queued"
    BY <1>2 DEF Ask, Check, CheckTimeout, CheckContext, Take, AfterCheck, MoveTask
  <2>3. \A m \in Mmf : mmf[m] = "done" => x \notin MatchesOf[m]
    BY <2>1
  <2>4. (\A y \in Match : Received(y) =>
           \E m \in Mmf : y \in MatchesOf[m] /\ mmf[m] # "dialing")'
    <3>1. \A y \in Match : task'[y] # "none" => task[y] # "none"
      BY <2>1
    <3>2. QED
      BY <2>1, <3>1
  <2>5. (\A m \in Mmf : mmf[m] = "done" => \A y \in MatchesOf[m] : TaskEnded(y))'
    <3>1. \A m \in Mmf : \A y \in MatchesOf[m] : y \in Match
      BY InvokeAssumption
    <3>2. QED
      BY <2>1, <2>3, <3>1
  <2>6. handler' # "waiting" /\ ~ crashed' => \A y \in Match : task'[y] # "queued"
    BY <1>2, <2>1, <2>2
  <2>7. QED
    BY <2>1, <2>4, <2>5, <2>6
<1>3. CASE StartFanIn \/ SendMatch \/ SendFails \/ EndFanIn
  BY <1>3 DEF StartFanIn, SendMatch, SendFails, EndFanIn
<1>4. CASE HandlerStep
  BY <1>4 DEF HandlerStep, Close, Return
<1>5. CASE Around
  BY <1>5 DEF Around, Timeout, Replicate, Deactivate, Reactivate
<1>6. CASE UNCHANGED vars
  BY <1>6 DEF vars
<1>7. QED
  BY <1>1, <1>2, <1>3, <1>4, <1>5, <1>6 DEF Next, TaskStep, FanInStep

LEMMA PanicStep ==
  TypeOK /\ GroupsOK /\ PanicsOnlyAfterFailure /\ [Next]_vars
  => PanicsOnlyAfterFailure'
<1> SUFFICES ASSUME TypeOK, GroupsOK, PanicsOnlyAfterFailure, [Next]_vars, crashed'
             PROVE  \E m \in Mmf : mmf'[m] = "failed"
  BY DEF PanicsOnlyAfterFailure
<1>1. CASE crashed
  <2>1. UNCHANGED vars
    BY <1>1 DEF Next
  <2>2. QED
    BY <1>1, <2>1 DEF vars, callVars, PanicsOnlyAfterFailure
<1>2. ASSUME ~ crashed
      PROVE  \E x \in Match :
               /\ task[x] \in {"ready", "queued"} /\ mmf' = mmf
               /\ handler # "waiting" \/ \A m \in Mmf : mmf[m] \in {"failed", "done"}
  <2>1. CASE Close
    BY <2>1 DEF Close
  <2>2. ASSUME NEW x \in Match, CheckContext(x)
        PROVE  task[x] = "ready" /\ mmf' = mmf /\ handler # "waiting"
    BY <2>2 DEF CheckContext, MoveTask
  <2>3. CASE crashed' = crashed
    BY <1>2, <2>3
  <2>4. QED
    BY <2>1, <2>2, <2>3
       DEF Next, FanOutStep, Dial, DialFails, Receive, StreamEnds, StreamFails, EndMmf,
           MoveMmf, TaskStep, Ask, Check, CheckTimeout, FanInStep, StartFanIn, Take,
           SendMatch, SendFails, EndFanIn, HandlerStep, Return, Around, Timeout,
           Replicate, Deactivate, Reactivate, vars, callVars
<1>3. QED
  BY <1>1, <1>2 DEF GroupsOK, Received, TaskEnded

LEMMA FanInKept ==
  TypeOK /\ GroupsOK /\ FanInOK /\ [Next]_vars => FanInOK'
<1> SUFFICES ASSUME TypeOK, GroupsOK, FanInOK, [Next]_vars PROVE FanInOK'
  OBVIOUS
<1> USE InvokeAssumption DEF TypeOK, FanInOK
<1>1. ASSUME NEW x \in Match, Take(x), ~ crashed PROVE FanInOK'
  <2>1. handler # "returned"
    BY <1>1 DEF Take, MoveTask, GroupsOK
  <2>2. QED
    BY <1>1, <2>1 DEF Take
<1>2. CASE StartFanIn \/ SendMatch \/ SendFails \/ EndFanIn
  BY <1>2 DEF StartFanIn, SendMatch, SendFails, EndFanIn
<1>3. CASE HandlerStep
  BY <1>3 DEF HandlerStep, Close, Return
<1>4. CASE UNCHANGED <<handler, fanIn, sending>>
  BY <1>4
<1>5. QED
  BY <1>1, <1>2, <1>3, <1>4
     DEF Next, FanOutStep, Dial, DialFails, Receive, StreamEnds, StreamFails, EndMmf,
         MoveMmf, TaskStep, Ask, Check, CheckTimeout, CheckContext, FanInStep, Around,
         Timeout, Replicate, Deactivate, Reactivate, vars, callVars

-----------------------------------------------------------------------------
\* What a step does to a goroutine, to the histories and to the log.

\* The steps that move no deactivation goroutine.
LEMMA TaskMoves ==
  ASSUME TypeOK, [Next]_vars
  PROVE  \/ UNCHANGED <<task, asked, late>>
         \/ \E x \in Match : /\ \/ \E m \in Mmf : Receive(m, x)
                                \/ \E stored \in BOOLEAN : Ask(x, stored)
                                \/ Check(x) \/ CheckTimeout(x)
                                \/ CheckContext(x)
                                \/ Take(x)
                             /\ \A y \in Match \ {x} : /\ task'[y] = task[y]
                                                       /\ asked'[y] = asked[y]
                                                       /\ y \in late' <=> y \in late
<1>1. CASE \E x \in Match : \/ \E m \in Mmf : Receive(m, x)
                            \/ \E stored \in BOOLEAN : Ask(x, stored)
                            \/ Check(x) \/ CheckTimeout(x) \/ CheckContext(x) \/ Take(x)
  BY <1>1 DEF TypeOK, Receive, Ask, Check, CheckTimeout, CheckContext, Take, AfterCheck,
              MoveTask
<1>2. CASE UNCHANGED <<task, asked, late>>
  BY <1>2
<1>3. QED
  BY <1>1, <1>2
     DEF Next, FanOutStep, Dial, DialFails, StreamEnds, StreamFails, EndMmf, MoveMmf,
         TaskStep, FanInStep, StartFanIn, SendMatch, SendFails, EndFanIn, HandlerStep,
         Close, Return, Around, Timeout, Replicate, Deactivate, Reactivate, vars, taskVars

\* Once something has gone wrong the call stays so.
LEMMA CleanBefore ==
  ASSUME TypeOK, [Next]_vars, Clean'
  PROVE  Clean
<1>1. expired => expired'
  BY DEF Next, FanOutStep, Dial, DialFails, Receive, StreamEnds, StreamFails, EndMmf,
         MoveMmf, TaskStep, Ask, Check, CheckTimeout, CheckContext, FanInStep,
         StartFanIn, Take, SendMatch, SendFails, EndFanIn, HandlerStep, Close, Return,
         Around, Timeout, Replicate, Deactivate, Reactivate, vars, callVars
<1>2. fanIn = "failed" => fanIn' = "failed"
  BY DEF Next, FanOutStep, Dial, DialFails, Receive, StreamEnds, StreamFails, EndMmf,
         MoveMmf, TaskStep, Ask, Check, CheckTimeout, CheckContext, FanInStep,
         StartFanIn, Take, SendMatch, SendFails, EndFanIn, HandlerStep, Close, Return,
         Around, Timeout, Replicate, Deactivate, Reactivate, vars, callVars
<1>3. \A m \in Mmf : mmf[m] = "failed" => mmf'[m] = "failed"
  BY DEF Next, FanOutStep, Dial, DialFails, Receive, StreamEnds, StreamFails, EndMmf,
         MoveMmf, TaskStep, Ask, Check, CheckTimeout, CheckContext, FanInStep,
         StartFanIn, Take, SendMatch, SendFails, EndFanIn, HandlerStep, Close, Return,
         Around, Timeout, Replicate, Deactivate, Reactivate, vars, callVars, TypeOK
<1>4. QED
  BY <1>1, <1>2, <1>3 DEF Clean, TypeOK

\* A match is passed on by Take, and stays so unless the caller's stream fails.
LEMMA PassedOnMoves ==
  ASSUME TypeOK, FanInOK, [Next]_vars, NEW x \in Match
  PROVE  \/ Take(x) /\ PassedOn(x)'
         \/ (PassedOn(x)' <=> PassedOn(x))
         \/ PassedOn(x) /\ ~ Clean'
<1> USE DEF PassedOn, Streamed
<1>1. CASE SendMatch
  <2>1. sending \in Match /\ streamed \in Seq(Match) /\ Len(streamed) \in Nat
    BY <1>1 DEF SendMatch, FanInOK, TypeOK
  <2>2. /\ DOMAIN streamed = 1 .. Len(streamed)
        /\ DOMAIN streamed' = 1 .. Len(streamed) + 1
        /\ \A n \in 1 .. Len(streamed) : streamed'[n] = streamed[n]
        /\ streamed'[Len(streamed) + 1] = sending
    BY <1>1, <2>1, AppendProperties DEF SendMatch
  <2>3. Streamed(x)' <=> Streamed(x) \/ x = sending
    BY <2>1, <2>2
  <2>4. sending' # x
    BY <1>1, InvokeAssumption DEF SendMatch
  <2>5. QED
    BY <2>3, <2>4
<1>2. CASE SendFails
  <2>1. fanIn' = "failed" /\ streamed' = streamed /\ sending' # x
    BY <1>2, InvokeAssumption DEF SendFails
  <2>2. ~ Clean'
    BY <2>1 DEF Clean
  <2>3. PassedOn(x)' => PassedOn(x)
    BY <2>1
  <2>4. QED
    BY <2>2, <2>3
<1>3. ASSUME NEW y \in Match, Take(y)
      PROVE  \/ Take(x) /\ PassedOn(x)'
             \/ (PassedOn(x)' <=> PassedOn(x))
  <2>1. sending \notin Match /\ sending' = y /\ streamed' = streamed
    BY <1>3 DEF Take, FanInOK
  <2>2. QED
    BY <1>3, <2>1
<1>4. CASE UNCHANGED <<sending, streamed>>
  BY <1>4
<1>5. QED
  BY <1>1, <1>2, <1>3, <1>4
     DEF Next, FanOutStep, Dial, DialFails, Receive, StreamEnds, StreamFails, EndMmf,
         MoveMmf, TaskStep, Ask, Check, CheckTimeout, CheckContext, FanInStep,
         StartFanIn, EndFanIn, HandlerStep, Close, Return, Around, Timeout, Replicate,
         Deactivate, Reactivate, vars, callVars

\* The log grows by an update of Ask, or loses its head.  Only that and Deactivate
\* add to the inactive list.
LEMMA LogMoves ==
  ASSUME TypeOK, [Next]_vars
  PROVE  \/ UNCHANGED <<log, inactive>>
         \/ Replicate
         \/ log' = log /\ inactive' \ others' \subseteq inactive /\ UNCHANGED asked
         \/ \E x \in Match : /\ Ask(x, TRUE) /\ inactive' = inactive
                             /\ log' = Append(log, <<x, asked[x] + 1>>)
                             /\ asked' = [asked EXCEPT ![x] = @ + 1]
<1>1. ASSUME NEW t \in Ticket, Deactivate(t) \/ Reactivate(t)
      PROVE  log' = log /\ inactive' \ others' \subseteq inactive /\ UNCHANGED asked
  BY <1>1 DEF Deactivate, Reactivate, taskVars
<1>2. QED
  BY <1>1
     DEF Next, FanOutStep, Dial, DialFails, Receive, StreamEnds, StreamFails, EndMmf,
         MoveMmf, TaskStep, Ask, Check, CheckTimeout, CheckContext, FanInStep,
         StartFanIn, Take, SendMatch, SendFails, EndFanIn, HandlerStep, Close, Return,
         Around, Timeout, vars, cacheVars

\* What something else has deactivated stays marked so.
LEMMA OthersGrow ==
  ASSUME [Next]_vars
  PROVE  others \subseteq others'
BY DEF Next, FanOutStep, Dial, DialFails, Receive, StreamEnds, StreamFails, EndMmf,
       MoveMmf, TaskStep, Ask, Check, CheckTimeout, CheckContext, FanInStep, StartFanIn,
       Take, SendMatch, SendFails, EndFanIn, HandlerStep, Close, Return, Around, Timeout,
       Replicate, Deactivate, Reactivate, vars, cacheVars

\* asked counts up.
LEMMA AskedGrows ==
  ASSUME TypeOK, [Next]_vars, NEW x \in Match
  PROVE  asked[x] \in Nat /\ asked'[x] \in Nat /\ asked[x] <= asked'[x]
<1>1. asked[x] \in Nat /\ asked \in [Match -> Nat]
  BY DEF TypeOK
<1>2. asked'[x] = asked[x] \/ asked'[x] = asked[x] + 1
  BY <1>1, TaskMoves
     DEF Receive, Ask, Check, CheckTimeout, CheckContext, Take
<1>3. QED
  BY <1>1, <1>2

-----------------------------------------------------------------------------
\* Matches and their updates.

LEMMA AskedStep == TypeOK /\ AskedOK /\ [Next]_vars => AskedOK'
<1> SUFFICES ASSUME TypeOK, AskedOK, [Next]_vars PROVE AskedOK'
  OBVIOUS
<1> USE DEF AskedOK, TaskEnded
<1>1. ASSUME NEW x \in Match,
             \/ \E m \in Mmf : Receive(m, x)
             \/ \E stored \in BOOLEAN : Ask(x, stored)
             \/ Check(x) \/ CheckTimeout(x) \/ CheckContext(x) \/ Take(x),
             \A y \in Match \ {x} : task'[y] = task[y] /\ asked'[y] = asked[y]
      PROVE  AskedOK'
  <2>1. Number(x) \in Nat /\ asked[x] \in Nat
    BY NumberFacts DEF TypeOK
  <2>2. /\ task'[x] = "none" => asked'[x] = 0
        /\ task'[x] = "updating" => asked'[x] < Number(x)
        /\ task'[x] \notin {"none", "updating"} => asked'[x] = Number(x)
        /\ Number(x) = 0 => task'[x] \in {"none", "ended"}
    BY <1>1, <2>1
       DEF Receive, Ask, Check, CheckTimeout, CheckContext, Take, AfterCheck, MoveTask,
           TypeOK
  <2>3. QED
    BY <1>1, <2>2 DEF Number
<1>2. CASE UNCHANGED <<task, asked>>
  BY <1>2 DEF Number
<1>3. QED
  BY <1>1, <1>2, TaskMoves

LEMMA MatchesStep ==
  TypeOK /\ GroupsOK /\ FanInOK /\ AskedOK /\ MatchesOK /\ [Next]_vars => MatchesOK'
<1> SUFFICES ASSUME TypeOK, GroupsOK, FanInOK, AskedOK, MatchesOK, [Next]_vars,
                    NEW x \in Match
             PROVE  /\ PassedOn(x)' => task'[x] \in {"confirming", "ended"} /\ Number(x) > 0
                    /\ task'[x] \in {"confirming", "ended"} /\ Number(x) > 0 /\ Clean'
                         => PassedOn(x)'
  BY DEF MatchesOK, Number
<1>1. CASE Take(x) /\ PassedOn(x)'
  <2>1. Number(x) # 0 /\ Number(x) \in Nat
    BY <1>1, NumberFacts DEF Take, MoveTask, AskedOK, TaskEnded
  <2>2. task'[x] \in {"confirming", "ended"}
    BY <1>1 DEF Take, MoveTask, TypeOK
  <2>3. QED
    BY <1>1, <2>1, <2>2
<1>2. ASSUME ~ Take(x), task[x] \in {"confirming", "ended"}
      PROVE  task'[x] \in {"confirming", "ended"}
  BY <1>2, TaskMoves
     DEF Receive, Ask, Check, CheckTimeout, CheckContext, AfterCheck, MoveTask, TypeOK
<1>3. ASSUME ~ Take(x), task[x] \notin {"confirming", "ended"},
             task'[x] \in {"confirming", "ended"}, Number(x) > 0
      PROVE  ~ Clean'
  <2>1. CheckContext(x) /\ Cancelled /\ task[x] = "ready"
    BY <1>3, TaskMoves
       DEF Receive, Ask, Check, CheckTimeout, CheckContext, AfterCheck, MoveTask, TypeOK
  <2>2. UNCHANGED <<expired, handler, mmf>>
    BY <2>1 DEF CheckContext
  <2>3. CASE expired
    BY <2>2, <2>3 DEF Clean
  <2>4. CASE handler = "returned"
    <3>1. PICK m \in Mmf : x \in MatchesOf[m]
      BY <2>1 DEF GroupsOK, Received
    <3>2. mmf[m] = "failed"
      BY <2>1, <2>4, <3>1 DEF GroupsOK, TaskEnded
    <3>3. QED
      BY <2>2, <3>2 DEF Clean
  <2>5. QED
    BY <2>1, <2>3, <2>4 DEF Cancelled
<1>4. Clean' => Clean
  BY CleanBefore
<1>5. CASE ~ Take(x) /\ (PassedOn(x)' <=> PassedOn(x))
  BY <1>2, <1>3, <1>4, <1>5 DEF MatchesOK
<1>6. CASE ~ Take(x) /\ PassedOn(x) /\ ~ Clean'
  BY <1>2, <1>6 DEF MatchesOK
<1>7. ~ (Take(x) /\ ~ PassedOn(x)')
  BY DEF Take, PassedOn
<1>8. QED
  BY <1>1, <1>5, <1>6, <1>7, PassedOnMoves

LEMMA LogStep == TypeOK /\ LogOK /\ AskedOK /\ [Next]_vars => LogOK'
<1> SUFFICES ASSUME TypeOK, LogOK, AskedOK, [Next]_vars PROVE LogOK'
  OBVIOUS
<1>1. /\ Len(log) \in Nat /\ DOMAIN log = 1 .. Len(log)
      /\ \A n \in DOMAIN log : log[n][1] \in Match /\ log[n][2] \in Nat
  BY DEF TypeOK
<1>2. ASSUME log' = log PROVE LogOK'
  <2>1. \A n \in DOMAIN log : log'[n][2] \in 1 .. asked'[log'[n][1]]
    BY <1>1, <1>2, AskedGrows DEF LogOK
  <2>2. QED
    BY <1>2, <2>1 DEF LogOK
<1>3. CASE Replicate
  <2>1. log' = Tail(log) /\ asked' = asked /\ log # << >>
    BY <1>3 DEF Replicate, taskVars
  <2>2. \A n \in DOMAIN log' :
          n \in Nat /\ n + 1 \in DOMAIN log /\ log'[n] = log[n + 1]
    BY <2>1, HeadOfLog
  <2>3. \A n \in DOMAIN log' : log'[n][2] \in 1 .. asked'[log'[n][1]]
    BY <2>1, <2>2 DEF LogOK
  <2>4. ASSUME NEW m \in DOMAIN log', NEW n \in DOMAIN log',
               m < n, log'[m][1] = log'[n][1]
        PROVE  log'[m][2] < log'[n][2]
    <3>1. m + 1 < n + 1
      BY <2>2, <2>4
    <3>2. QED
      BY <2>2, <2>4, <3>1 DEF LogOK
  <2>5. QED
    BY <2>3, <2>4 DEF LogOK
<1>4. ASSUME NEW x \in Match, log' = Append(log, <<x, asked[x] + 1>>),
             asked' = [asked EXCEPT ![x] = @ + 1]
      PROVE  LogOK'
  <2>1. <<x, asked[x] + 1>> \in Match \X Nat /\ asked[x] \in Nat
    BY DEF TypeOK
  <2>2. /\ DOMAIN log' = 1 .. Len(log) + 1
        /\ \A n \in 1 .. Len(log) : log'[n] = log[n]
        /\ log'[Len(log) + 1] = <<x, asked[x] + 1>>
    BY <1>4, <2>1, AppendedLog
  <2>3. asked'[x] = asked[x] + 1 /\ \A y \in Match \ {x} : asked'[y] = asked[y]
    BY <1>4 DEF TypeOK
  <2>4. ASSUME NEW n \in DOMAIN log' PROVE log'[n][2] \in 1 .. asked'[log'[n][1]]
    <3>1. CASE n = Len(log) + 1
      BY <2>1, <2>2, <2>3, <3>1
    <3>2. CASE n \in DOMAIN log
      <4>1. log'[n] = log[n] /\ log[n][2] \in 1 .. asked[log[n][1]] /\ log[n][1] \in Match
        BY <1>1, <2>2, <3>2 DEF LogOK
      <4>2. CASE log[n][1] = x
        BY <2>1, <2>3, <4>1, <4>2
      <4>3. CASE log[n][1] # x
        BY <2>3, <4>1, <4>3
      <4>4. QED
        BY <4>2, <4>3
    <3>3. QED
      BY <1>1, <2>2, <3>1, <3>2
  <2>5. ASSUME NEW m \in DOMAIN log', NEW n \in DOMAIN log',
               m < n, log'[m][1] = log'[n][1]
        PROVE  log'[m][2] < log'[n][2]
    <3>1. m \in DOMAIN log /\ log'[m] = log[m]
      BY <1>1, <2>2, <2>5
    <3>2. CASE n = Len(log) + 1
      <4>1. log[m][1] = x /\ log'[n][2] = asked[x] + 1
        BY <2>2, <2>5, <3>1, <3>2
      <4>2. log[m][2] \in 1 .. asked[x]
        BY <3>1, <4>1 DEF LogOK
      <4>3. QED
        BY <2>1, <3>1, <4>1, <4>2
    <3>3. CASE n \in DOMAIN log
      BY <1>1, <2>2, <2>5, <3>1, <3>3 DEF LogOK
    <3>4. QED
      BY <1>1, <2>2, <3>2, <3>3
  <2>6. QED
    BY <2>4, <2>5 DEF LogOK
<1>5. QED
  BY <1>2, <1>3, <1>4, LogMoves

\* An update that was applied stays so.
LEMMA AppliedStays ==
  ASSUME TypeOK, LogOK, [Next]_vars, NEW y \in Match, NEW k \in 0 .. asked[y],
         AppliedUpTo(y, k)
  PROVE  AppliedUpTo(y, k)'
<1>1. CASE log' = log
  BY <1>1 DEF AppliedUpTo
<1>2. CASE Replicate
  BY <1>2, HeadOfLog DEF Replicate, AppliedUpTo
<1>3. ASSUME NEW x \in Match, log' = Append(log, <<x, asked[x] + 1>>)
      PROVE  AppliedUpTo(y, k)'
  <2>1. <<x, asked[x] + 1>> \in Match \X Nat /\ asked[x] \in Nat /\ asked[y] \in Nat
    BY DEF TypeOK
  <2>2. /\ DOMAIN log = 1 .. Len(log) /\ Len(log) \in Nat
        /\ DOMAIN log' = 1 .. Len(log) + 1
        /\ \A n \in 1 .. Len(log) : log'[n] = log[n]
        /\ log'[Len(log) + 1] = <<x, asked[x] + 1>>
    BY <1>3, <2>1, AppendedLog
  <2>3. ASSUME NEW n \in DOMAIN log', log'[n][1] = y PROVE k < log'[n][2]
    <3>1. CASE n = Len(log) + 1
      BY <2>1, <2>2, <2>3, <3>1
    <3>2. CASE n \in DOMAIN log
      BY <2>2, <2>3, <3>2 DEF AppliedUpTo
    <3>3. QED
      BY <2>2, <3>1, <3>2
  <2>4. QED
    BY <2>3 DEF AppliedUpTo
<1>4. QED
  BY <1>1, <1>2, <1>3, LogMoves

LEMMA InactiveStep ==
  TypeOK /\ LogOK /\ InactiveOK /\ [Next]_vars => InactiveOK'
<1> SUFFICES ASSUME TypeOK, LogOK, InactiveOK, [Next]_vars, NEW t \in inactive' \ others'
             PROVE  \E y \in Match : \E k \in 1 .. asked'[y] :
                      TicketsOf[y][k] = t /\ AppliedUpTo(y, k)'
  BY DEF InactiveOK, AppliedUpTo
<1>1. CASE t \in inactive
  <2>0. PICK y \in Match :
          \E k \in 1 .. asked[y] : TicketsOf[y][k] = t /\ AppliedUpTo(y, k)
    BY <1>1, OthersGrow DEF InactiveOK
  <2>1. PICK k \in 1 .. asked[y] : TicketsOf[y][k] = t /\ AppliedUpTo(y, k)
    BY <2>0
  <2>2. k \in 0 .. asked[y] /\ k \in 1 .. asked'[y]
    BY AskedGrows
  <2>3. QED
    BY <2>1, <2>2, AppliedStays
<1>2. CASE t \notin inactive
  <2>1. Replicate
    BY <1>2, LogMoves
  <2>2. /\ log # << >> /\ log' = Tail(log) /\ asked' = asked
        /\ t = TicketsOf[Head(log)[1]][Head(log)[2]]
    BY <1>2, <2>1 DEF Replicate, taskVars
  <2>3. PICK y \in Match : y = Head(log)[1]
    BY <2>2, HeadOfLog
  <2>4. PICK k \in 1 .. asked[y] : k = Head(log)[2]
    BY <2>2, <2>3, HeadOfLog
  <2>5. ASSUME NEW n \in DOMAIN Tail(log), Tail(log)[n][1] = y
        PROVE  k < Tail(log)[n][2]
    <3>1. /\ n + 1 \in DOMAIN log /\ Tail(log)[n] = log[n + 1] /\ 1 < n + 1
          /\ 1 \in DOMAIN log /\ Head(log) = log[1]
      BY <2>2, HeadOfLog
    <3>2. QED
      BY <2>3, <2>4, <2>5, <3>1 DEF LogOK
  <2>6. AppliedUpTo(y, k)'
    BY <2>2, <2>5 DEF AppliedUpTo
  <2>7. QED
    BY <2>2, <2>3, <2>4, <2>6
<1>3. QED
  BY <1>1, <1>2

\* The last ticket of a match tells, unless something else has deactivated it: if it
\* is on the inactive list, no update of the match is waiting.
LEMMA LastTicketTells ==
  ASSUME TypeOK, AskedOK, InactiveOK, NEW x \in Match, Last(x) \in inactive,
         LastTells(x)
  PROVE  AppliedUpTo(x, Number(x))
<1>0. PICK y \in Match :
        \E k \in 1 .. asked[y] : TicketsOf[y][k] = Last(x) /\ AppliedUpTo(y, k)
  BY DEF InactiveOK, LastTells
<1>1. PICK k \in 1 .. asked[y] : TicketsOf[y][k] = Last(x) /\ AppliedUpTo(y, k)
  BY <1>0
<1>2. asked[y] \in Nat /\ Number(y) \in Nat /\ asked[y] <= Number(y)
  BY NumberFacts DEF TypeOK
<1>3. Received(y)
  BY <1>2 DEF AskedOK, Received
<1>4. k \in 1 .. Number(y)
  BY <1>2
<1>5. y = x
  BY <1>1, <1>3, <1>4 DEF LastTells
<1>6. k = Number(x)
  BY <1>1, <1>2, <1>4, <1>5 DEF LastTells
<1>7. QED
  BY <1>1, <1>5, <1>6

LEMMA CheckedStep ==
  TypeOK /\ AskedOK /\ LogOK /\ InactiveOK /\ CheckedOK /\ [Next]_vars => CheckedOK'
<1> SUFFICES ASSUME TypeOK, AskedOK, LogOK, InactiveOK, CheckedOK, [Next]_vars,
                    wait', NEW x \in Match
             PROVE  /\ task'[x] # "confirming"
                    /\ /\ task'[x] \in {"ready", "queued", "ended"} /\ Number(x) > 0
                       /\ LastTells(x)' /\ x \notin late'
                       => AppliedUpTo(x, Number(x))'
  BY DEF CheckedOK, AppliedUpTo, Number
<1>1. wait
  BY DEF Next, FanOutStep, Dial, DialFails, Receive, StreamEnds, StreamFails, EndMmf,
         MoveMmf, TaskStep, Ask, Check, CheckTimeout, CheckContext, FanInStep,
         StartFanIn, Take, SendMatch, SendFails, EndFanIn, HandlerStep, Close, Return,
         Around, Timeout, Replicate, Deactivate, Reactivate, vars
<1>2. task'[x] # "confirming"
  BY <1>1, TaskMoves
     DEF CheckedOK, Receive, Ask, Check, CheckTimeout, CheckContext, Take, AfterCheck,
         MoveTask, TypeOK
<1>3. ASSUME task'[x] \in {"ready", "queued", "ended"}, Number(x) > 0,
             LastTells(x)', x \notin late'
      PROVE  AppliedUpTo(x, Number(x))'
  <2>1. LastTells(x)
    <3>1. \A y \in Match : Received(y) => Received(y)'
      BY TaskMoves
         DEF Received, Receive, Ask, Check, CheckTimeout, CheckContext, Take, AfterCheck,
             MoveTask, TypeOK
    <3>2. QED
      BY <1>3, <3>1, OthersGrow DEF LastTells, Number, Last
  <2>2. CASE Check(x) /\ task[x] = "checking"
    <3>1. AppliedUpTo(x, Number(x)) /\ log' = log
      BY <2>1, <2>2, LastTicketTells DEF Check, cacheVars
    <3>2. QED
      BY <3>1 DEF AppliedUpTo, Number
  <2>3. CASE task[x] \in {"ready", "queued", "ended"} /\ x \notin late
    <3>1. AppliedUpTo(x, Number(x)) /\ Number(x) \in 0 .. asked[x]
      BY <1>1, <1>3, <2>1, <2>3, NumberFacts DEF CheckedOK, AskedOK
    <3>2. QED
      BY <3>1, AppliedStays DEF AppliedUpTo, Number
  <2>4. QED
    BY <1>1, <1>3, <2>2, <2>3, TaskMoves
       DEF CheckedOK, Receive, Ask, Check, CheckTimeout, CheckContext, Take, AfterCheck,
           MoveTask, TypeOK
<1>4. QED
  BY <1>2, <1>3

-----------------------------------------------------------------------------
LEMMA InitInv == Init => IInv
<1> SUFFICES ASSUME Init PROVE IInv
  OBVIOUS
<1>1. TypeOK
  BY TypeInit
<1>2. \A x \in Match : ~ PassedOn(x)
  BY InvokeAssumption DEF Init, PassedOn, Streamed
<1>3. MatchesOK
  BY <1>2 DEF Init, MatchesOK
<1>4. FanInOK
  BY InvokeAssumption DEF Init, FanInOK
<1>5. LogOK /\ InactiveOK
  BY DEF Init, LogOK, InactiveOK
<1>6. AskedOK
  BY DEF Init, AskedOK, TaskEnded
<1>7. CheckedOK
  BY DEF Init, CheckedOK
<1>8. GroupsOK /\ PanicsOnlyAfterFailure
  BY DEF Init, GroupsOK, Received, PanicsOnlyAfterFailure
<1>9. QED
  BY <1>1, <1>3, <1>4, <1>5, <1>6, <1>7, <1>8 DEF IInv

LEMMA InductiveInvariant == Spec => []IInv
<1>1. IInv /\ [Next]_vars => IInv'
  BY TypeStep, GroupsStep, PanicStep, FanInKept, AskedStep, MatchesStep, LogStep,
     InactiveStep, CheckedStep DEF IInv
<1>2. QED
  BY InitInv, <1>1, PTL DEF Spec

\* The variables keep their types: in particular no goroutine asks for more
\* updates than its match has tickets.
THEOREM InvokeTypeCorrect == Spec => []TypeOK
  BY InductiveInvariant, PTL DEF IInv

\* A deactivation goroutine sends on the closed matchChan only if an MMF failed:
\* in a call whose MMFs all complete, the wait groups keep close after every send.
THEOREM NoPanicWithoutFailure == Spec => []PanicsOnlyAfterFailure
  BY InductiveInvariant, PTL DEF IInv

\* A call that returns and that nothing failed has streamed every match with
\* tickets that its MMFs returned.
THEOREM CleanCallsDeliver == Spec => []CleanReturnDelivers
<1>1. IInv => CleanReturnDelivers
  <2> SUFFICES ASSUME IInv, handler = "returned", Clean, NEW x \in Match,
                      Received(x), Number(x) > 0
               PROVE  Streamed(x)
    BY DEF CleanReturnDelivers
  <2>1. PICK m \in Mmf : x \in MatchesOf[m]
    BY DEF IInv, GroupsOK
  <2>2. mmf[m] = "done"
    BY DEF IInv, GroupsOK, Clean
  <2>3. task[x] = "ended"
    BY <2>1, <2>2 DEF IInv, GroupsOK, TaskEnded, Received
  <2>4. PassedOn(x)
    BY <2>3 DEF IInv, MatchesOK
  <2>5. sending # x
    BY DEF IInv, FanInOK
  <2>6. QED
    BY <2>4, <2>5 DEF PassedOn
<1>2. QED
  BY <1>1, InductiveInvariant, PTL

\* The fan-in goroutine is done only after close, and close finds no goroutine that
\* offers a match, or crashes: whoever offers a match is served.
THEOREM OffersFindTaker == Spec => []OffersAreTaken
<1> DEFINE DoneAfterClose == fanIn = "done" => handler # "waiting"
<1>1. Init => DoneAfterClose
  BY DEF Init
<1>2. IInv /\ DoneAfterClose /\ [Next]_vars => DoneAfterClose'
  BY DEF IInv, TypeOK, Next, FanOutStep, Dial, DialFails, Receive, StreamEnds,
         StreamFails, EndMmf, MoveMmf, TaskStep, Ask, Check, CheckTimeout, CheckContext,
         FanInStep, StartFanIn, Take, SendMatch, SendFails, EndFanIn, HandlerStep,
         Close, Return, Around, Timeout, Replicate, Deactivate, Reactivate, vars, callVars
<1>3. IInv /\ DoneAfterClose => OffersAreTaken
  BY DEF IInv, GroupsOK, OffersAreTaken
<1>4. QED
  BY <1>1, <1>2, <1>3, InductiveInvariant, PTL DEF Spec

\* Whatever the interleaving of goroutines and replication, a match leaves after
\* the deactivation of its tickets was asked for and, when the call waits and
\* the match's last ticket tells, applied.
THEOREM MatchesLeaveDeactivated == Spec => []DeactivatedFirst
<1>1. IInv => DeactivatedFirst
  <2> SUFFICES ASSUME IInv, NEW x \in Match, PassedOn(x)
               PROVE  /\ asked[x] = Number(x)
                      /\ wait /\ LastTells(x) /\ x \notin late =>
                           \A n \in DOMAIN log : log[n][1] # x
    BY DEF DeactivatedFirst, PassedOn
  <2>1. task[x] \in {"confirming", "ended"} /\ Number(x) > 0
    BY DEF IInv, MatchesOK
  <2>2. asked[x] = Number(x)
    BY <2>1 DEF IInv, AskedOK
  <2>3. ASSUME wait, LastTells(x), x \notin late, NEW n \in DOMAIN log, log[n][1] = x
        PROVE  FALSE
    <3>1. AppliedUpTo(x, Number(x))
      BY <2>1, <2>3 DEF IInv, CheckedOK
    <3>2. log[n][2] \in 1 .. Number(x) /\ Number(x) < log[n][2]
      BY <2>2, <2>3, <3>1 DEF IInv, LogOK, AppliedUpTo
    <3>3. QED
      BY <3>2, NumberFacts
  <2>4. QED
    BY <2>2, <2>3
<1>2. QED
  BY <1>1, InductiveInvariant, PTL

\* The fan-in goroutine streams nothing once the handler has returned, although
\* it may start after that.
THEOREM NothingIsStreamedAfterReturn == Spec => NothingAfterReturn
<1>1. IInv /\ [Next]_vars => [handler = "returned" => streamed' = streamed]_vars
  BY DEF IInv, FanInOK, Next, FanOutStep, Dial, DialFails, Receive, StreamEnds,
         StreamFails, EndMmf, MoveMmf, TaskStep, Ask, Check, CheckTimeout, CheckContext,
         FanInStep, StartFanIn, Take, SendMatch, SendFails, EndFanIn, HandlerStep,
         Close, Return, Around, Timeout, Replicate, Deactivate, Reactivate, callVars
<1>2. QED
  BY <1>1, InductiveInvariant, PTL DEF Spec, NothingAfterReturn

=============================================================================
