--------------------------- MODULE WatchAssignments -------------------------
(***************************************************************************)
(* The deprecated WatchAssignments call of one om-core instance.           *)
(*                                                                         *)
(* The handler starts one goroutine for each position of the requested     *)
(* list of ticket ids.  Each polls the replicated assignments once a       *)
(* second until its ticket has one, sends it on the call's unbuffered      *)
(* channel updateChan, and ends.  The handler takes as many assignments as *)
(* there are ids and streams each to the client, until a timeout set by    *)
(* the newest of the tickets.  It closes the channel when it returns; the  *)
(* goroutines are not told.                                                *)
(*                                                                         *)
(* Time is counted in the goroutines' polling interval of one second.      *)
(***************************************************************************)
EXTENDS Integers, Sequences, FiniteSets

CONSTANTS
  Call,      \* calls of WatchAssignments
  Ticket,    \* ticket ids
  Request,   \* lists of ids the calls ask for
  Ctime,     \* Ctime[t]: the creation time that id t begins with
  TTL,       \* OM_CACHE_TICKET_TTL_MS
  Lag,       \* OM_CACHE_ASSIGNMENT_ADDITIONAL_TTL_MS
  Horizon    \* bound: the clock stops here

ASSUME WatchAssumption ==
  /\ Request \subseteq Seq(Ticket)
  /\ Ctime \in [Ticket -> Int]
  /\ TTL \in Nat /\ Lag \in Nat /\ Horizon \in Nat

VARIABLES
  now,        \* the clock
  assigned,   \* keys of tc.Assignments: the tickets that have an assignment
  ids,        \* ids[c]: the list of ids of call c
  phase,      \* phase[c]: where its handler is
  deadline,   \* deadline[c]: when its timeout fires
  taken,      \* taken[c]: positions whose assignment was taken from updateChan
  streamed,   \* streamed[c]: ids of the assignments the client got
  open,       \* open[c]: the client is still there
  watcher,    \* watcher[c][n]: what the goroutine of position n does
  crashed     \* a goroutine panicked, which ends the process

handlerVars == <<ids, phase, deadline, taken, streamed>>
vars == <<now, assigned, handlerVars, open, watcher, crashed>>

\* A goroutine that polls does so again at time "at"; one that "sends" has an
\* assignment in hand.
Watcher(does, at) == [does |-> does, at |-> at]

Returned(c) == phase[c] = "returned"
Sending(c, n) == watcher[c][n].does = "send"
Positions(c) == DOMAIN ids[c]

-----------------------------------------------------------------------------
Init ==
  /\ now = 0
  /\ assigned = {}
  /\ ids = [c \in Call |-> << >>]
  /\ phase = [c \in Call |-> "start"]
  /\ deadline = [c \in Call |-> 0]
  /\ taken = [c \in Call |-> {}]
  /\ streamed = [c \in Call |-> << >>]
  /\ open = [c \in Call |-> TRUE]
  /\ watcher = [c \in Call |-> << >>]
  /\ crashed = FALSE

TypeOK ==
  /\ now \in 0 .. Horizon
  /\ assigned \subseteq Ticket
  /\ ids \in [Call -> Request \cup {<< >>}]
  /\ phase \in [Call -> {"start", "wait", "returned"}]
  /\ \A c \in Call : phase[c] = "start" => ids[c] = << >>
  /\ deadline \in [Call -> Int]
  /\ DOMAIN taken = Call /\ \A c \in Call : taken[c] \subseteq Positions(c)
  /\ streamed \in [Call -> Seq(Ticket)]
  /\ open \in [Call -> BOOLEAN]
  /\ DOMAIN watcher = Call
  /\ \A c \in Call :
       watcher[c] \in [Positions(c) ->
         [does : {"poll", "send", "ended"}, at : 0 .. Horizon + 1]]
  /\ crashed \in BOOLEAN

-----------------------------------------------------------------------------
\* The surroundings: the clock, the cache and the clients.

Tick ==
  /\ ~ crashed
  /\ now < Horizon
  /\ now' = now + 1
  /\ UNCHANGED <<assigned, handlerVars, open, watcher, crashed>>

\* A replicated assignment is applied to the cache.
Assign(t) ==
  /\ ~ crashed
  /\ t \notin assigned
  /\ assigned' = assigned \cup {t}
  /\ UNCHANGED <<now, handlerVars, open, watcher, crashed>>

\* An expiration cycle removes the assignments past their time to live.
ExpireAssignments ==
  /\ ~ crashed
  /\ assigned' = {t \in assigned : now - Ctime[t] <= TTL + Lag}
  /\ assigned' # assigned
  /\ UNCHANGED <<now, handlerVars, open, watcher, crashed>>

\* The client cancels or loses its connection.  The handler looks at neither:
\* only the errors of later stream.Send calls show it, and they are logged.
ClientLeaves(c) ==
  /\ ~ crashed
  /\ phase[c] = "wait"
  /\ open[c]
  /\ open' = [open EXCEPT ![c] = FALSE]
  /\ UNCHANGED <<now, assigned, handlerVars, watcher, crashed>>

-----------------------------------------------------------------------------
\* The handler.

Latest(S) == CHOOSE x \in S : \A y \in S : y <= x

\* Mutant: the oldest ticket of the request sets the timeout.
OldestTicketCtime(req) ==
  CHOOSE x \in {now} \cup {Ctime[req[n]] : n \in DOMAIN req} :
    \A n \in DOMAIN req : x <= Ctime[req[n]] /\ x <= now

\* The latest of the time of the call and of the times the ids begin with: an id
\* from a Redis server whose clock is ahead lies in the future, and one that
\* does not parse counts as the epoch.
NewestTicketCtime(req) ==
  Latest({now} \cup {Ctime[req[n]] : n \in DOMAIN req})

\* The call begins: its goroutines are started, its timeout set.
Watch(c, req) ==
  /\ ~ crashed
  /\ phase[c] = "start"
  /\ ids' = [ids EXCEPT ![c] = req]
  /\ deadline' = [deadline EXCEPT ![c] = NewestTicketCtime(req) + TTL]
  /\ phase' = [phase EXCEPT ![c] = IF req = << >> THEN "returned" ELSE "wait"]
  /\ watcher' = [watcher EXCEPT ![c] =
                   [n \in DOMAIN req |-> Watcher("poll", now)]]
  /\ UNCHANGED <<now, assigned, taken, streamed, open, crashed>>

\* A goroutine whose assignment was received ends.
Ended == Watcher("ended", 0)

\* Mutant: the first assignment ends the loop.
ReturnAtFirst(c, n) == "returned"

\* The loop runs once for each id, and leaving it closes the channel.
AfterReceive(c, n) ==
  IF Cardinality(taken[c] \cup {n}) = Len(ids[c]) THEN "returned" ELSE "wait"

\* case thisAssignment := <-updateChan: a waiting goroutine hands its assignment
\* over and ends; stream.Send passes it on, or fails.
Receive(c, n) ==
  /\ ~ crashed
  /\ phase[c] = "wait"
  /\ Sending(c, n)
  /\ taken' = [taken EXCEPT ![c] = @ \cup {n}]
  /\ streamed' = [streamed EXCEPT ![c] =
                    IF open[c] THEN Append(@, ids[c][n]) ELSE @]
  /\ phase' = [phase EXCEPT ![c] = AfterReceive(c, n)]
  /\ watcher' = [watcher EXCEPT ![c][n] = Ended]
  /\ UNCHANGED <<now, assigned, ids, deadline, open, crashed>>

\* Mutant: any client that leaves ends the call.
TimeoutOrGone(c) ==
  /\ ~ crashed
  /\ phase[c] = "wait"
  /\ now >= deadline[c] \/ ~ open[c]
  /\ phase' = [phase EXCEPT ![c] = "returned"]
  /\ UNCHANGED <<now, assigned, ids, deadline, taken, streamed, open, watcher,
                 crashed>>

\* case <-timeout: even when an assignment is waiting.  The channel is closed.
Timeout(c) ==
  /\ ~ crashed
  /\ phase[c] = "wait"
  /\ now >= deadline[c]
  /\ phase' = [phase EXCEPT ![c] = "returned"]
  /\ UNCHANGED <<now, assigned, ids, deadline, taken, streamed, open, watcher,
                 crashed>>

-----------------------------------------------------------------------------
\* The goroutine of position n.

\* tc.Assignments.Load(ticketId), and one second of sleep if there is none.
Poll(c, n) ==
  /\ ~ crashed
  /\ watcher[c][n].does = "poll"
  /\ now >= watcher[c][n].at
  /\ watcher' = [watcher EXCEPT ![c][n] =
                   IF ids[c][n] \in assigned THEN Watcher("send", 0)
                   ELSE Watcher("poll", now + 1)]
  /\ UNCHANGED <<now, assigned, handlerVars, open, crashed>>

\* updateChan <- ...: the channel is closed, before or while the goroutine waits.
SendOnClosed(c, n) ==
  /\ ~ crashed
  /\ Sending(c, n)
  /\ Returned(c)
  /\ crashed' = TRUE
  /\ UNCHANGED <<now, assigned, handlerVars, open, watcher>>

-----------------------------------------------------------------------------
Next ==
  \/ Tick
  \/ ExpireAssignments
  \/ \E t \in Ticket : Assign(t)
  \/ \E c \in Call :
       \/ \E req \in Request : Watch(c, req)
       \/ ClientLeaves(c)
       \/ Timeout(c)
       \/ \E n \in Positions(c) : Receive(c, n) \/ Poll(c, n) \/ SendOnClosed(c, n)

Spec == Init /\ [][Next]_vars

-----------------------------------------------------------------------------
Occurrences(s, t) == Cardinality({n \in DOMAIN s : s[n] = t})

\* A call that returns before the last of its tickets may have expired has
\* streamed an assignment for every position of its request, duplicates and all,
\* unless its client left: however its goroutines, the expiry of assignments and
\* new assignments interleave.
EarlyReturnIsComplete ==
  \A c \in Call :
    Returned(c) /\ open[c] /\ now < deadline[c] =>
      \A t \in Ticket : Occurrences(streamed[c], t) = Occurrences(ids[c], t)

\* A call gives up on a ticket only when that ticket, going by its id, is older
\* than the time to live: an assignment can no longer be made for it.
GivesUpAfterTTL ==
  \A c \in Call : \A n \in Positions(c) :
    Returned(c) /\ n \notin taken[c] => now - Ctime[ids[c][n]] >= TTL

\* The process dies in a call of WatchAssignments only by an assignment that
\* arrives after a call timed out: not with duplicate ids, with a client that
\* leaves, or with assignments that expire while a goroutine holds them.
PanicsOnlyAfterTimeout ==
  crashed => \E c \in Call : \E n \in Positions(c) :
               /\ Returned(c) /\ n \notin taken[c]
               /\ deadline[c] <= now
               /\ Sending(c, n)

\* main.go:1280: "Once one is found, it puts that in the channel, then exits."
\* After the handler timed out the channel is closed, and the goroutine panics.
PutsThenExits == ~ crashed

=============================================================================
