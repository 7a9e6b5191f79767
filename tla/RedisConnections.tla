-------------------------- MODULE RedisConnections --------------------------
(***************************************************************************)
(* The life of one om-core process that uses Redis: its two connection     *)
(* pools, and the signals that should stop it.                             *)
(*                                                                         *)
(* redisReplicator.New borrows a connection of the read pool and one of    *)
(* the write pool; main then starts the replication goroutines, and start  *)
(* serves until a signal.  At run time only the poller (GetUpdates) uses   *)
(* the read pool and only OutgoingReplicationQueue (SendUpdates) the write *)
(* pool, one connection at a time.  A pool without an idle connection      *)
(* dials; the dial functions also take the signals sent to New's channel,  *)
(* which stays registered for the life of the process.                     *)
(***************************************************************************)
EXTENDS Integers

CONSTANT MaxDials  \* dials that fit in OM_REDIS_DIAL_MAX_BACKOFF_TIMEOUT

ASSUME ConnectionsAssumption == MaxDials \in Nat \ {0}

Side == {"read", "write"}

VARIABLES
  up,         \* up[s]: the Redis endpoint of side s can be reached
  stage,      \* how far main is, or how the process ended
  cancelled,  \* New's context is cancelled
  newSig,     \* a signal waits in New's channel
  startSig,   \* a signal waits in start's channel
  conn,       \* conn[s]: the connection of the pool, idle or borrowed
  use,        \* use[s]: what the user of the pool is doing
  dials,      \* dials[s]: failed dials of the borrow under way
  reached     \* history: sides that were connected at least once

poolVars == <<conn, use, dials, reached>>
signalVars == <<cancelled, newSig, startSig>>
vars == <<up, stage, signalVars, poolVars>>

\* The goroutines run from the return of New until the process ends.
Running == stage \in {"starting", "serving"}
Initialising == stage \in {"read", "write", "check"}
Ended == stage \in {"fatal", "panic", "stopped"}

Init ==
  /\ up \in [Side -> BOOLEAN]
  /\ stage = "read"
  /\ cancelled = FALSE
  /\ newSig = FALSE
  /\ startSig = FALSE
  /\ conn = [s \in Side |-> "none"]
  /\ use = [s \in Side |-> IF s = "read" THEN "dial" ELSE "none"]
  /\ dials = [s \in Side |-> 0]
  /\ reached = {}

TypeOK ==
  /\ up \in [Side -> BOOLEAN]
  /\ stage \in {"read", "write", "check", "starting", "serving", "fatal", "panic",
                "stopped"}
  /\ cancelled \in BOOLEAN /\ newSig \in BOOLEAN /\ startSig \in BOOLEAN
  /\ conn \in [Side -> {"none", "live", "dead"}]
  /\ use \in [Side -> {"none", "dial", "held", "nil", "error"}]
  /\ dials \in [Side -> 0 .. MaxDials]
  /\ \A s \in Side : use[s] = "held" => conn[s] # "none"
  /\ reached \subseteq Side

-----------------------------------------------------------------------------
\* The surroundings.

\* An endpoint fails, and its connections with it.
Down(s) ==
  /\ ~ Ended
  /\ up[s]
  /\ up' = [up EXCEPT ![s] = FALSE]
  /\ conn' = [conn EXCEPT ![s] = IF @ = "live" THEN "dead" ELSE @]
  /\ UNCHANGED <<stage, signalVars, use, dials, reached>>

Up(s) ==
  /\ ~ Ended
  /\ ~ up[s]
  /\ up' = [up EXCEPT ![s] = TRUE]
  /\ UNCHANGED <<stage, signalVars, poolVars>>

\* SIGTERM or SIGINT: put into every channel registered for it that has room.
\* The default action, to end the process, is off since New began.
Signal ==
  /\ ~ Ended
  /\ newSig' = TRUE
  /\ startSig' = (startSig \/ stage = "serving")
  /\ UNCHANGED <<up, stage, cancelled, poolVars>>

-----------------------------------------------------------------------------
\* Borrowing a connection of the pool of side s.

\* A retry that waits sees that New's context was cancelled.
Interrupted(s) == cancelled /\ dials[s] > 0

\* Mutant: after it took a signal the operation dials all the same.
TakeSignalAndDial(s) ==
  /\ newSig
  /\ newSig' = FALSE
  /\ cancelled' = TRUE
  /\ conn' = [conn EXCEPT ![s] = IF up[s] THEN "live" ELSE @]
  /\ use' = [use EXCEPT ![s] = IF up[s] THEN "held" ELSE "nil"]
  /\ UNCHANGED <<dials, reached>>

\* The operation that is retried: a waiting signal ends it at once, with neither
\* a connection nor an error.
TakeSignal(s) ==
  /\ newSig /\ ~ Interrupted(s)
  /\ newSig' = FALSE
  /\ cancelled' = TRUE
  /\ use' = [use EXCEPT ![s] = "nil"]
  /\ UNCHANGED <<conn, dials, reached>>

Connect(s) ==
  /\ ~ newSig /\ ~ Interrupted(s)
  /\ up[s]
  /\ conn' = [conn EXCEPT ![s] = "live"]
  /\ use' = [use EXCEPT ![s] = "held"]
  /\ reached' = reached \cup {s}
  /\ UNCHANGED <<newSig, cancelled, dials>>

\* Mutant: the dial is retried for ever.
RetryForever ==
  /\ ~ newSig
  /\ ~ up["read"]
  /\ UNCHANGED <<newSig, cancelled, conn, use, dials, reached>>

\* A dial of the read side failed: it is tried again, until the time is up or New's
\* context is cancelled.
RetryOrGiveUp ==
  /\ Interrupted("read") \/ (~ newSig /\ ~ up["read"])
  /\ IF dials["read"] + 1 < MaxDials /\ ~ cancelled
       THEN /\ dials' = [dials EXCEPT !["read"] = @ + 1]
            /\ UNCHANGED use
       ELSE use' = [use EXCEPT !["read"] = "error"] /\ UNCHANGED dials
  /\ UNCHANGED <<newSig, cancelled, conn, reached>>

\* A dial of the write side failed: its error is kept in a variable of the inner
\* block, the retry sees New's own err, which is nil, and the pool gets a
\* connection that is nil.
ReturnNothing ==
  /\ ~ newSig
  /\ ~ up["write"]
  /\ use' = [use EXCEPT !["write"] = "nil"]
  /\ UNCHANGED <<newSig, cancelled, conn, dials, reached>>

ReadDial ==
  /\ ~ Ended
  /\ use["read"] = "dial"
  /\ TakeSignal("read") \/ Connect("read") \/ RetryOrGiveUp
  /\ UNCHANGED <<up, stage, startSig>>

WriteDial ==
  /\ ~ Ended
  /\ use["write"] = "dial"
  /\ TakeSignal("write") \/ Connect("write") \/ ReturnNothing
  /\ UNCHANGED <<up, stage, startSig>>

Dial == ReadDial \/ WriteDial

-----------------------------------------------------------------------------
\* redisReplicator.New, and main and start around it.

\* The read pool answered New: with an error, main ends the process.
ReadTested ==
  /\ stage = "read"
  /\ \/ /\ use["read"] = "error"
        /\ stage' = "fatal"
        /\ UNCHANGED use
     \/ /\ use["read"] \in {"held", "nil"}
        /\ stage' = "write"
        /\ use' = [use EXCEPT !["write"] = "dial"]
  /\ UNCHANGED <<up, signalVars, conn, dials, reached>>

\* Mutant: the write pool is not tested.
WriteUntested ==
  /\ stage = "write"
  /\ stage' = "check"
  /\ use' = [use EXCEPT !["write"] = "none"]
  /\ UNCHANGED <<up, signalVars, conn, dials, reached>>

WriteTested ==
  /\ stage = "write"
  /\ use["write"] \in {"held", "nil"}
  /\ stage' = "check"
  /\ UNCHANGED <<up, signalVars, poolVars>>

\* Mutant: a connection goes back into the pool even if it broke.
ReturnedBroken(s) ==
  /\ conn' = conn
  /\ use' = [use EXCEPT ![s] = "none"]
  /\ dials' = [dials EXCEPT ![s] = 0]

\* A borrowed connection that is closed goes back into the pool, unless it broke.
Returned(s) ==
  /\ conn' = [conn EXCEPT ![s] = IF @ = "dead" THEN "none" ELSE @]
  /\ use' = [use EXCEPT ![s] = "none"]
  /\ dials' = [dials EXCEPT ![s] = 0]

\* New's context was cancelled: the process ends.  Otherwise New returns, its
\* deferred calls close both connections, and main starts the goroutines.
NewReturns ==
  /\ stage = "check"
  /\ stage' = CASE cancelled -> "fatal"
                [] ~ cancelled /\ \E s \in Side : use[s] = "nil" -> "panic"
                [] OTHER -> "starting"
  /\ conn' = [s \in Side |-> IF conn[s] = "dead" THEN "none" ELSE conn[s]]
  /\ use' = [s \in Side |-> "none"]
  /\ dials' = [s \in Side |-> 0]
  /\ UNCHANGED <<up, signalVars, reached>>

\* start registers for signals and begins to serve, or it cannot listen.
Serve ==
  /\ stage = "starting"
  /\ stage' \in {"serving", "fatal"}
  /\ UNCHANGED <<up, signalVars, poolVars>>

\* <-signalChan, omServer.Stop(), and main returns.
Stop ==
  /\ stage = "serving"
  /\ startSig
  /\ stage' = "stopped"
  /\ UNCHANGED <<up, signalVars, poolVars>>

-----------------------------------------------------------------------------
\* GetUpdates (side "read") and SendUpdates (side "write") at run time.

\* Pool.Get: an idle connection is used when it was used in the last 15 seconds
\* or answers a PING; without one, or past IdleTimeout, the pool dials.
Borrow(s) ==
  /\ Running
  /\ use[s] = "none"
  /\ \/ /\ conn[s] # "none"
        /\ use' = [use EXCEPT ![s] = "held"]
        /\ UNCHANGED conn
     \/ /\ conn' = [conn EXCEPT ![s] = "none"]
        /\ use' = [use EXCEPT ![s] = "dial"]
  /\ UNCHANGED <<up, stage, signalVars, dials, reached>>

\* The command and the close: with a broken connection, or the connection that
\* Get makes of an error, they fail, and GetUpdates and SendUpdates go on.
Command(s) ==
  /\ Running
  /\ use[s] \in {"held", "error"}
  /\ Returned(s)
  /\ UNCHANGED <<up, stage, signalVars, reached>>

\* A command on a connection that is nil.
CommandOnNil(s) ==
  /\ Running
  /\ use[s] = "nil"
  /\ stage' = "panic"
  /\ UNCHANGED <<up, signalVars, poolVars>>

Main == ReadTested \/ WriteTested \/ NewReturns \/ Serve \/ Stop

Next ==
  \/ \E s \in Side : Down(s) \/ Up(s)
  \/ Signal
  \/ Dial
  \/ Main
  \/ \E s \in Side : Borrow(s) \/ Command(s) \/ CommandOnNil(s)

Spec == Init /\ [][Next]_vars

\* main and the poller keep going; a batch to send is up to the clients.
Fairness ==
  /\ WF_vars(ReadDial) /\ WF_vars(WriteDial)
  /\ WF_vars(Main)
  /\ WF_vars(Borrow("read"))
  /\ \A s \in Side : WF_vars(Command(s) \/ CommandOnNil(s))

FairSpec == Spec /\ Fairness

-----------------------------------------------------------------------------
\* redis.go:312: "attempt to access Redis hosts during initialization in an
\* effort to fail quickly".  An instance runs only if it was connected to both.
ConnectedBeforeRunning == Running => reached = Side

\* A signal that a dial took is not forgotten: New does not return, and at run
\* time the process is about to end.  Nothing else makes the read pool's dial
\* return without a connection and without an error (redis.go:161): a read
\* endpoint that fails, however often, does not end a running process.
SignalsEndOutagesDoNot ==
  /\ cancelled /\ Running => \E s \in Side : use[s] = "nil"
  /\ use["read"] = "nil" => cancelled

\* Start-up ends, one way or another.
StartupEnds == Initialising ~> (Running \/ Ended)

\* Once the read endpoint stays up, the poller reads from it again and again.
PollerRecovers ==
  <>[](up["read"] /\ Running) => []<>(use["read"] = "held" /\ conn["read"] = "live")

\* redis.go:161: "Only when a retry succeeds or the final retry fails does the
\* Dial function return."  The write pool's dial gives up at the first failure,
\* and reports success.
WriteOutageSurvived ==
  use["write"] = "nil" => cancelled

=============================================================================
