---------------------------- MODULE UpdateStore -----------------------------
(***************************************************************************)
(* What a call that replicates updates may rely on, whatever is batched    *)
(* with it and whatever fails.                                             *)
(*                                                                         *)
(* A call gives its updates one by one and is answered as often.  An       *)
(* update is written to the one log that all instances read once or never. *)
(* It is written before its answer, and after those that the call gave     *)
(* earlier, unless it has gone astray: the log's reply is lost, the answer *)
(* says nothing, and the update may be written at any later time.          *)
(***************************************************************************)
EXTENDS Integers, Sequences

CONSTANTS
  Call,      \* the calls that give updates
  MayLose    \* updates may go astray

VARIABLES given,     \* given[c]: how many updates c has given
          answered,  \* answered[c]: how many of them have been answered
          astray,    \* the updates that may be written after their answer
          written    \* the log: the n-th update of c is [call |-> c, n |-> n]

vars == <<given, answered, astray, written>>

Init ==
  /\ given = [c \in Call |-> 0]
  /\ answered = [c \in Call |-> 0]
  /\ astray = {}
  /\ written = << >>

Give(c) ==
  /\ given' = [given EXCEPT ![c] = @ + 1]
  /\ UNCHANGED <<answered, astray, written>>

Answer(c) ==
  /\ answered[c] < given[c]
  /\ answered' = [answered EXCEPT ![c] = @ + 1]
  /\ UNCHANGED <<given, astray, written>>

\* Update u has been given and not answered.
Awaited(u) == u.call \in Call /\ u.n \in answered[u.call] + 1 .. given[u.call]

\* Some of the updates that await an answer are written, of any calls at once.
Write ==
  /\ Len(written) < Len(written')
  /\ \A k \in DOMAIN written : written'[k] = written[k]
  /\ \A k \in Len(written) + 1 .. Len(written') :
       LET u == written'[k]
       IN  /\ Awaited(u) /\ u \notin astray
           /\ \A j \in 1 .. k - 1 : written'[j].call = u.call => written'[j].n < u.n
  /\ UNCHANGED <<given, answered, astray>>

\* Some that await an answer and are not written go astray.
Lose ==
  /\ MayLose
  /\ astray \subseteq astray'
  /\ \A u \in astray' \ astray :
       Awaited(u) /\ \A k \in DOMAIN written : written[k] # u
  /\ UNCHANGED <<given, answered, written>>

\* One of these is written after all.
WriteLate(u) ==
  /\ u \in astray
  /\ written' = Append(written, u)
  /\ astray' = astray \ {u}
  /\ UNCHANGED <<given, answered>>

Next ==
  \/ Write \/ Lose \/ \E u \in astray : WriteLate(u)
  \/ \E c \in Call : Give(c) \/ Answer(c)

Spec == Init /\ [][Next]_vars

=============================================================================
