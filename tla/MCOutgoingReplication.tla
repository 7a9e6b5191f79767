----------------------- MODULE MCOutgoingReplication ------------------------
(***************************************************************************)
(* OutgoingReplication with requests that cover every way an update is     *)
(* accepted, filtered out or found invalid.                                *)
(***************************************************************************)
EXTENDS OutgoingReplication

CONSTANTS c1, c2

Ask(rpc, ids) == [rpc |-> rpc, ids |-> ids]

RequestList ==
  <<Ask("CreateTicket", << >>),
    Ask("SetState", <<"good", "good">>),
    Ask("SetState", <<"good", "malformed">>),
    Ask("SetState", <<"malformed">>),
    Ask("SetState", <<"good", "good", "good">>),
    Ask("MatchDeactivation", <<"empty", "malformed">>),
    Ask("CreateAssignments", <<"good", "empty">>),
    Ask("EmptyAssignment", <<"good">>)>>

AllRequests == {RequestList[i] : i \in DOMAIN RequestList}

\* The calls differ in nothing but their requests, so either order of two requests
\* stands for both.
OrderedInit ==
  /\ Init
  /\ \E i, j \in DOMAIN RequestList :
       i <= j /\ request[c1] = RequestList[i] /\ request[c2] = RequestList[j]

OrderedFairSpec == OrderedInit /\ [][Next]_vars /\ Fairness

=============================================================================
