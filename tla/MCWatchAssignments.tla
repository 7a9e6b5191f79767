------------------------- MODULE MCWatchAssignments -------------------------
(***************************************************************************)
(* WatchAssignments with an id whose creation time has passed, one from a  *)
(* clock that is ahead, and one that does not parse (the epoch).           *)
(***************************************************************************)
EXTENDS WatchAssignments, TLC

CONSTANTS past, ahead, malformed

TicketDef == {past, ahead, malformed}

CtimeDef == (past :> -1) @@ (ahead :> 1) @@ (malformed :> -9)

\* Duplicate ids, ids of several ages, and no id at all.
RequestDef ==
  {<< >>, <<past, past>>, <<past, ahead>>, <<malformed, past, past>>}

=============================================================================
