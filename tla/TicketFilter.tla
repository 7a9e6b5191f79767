---------------------------- MODULE TicketFilter ----------------------------
(***************************************************************************)
(* The filters of a pool: internal/filter.                                 *)
(*                                                                         *)
(* A double is an integer or NaN; Infinity is an integer beyond all others.*)
(* A timestamp is an integer, Absent when its field is not set, or Invalid *)
(* when the timestamp package would not accept it.  A pool without a       *)
(* creation time filter has the value Absent for it.                       *)
(***************************************************************************)
EXTENDS Integers

CONSTANTS
  NaN,       \* the double that is not a number
  Infinity,  \* the greatest double
  Absent,    \* a field of the protocol buffer that is not set
  Invalid    \* a timestamp out of the range of the timestamp package

\* Pool_FilterBounds: which ends of a range it leaves out.
EXCLUDE_NONE == {}
EXCLUDE_MIN  == {"min"}
EXCLUDE_MAX  == {"max"}
EXCLUDE_BOTH == {"min", "max"}

Times == Int \cup {Absent, Invalid}

CreatedFilters == [start : Times, end : Times, bounds : SUBSET EXCLUDE_BOTH]

ASSUME FilterAssumption ==
  /\ Infinity \in Nat \ {0}
  /\ NaN \notin Int /\ Absent \notin Int /\ Invalid \notin Int
  /\ Absent # Invalid /\ Absent \notin CreatedFilters

\* Go's comparisons: false when an operand is NaN.
Less(a, b)   == a # NaN /\ b # NaN /\ a < b
AtMost(a, b) == a # NaN /\ b # NaN /\ a <= b

\* AsTime: the epoch for a field that is not set.
AsTime(t) == IF t = Absent THEN 0 ELSE t

\* What remains of a ticket that has no attributes.
NoAttributes ==
  [tags |-> {}, strings |-> << >>, doubles |-> << >>, created |-> Absent]

-----------------------------------------------------------------------------
\* The ends of a creation time filter are valid when they are given.
ValidatePoolFilters(pool) ==
  pool.created # Absent =>
    pool.created.start # Invalid /\ pool.created.end # Invalid

CreatedInRange(crTime, filter) ==
  /\ AsTime(crTime) >= AsTime(filter.start)
  /\ AsTime(crTime) <= AsTime(filter.end)
  /\ "min" \in filter.bounds => AsTime(crTime) # AsTime(filter.start)
  /\ "max" \in filter.bounds => AsTime(crTime) # AsTime(filter.end)

\* Mutant: a value is left out when it is below or above the range, which NaN
\* never is.
DoubleNotOutOfRange(doubles, filter) ==
  /\ filter.arg \in DOMAIN doubles
  /\ ~ Less(doubles[filter.arg], filter.min)
  /\ ~ Less(filter.max, doubles[filter.arg])
  /\ "min" \in filter.bounds => doubles[filter.arg] # filter.min
  /\ "max" \in filter.bounds => doubles[filter.arg] # filter.max

DoubleInRange(doubles, filter) ==
  /\ filter.arg \in DOMAIN doubles
  /\ LET v == doubles[filter.arg]
     IN  /\ IF "min" \in filter.bounds THEN Less(filter.min, v)
                                       ELSE AtMost(filter.min, v)
         /\ IF "max" \in filter.bounds THEN Less(v, filter.max)
                                       ELSE AtMost(v, filter.max)

StringEquals(strings, filter) ==
  filter.arg \in DOMAIN strings /\ strings[filter.arg] = filter.value

\* A ticket is in a pool when it passes every filter.
In(pool, attributes) ==
  /\ pool.created # Absent => CreatedInRange(attributes.created, pool.created)
  /\ \A filter \in pool.doubles : DoubleInRange(attributes.doubles, filter)
  /\ \A filter \in pool.strings : StringEquals(attributes.strings, filter)
  /\ \A tag \in pool.tags : tag \in attributes.tags

=============================================================================
