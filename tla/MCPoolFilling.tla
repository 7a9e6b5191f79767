---------------------------- MODULE MCPoolFilling ---------------------------
(***************************************************************************)
(* PoolFilling for the test cases of the filter package, for tickets with  *)
(* every kind of creation and expiration time, and for pools that fill     *)
(* several chunks.                                                         *)
(***************************************************************************)
EXTENDS PoolFilling, FilterTestCases, TLC

CONSTANTS t1, t2, t3

Scene(creates, pools, size, emptySize, expect) ==
  [creates |-> creates, pools |-> pools, size |-> size, emptySize |-> emptySize,
   mmfs |-> TRUE, expect |-> expect]

Ask(attributes, expires) == [attributes |-> attributes, expires |-> expires]

\* One ticket and one pool, of a test case.
CaseScene(case, expect) ==
  Scene(t1 :> Ask(case.attributes, Absent), "p1" :> case.pool, t1 :> 1, 1, expect)

TestScenes ==
  {CaseScene(case, "in") : case \in IncludedTestCases}
  \cup {CaseScene(case, "out") : case \in ExcludedTestCases}

\* One ticket with creation and expiration times of all kinds, and pools with
\* creation time filters of all kinds.
CreatedFilter(start, end, bounds) ==
  [NoFilters EXCEPT !.created = [start |-> start, end |-> end, bounds |-> bounds]]

TimeFilters ==
  {CreatedFilter(Absent, 61, EXCLUDE_MAX), CreatedFilter(60, Absent, EXCLUDE_NONE),
   CreatedFilter(60, 61, EXCLUDE_MIN), CreatedFilter(60, 61, EXCLUDE_BOTH),
   CreatedFilter(Invalid, 61, EXCLUDE_NONE), CreatedFilter(60, Invalid, EXCLUDE_NONE)}

TimeScenes ==
  {Scene(t1 :> Ask([NoAttributes EXCEPT !.created = created], expires),
         "p1" :> filter, t1 :> 1, 1, "any") :
     created \in {Absent, Invalid, 0, 60, 61, 70},
     expires \in {Absent, Invalid, 59, 61, 63, 70},
     filter \in TimeFilters}

\* Three tickets of different sizes; pools that take all, two or none of them.
ByTag(tags) == [NoFilters EXCEPT !.tags = tags]

ChunkScene(size, emptySize) ==
  Scene((t1 :> Ask([NoAttributes EXCEPT !.tags = {"a", "b"}], Absent)) @@
        (t2 :> Ask([NoAttributes EXCEPT !.tags = {"a"}], Absent)) @@
        (t3 :> Ask([NoAttributes EXCEPT !.tags = {"a", "b"}], Absent)),
        ("p1" :> ByTag({"a"})) @@ ("p2" :> ByTag({"b"})) @@ ("p3" :> ByTag({"c"})),
        size, emptySize, "any")

Sizes(a, b, c) == (t1 :> a) @@ (t2 :> b) @@ (t3 :> c)

\* Everything fits; several chunks; tickets as large as a chunk; a profile that
\* leaves no room.
ChunkScenes ==
  {ChunkScene(Sizes(1, 1, 1), 1), ChunkScene(Sizes(2, 3, 4), 2),
   ChunkScene(Sizes(10, 1, 9), 1), ChunkScene(Sizes(1, 1, 1), 10)}

RefusedScenes ==
  LET s == ChunkScene(Sizes(1, 1, 1), 1)
  IN  {[s EXCEPT !.pools = Absent], [s EXCEPT !.mmfs = FALSE]}

AllScenes == TestScenes \cup TimeScenes \cup ChunkScenes \cup RefusedScenes

=============================================================================
