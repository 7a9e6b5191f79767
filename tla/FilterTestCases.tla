--------------------------- MODULE FilterTestCases --------------------------
(***************************************************************************)
(* The table of filter tests, internal/filter/testcases.  A test case is a *)
(* pool and the attributes of a ticket that is, or is not, in it.          *)
(***************************************************************************)
EXTENDS TicketFilter

AllBounds == {EXCLUDE_NONE, EXCLUDE_MIN, EXCLUDE_MAX, EXCLUDE_BOTH}

NoFilters == [created |-> Absent, doubles |-> {}, strings |-> {}, tags |-> {}]

TestCase(attributes, pool) == [attributes |-> attributes, pool |-> pool]

\* One double and one range of it.
SimpleDoubleRange(value, min, max, exclude) ==
  TestCase([NoAttributes EXCEPT !.doubles = [field |-> value]],
           [NoFilters EXCEPT !.doubles =
              {[arg |-> "field", min |-> min, max |-> max, bounds |-> exclude]}])

SimpleStringEquals(arg, value, wanted) ==
  TestCase([NoAttributes EXCEPT !.strings = [a \in {arg} |-> value]],
           [NoFilters EXCEPT !.strings = {[arg |-> "field", value |-> wanted]}])

SimpleTagPresent(tags, filters) ==
  TestCase([NoAttributes EXCEPT !.tags = tags], [NoFilters EXCEPT !.tags = filters])

\* All kinds of filters at once; an argument that is false is a filter that the
\* ticket does not pass.  Times are years since the epoch.
MultipleFilters(doubleRange, stringEquals, tagPresent, creationTimeRange) ==
  TestCase(
    [doubles |-> [a |-> IF doubleRange THEN 0 ELSE 10],
     strings |-> [b |-> IF stringEquals THEN "hi" ELSE "bye"],
     tags    |-> {IF tagPresent THEN "yo" ELSE "cya"},
     created |-> IF creationTimeRange THEN 39 ELSE -61],
    [doubles |-> {[arg |-> "a", min |-> -1, max |-> 1, bounds |-> EXCLUDE_NONE]},
     strings |-> {[arg |-> "b", value |-> "hi"]},
     tags    |-> {"yo"},
     created |-> [start |-> 30, end |-> 54, bounds |-> EXCLUDE_NONE]])

IncludedTestCases ==
  {SimpleDoubleRange(5, 0, 10, b) : b \in AllBounds}
  \cup {SimpleDoubleRange(5, 5, 5, EXCLUDE_NONE)}
  \cup {SimpleDoubleRange(Infinity, 0, Infinity, b) :
          b \in {EXCLUDE_NONE, EXCLUDE_MIN}}
  \cup {SimpleDoubleRange(-Infinity, -Infinity, 0, b) :
          b \in {EXCLUDE_NONE, EXCLUDE_MAX}}
  \cup {SimpleDoubleRange(v, 0, 1, EXCLUDE_NONE) : v \in {0, 1}}
  \cup {SimpleDoubleRange(1, 0, 1, EXCLUDE_MIN),
        SimpleDoubleRange(0, 0, 1, EXCLUDE_MAX)}
  \cup {SimpleDoubleRange(v, 0, 3, EXCLUDE_BOTH) : v \in {1, 2}}
  \cup {SimpleStringEquals("field", "value", "value"),
        SimpleTagPresent({"mytag"}, {"mytag"}),
        SimpleTagPresent({"A", "B", "C"}, {"A", "C", "B"}),
        MultipleFilters(TRUE, TRUE, TRUE, TRUE)}

\* The cases whose range is wrong whatever its bounds.
ExcludedWithAnyBounds ==
  {<<-1, 0, 10>>, <<11, 0, 10>>, <<5, NaN, 10>>, <<5, 0, NaN>>, <<5, NaN, NaN>>,
   <<NaN, 0, 10>>, <<NaN, -Infinity, Infinity>>, <<NaN, NaN, NaN>>}

\* The cases of a ticket that is nil.
ExcludedWithoutTicket ==
  {TestCase(NoAttributes,
            SimpleDoubleRange(0, -Infinity, Infinity, EXCLUDE_NONE).pool),
   TestCase(NoAttributes, SimpleStringEquals("field", "value", "value").pool),
   TestCase(NoAttributes, SimpleTagPresent({}, {"value"}).pool)}

ExcludedTestCases ==
  ExcludedWithoutTicket
  \cup {[SimpleDoubleRange(0, -Infinity, Infinity, EXCLUDE_NONE) EXCEPT
           !.attributes.doubles = [otherfield |-> 0]]}
  \cup {SimpleDoubleRange(5, 5, 5, b) : b \in AllBounds \ {EXCLUDE_NONE}}
  \cup {SimpleDoubleRange(c[1], c[2], c[3], b) :
          c \in ExcludedWithAnyBounds, b \in AllBounds}
  \cup {SimpleDoubleRange(Infinity, 0, Infinity, b) :
          b \in {EXCLUDE_MAX, EXCLUDE_BOTH}}
  \cup {SimpleDoubleRange(-Infinity, -Infinity, 0, b) :
          b \in {EXCLUDE_MIN, EXCLUDE_BOTH}}
  \cup {SimpleDoubleRange(1, 0, 1, EXCLUDE_MAX),
        SimpleDoubleRange(0, 0, 1, EXCLUDE_MIN),
        SimpleDoubleRange(0, 0, 1, EXCLUDE_BOTH),
        SimpleDoubleRange(1, 0, 1, EXCLUDE_BOTH)}
  \cup {SimpleStringEquals("field", "value", "VALUE"),
        SimpleStringEquals("otherfield", "othervalue", "value"),
        SimpleTagPresent({"MYTAG"}, {"mytag"}),
        SimpleTagPresent({"A", "B", "C"}, {"A", "D", "C"})}
  \cup {MultipleFilters(FALSE, TRUE, TRUE, TRUE),
        MultipleFilters(TRUE, FALSE, TRUE, TRUE),
        MultipleFilters(TRUE, TRUE, FALSE, TRUE),
        MultipleFilters(TRUE, TRUE, TRUE, FALSE)}

=============================================================================
