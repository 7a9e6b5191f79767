----------------------------- MODULE MCInvokeMmf ----------------------------
EXTENDS InvokeMmf, TLC

CONSTANTS m1, m2, x1, x2, t1, t2

\* Two MMFs, each of which may return a match with t1.  The last ticket of x1 is
\* contested.
MCMmf       == {m1, m2}
MCMatch     == {x1, x2}
MCTicket    == {t1, t2}
MCMatchesOf == (m1 :> {x1}) @@ (m2 :> {x2})
MCTicketsOf == (x1 :> <<t1, t2>>) @@ (x2 :> <<t1>>)
MCContested == {t2}

\* The same with a match without tickets.
MCEmptyRoster == (x1 :> <<t1, t2>>) @@ (x2 :> << >>)

=============================================================================
