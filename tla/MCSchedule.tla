----------------------------- MODULE MCSchedule ------------------------------
(* Small instances of Schedule for TLC. *)
EXTENDS Schedule

Star1 == [kind |-> "star", lo |-> 0, hi |-> 0, hasStep |-> FALSE, step |-> 0]
Every(n) == [Star1 EXCEPT !.hasStep = TRUE, !.step = n]
Value(n) == [kind |-> "value", lo |-> n, hi |-> 0, hasStep |-> FALSE, step |-> 0]
From(n, s) == [Value(n) EXCEPT !.hasStep = TRUE, !.step = s]
Between(a, b) == [kind |-> "range", lo |-> a, hi |-> b, hasStep |-> FALSE, step |-> 0]
Stepping(a, b, s) == [Between(a, b) EXCEPT !.hasStep = TRUE, !.step = s]

Any == <<Star1>>

\* Specs that exercise the terms, in the month field: every value and every pair
\* of values around its bounds, steps at and past the edge, lists of two.
Edge == {NotANumber, 0, 1, 11, 12, 13}
Strides == {NotANumber, 0, 1, 5, 12, MaxInt - 12, MaxInt, MaxInt + 1}
OneTerm == {Star1} \cup {Value(n) : n \in Edge} \cup {Between(a, b) : a, b \in Edge}
           \cup {Every(s) : s \in Strides} \cup {From(n, s) : n \in Edge, s \in Strides}
           \cup {Stepping(a, 11, s) : a \in Edge, s \in Strides}
Listed == {<<t>> : t \in OneTerm} \cup {<<Value(2), t>> : t \in OneTerm}
MonthSpecs == {<<<<Value(0)>>, <<Value(0)>>, Any, m, Any>> : m \in Listed}
              \cup {<<Any, Any, Any, Any>>, <<Any, Any, Any, Any, Any, Any>>}
MonthMoments == {<<0, 0, 1, m, 0>> : m \in 1 .. 12}

\* Specs that exercise the day fields together, Sunday's two numbers included.
DomFields == {Any, <<Every(1)>>, <<Value(1)>>, <<Between(1, 7)>>, <<Value(1), Star1>>,
              <<From(2, 29)>>, <<Value(32)>>}
DowFields == {Any, <<Every(1)>>, <<Value(0)>>, <<Value(7)>>, <<Between(5, 7)>>,
              <<Value(1), Value(3)>>, <<From(1, 6)>>, <<Value(8)>>}
MinuteFields == {<<Value(0)>>, <<From(58, 1)>>, <<Value(60)>>}
DaySpecs == {<<m, <<Value(23)>>, dom, <<Value(12)>>, dow>> :
               m \in MinuteFields, dom \in DomFields, dow \in DowFields}
DayMoments == {<<m, 23, d, 12, w>> : m \in {0, 59}, d \in {1, 2, 8, 31}, w \in 0 .. 6}

\* Both.
AllSpecs == MonthSpecs \cup DaySpecs
AllMoments == MonthMoments \cup DayMoments
==============================================================================
