------------------------------ MODULE Schedule -------------------------------
(***************************************************************************)
(* crontab/schedule.go: parse turns a five-field spec into lookup tables,  *)
(* field by field, term by term, bit by bit; match asks the tables about a *)
(* moment.  The text of a term is taken apart already: its range part is   *)
(* "*", a value or two values, with or without a step.                     *)
(***************************************************************************)
EXTENDS Integers, Sequences

CONSTANTS Specs,   \* the specs: sequences of fields, a field a sequence of terms
          Moments, \* the moments match is asked about
          MaxInt   \* math.MaxInt, scaled down: TLC's own integers are 32 bits

\* The bounds of minute, hour, day-of-month, month, day-of-week.
MinVal == <<0, 0, 1, 1, 0>>
MaxVal == <<59, 23, 31, 12, 7>>
Dom == 3
Dow == 5

\* What strconv.Atoi does not read.  A minus sign never gets as far: the range
\* part is cut at it, and a negative step is refused like a zero one.
NotANumber == -1

Terms == [kind : {"star", "value", "range"}, lo : Int, hi : Int,
          hasStep : BOOLEAN, step : Int]

ASSUME MaxIntHoldsFields == MaxInt \in Nat /\ MaxInt > 59
ASSUME SpecsAreFields == Specs \subseteq Seq(Seq(Terms) \ {<<>>})
ASSUME MomentsAreTimes ==
    \A t \in Moments : /\ t \in [1 .. 5 -> Nat] /\ t[Dow] < 7
                       /\ \A f \in 1 .. 5 : t[f] \in MinVal[f] .. MaxVal[f]

VARIABLES
    spec,    \* the spec under parse
    pc,      \* where parse stands: start, term, bits, ok, error or panicked
    field,   \* the field's index
    term,    \* the term's index in it
    v, hi,   \* parseTerm's loop variable and its limit
    step,    \* parseTerm's step
    table    \* the values set so far in each field's lookup table

vars == <<spec, pc, field, term, v, hi, step, table>>

Init ==
    /\ spec \in Specs
    /\ pc = "start"
    /\ field = 1 /\ term = 1
    /\ v = 0 /\ hi = 0 /\ step = 1
    /\ table = [f \in 1 .. 5 |-> {}]

\* len(fields) != 5
CountFields ==
    /\ pc = "start"
    /\ pc' = IF Len(spec) = 5 THEN "term" ELSE "error"
    /\ UNCHANGED <<spec, field, term, v, hi, step, table>>

Current == spec[field][term]

\* Atoi accepts what an int can hold.
Atoi(n) == n # NotANumber /\ n <= MaxInt

parseValue(n, f) == Atoi(n) /\ n >= MinVal[f] /\ n <= MaxVal[f]

\* Mutant of RangeOK: a reversed range is an empty one.
RangeOKReversed(t, f) ==
    \/ t.kind = "star"
    \/ t.kind = "value" /\ parseValue(t.lo, f)
    \/ t.kind = "range" /\ parseValue(t.lo, f) /\ parseValue(t.hi, f)

\* Does parseRange accept a term's range part, and with which bounds?
RangeOK(t, f) ==
    \/ t.kind = "star"
    \/ t.kind = "value" /\ parseValue(t.lo, f)
    \/ t.kind = "range" /\ parseValue(t.lo, f) /\ parseValue(t.hi, f) /\ t.lo <= t.hi

RangeLo(t, f) == IF t.kind = "star" THEN MinVal[f] ELSE t.lo

\* A value with a step is open upwards: a/N is a-max/N.
RangeHi(t, f) ==
    CASE t.kind = "star"  -> MaxVal[f]
      [] t.kind = "range" -> t.hi
      [] OTHER            -> IF t.hasStep THEN MaxVal[f] ELSE t.lo

\* Mutant of StepOK: a step of zero is a number, too.
StepOKZero(t) == t.hasStep => Atoi(t.step) /\ t.step >= 0

\* A step is a positive number: with zero the loop below would not end.
StepOK(t) == t.hasStep => Atoi(t.step) /\ t.step > 0
StepOf(t) == IF t.hasStep THEN t.step ELSE 1

\* parseTerm up to its loop.
ParseTerm ==
    /\ pc = "term"
    /\ term <= Len(spec[field])
    /\ IF StepOK(Current) /\ RangeOK(Current, field)
       THEN /\ pc' = "bits"
            /\ v' = RangeLo(Current, field)
            /\ hi' = RangeHi(Current, field)
            /\ step' = StepOf(Current)
       ELSE pc' = "error" /\ UNCHANGED <<v, hi, step>>
    /\ UNCHANGED <<spec, field, term, table>>

\* int addition.
Plus(a, b) == IF a + b > MaxInt THEN a + b - 2 * (MaxInt + 1) ELSE a + b

\* set[v] = true; v += step
SetBit ==
    /\ pc = "bits"
    /\ v <= hi /\ v >= 0
    /\ table' = [table EXCEPT ![field] = @ \cup {v}]
    /\ v' = Plus(v, step)
    /\ UNCHANGED <<spec, pc, field, term, hi, step>>

\* set[v] for a v that has wrapped around: an index out of range.
SetBitPanics ==
    /\ pc = "bits"
    /\ v < 0
    /\ pc' = "panicked"
    /\ UNCHANGED <<spec, field, term, v, hi, step, table>>

BitsDone ==
    /\ pc = "bits"
    /\ v > hi
    /\ pc' = "term"
    /\ term' = term + 1
    /\ UNCHANGED <<spec, field, v, hi, step, table>>

\* Day 7 of the week is day 0 as well.
SundayIsZero(dow) == IF 7 \in dow THEN dow \cup {0} ELSE dow

\* The field is through: on to the next, or to the finished schedule.
FieldDone ==
    /\ pc = "term"
    /\ term > Len(spec[field])
    /\ IF field < 5
       THEN field' = field + 1 /\ term' = 1 /\ UNCHANGED <<pc, table>>
       ELSE /\ pc' = "ok"
            /\ table' = [table EXCEPT ![Dow] = SundayIsZero(@)]
            /\ UNCHANGED <<field, term>>
    /\ UNCHANGED <<spec, v, hi, step>>

Next ==
    \/ CountFields \/ ParseTerm \/ SetBit \/ SetBitPanics \/ BitsDone \/ FieldDone

Spec == Init /\ [][Next]_vars

\* parse runs to its end: nothing in it waits.
FairSpec == Spec /\ WF_vars(Next)

\* Is the field's text "*" and nothing else?
Star(f) == Len(spec[f]) = 1 /\ spec[f][1].kind = "star" /\ ~spec[f][1].hasStep

\* Mutant of match: the two day fields must always agree.
matchBoth(t) == \A f \in 1 .. 5 : t[f] \in table[f]

\* A moment is its minute, hour, day of the month, month and weekday (0 to 6).
match(t) ==
    /\ \A f \in {1, 2, 4} : t[f] \in table[f]
    /\ IF ~Star(Dom) /\ ~Star(Dow)
       THEN t[Dom] \in table[Dom] \/ t[Dow] \in table[Dow]
       ELSE t[Dom] \in table[Dom] /\ t[Dow] \in table[Dow]

(***************************************************************************)
(* Properties                                                              *)
(***************************************************************************)
TypeOK ==
    /\ spec \in Specs
    /\ pc \in {"start", "term", "bits", "ok", "error", "panicked"}
    /\ field \in 1 .. 5
    /\ term \in Nat \ {0}
    /\ v \in -(MaxInt + 1) .. MaxInt
    /\ hi \in 0 .. MaxInt /\ step \in 1 .. MaxInt
    /\ table \in [1 .. 5 -> SUBSET Nat]
    /\ \A f \in 1 .. 5 : table[f] \subseteq 0 .. MaxVal[f]

\* The reference: what a term of field f means, if it means anything.
Meaning(t, f) ==
    {x \in MinVal[f] .. MaxVal[f] :
        CASE t.kind = "star"                 -> (x - MinVal[f]) % StepOf(t) = 0
          [] t.kind = "range"                -> /\ t.lo <= x /\ x <= t.hi
                                                /\ (x - t.lo) % StepOf(t) = 0
          [] t.kind = "value" /\ t.hasStep   -> t.lo <= x /\ (x - t.lo) % t.step = 0
          [] t.kind = "value" /\ ~t.hasStep  -> x = t.lo}

Malformed(t, f) ==
    \/ t.hasStep /\ ~(t.step > 0 /\ t.step <= MaxInt)
    \/ t.kind # "star" /\ t.lo \notin MinVal[f] .. MaxVal[f]
    \/ t.kind = "range" /\ (t.hi \notin MinVal[f] .. MaxVal[f] \/ t.hi < t.lo)

Means(f) == UNION {Meaning(spec[f][i], f) : i \in DOMAIN spec[f]}

\* The step leads past the largest int from the last value the term sets.
Overflows(t, f) == \E x \in Meaning(t, f) : x + StepOf(t) > MaxInt

HasMalformed == \E f \in 1 .. 5 : \E i \in DOMAIN spec[f] : Malformed(spec[f][i], f)
HasOverflow ==
    \E f \in 1 .. 5 : \E i \in DOMAIN spec[f] :
        ~Malformed(spec[f][i], f) /\ Overflows(spec[f][i], f)

\* A spec is accepted only if it has five fields and every term of them is well
\* formed, and refused only if that is not so.  parse panics on a well-formed term
\* whose step takes its loop variable past the largest int, and on no other.
AcceptsExactly ==
    /\ pc = "ok" => Len(spec) = 5 /\ ~HasMalformed /\ ~HasOverflow
    /\ pc = "error" => Len(spec) # 5 \/ HasMalformed
    /\ pc = "panicked" => Len(spec) = 5 /\ HasOverflow

\* An accepted spec fires at exactly the moments it means: every field by the
\* arithmetic of its ranges and steps, day 7 as Sunday, and the two day fields
\* by Vixie's rule: either of them when both are restricted, else both.
FiresExactly ==
    pc = "ok" =>
        \A t \in Moments :
            LET named(f) == t[f] \in Means(f)
                weekday == \E d \in Means(Dow) : d % 7 = t[Dow]
                days == IF Star(Dom) \/ Star(Dow) THEN named(Dom) /\ weekday
                        ELSE named(Dom) \/ weekday
            IN  match(t) <=> named(1) /\ named(2) /\ named(4) /\ days

\* parse comes to an end on every spec: no step is small enough to loop for ever.
ParseEnds == <>(pc \in {"ok", "error", "panicked"})

(***************************************************************************)
(* The inductive invariant behind the safety properties                    *)
(***************************************************************************)
Parsing == pc \in {"term", "bits"}

\* The terms that parse has behind it, and what those of a field mean.
Passed(f, i) == f < field \/ (f = field /\ i < term)
Behind(f) == UNION {Meaning(spec[f][i], f) : i \in {j \in DOMAIN spec[f] : Passed(f, j)}}

\* What the loop over the current term has set by now.
Begun(f) == IF pc = "bits" /\ f = field THEN {x \in Meaning(Current, f) : x < v} ELSE {}

PlaceSound ==
    /\ pc = "start" => field = 1 /\ term = 1
    /\ Parsing => Len(spec) = 5 /\ term <= Len(spec[field]) + 1
    /\ pc = "bits" => term <= Len(spec[field])

\* Whatever is behind is well formed and has not overflowed.
PassedSound ==
    Parsing => \A f \in 1 .. 5 : \A i \in DOMAIN spec[f] :
                 Passed(f, i) => ~Malformed(spec[f][i], f) /\ ~Overflows(spec[f][i], f)

\* The loop variable is a member of the term's progression, or has wrapped around.
LoopSound ==
    pc = "bits" =>
        /\ ~Malformed(Current, field)
        /\ hi = RangeHi(Current, field) /\ step = StepOf(Current)
        /\ IF v < 0 THEN Overflows(Current, field)
           ELSE \E k \in 0 .. MaxInt : v = RangeLo(Current, field) + k * step

\* The tables hold what the terms so far mean, and nothing else.
TableExact ==
    /\ pc = "start" => \A f \in 1 .. 5 : table[f] = {}
    /\ pc = "term" \/ (pc = "bits" /\ v >= 0) =>
         \A f \in 1 .. 5 : table[f] = Behind(f) \cup Begun(f)
    /\ pc = "ok" => \A f \in 1 .. 5 :
                      table[f] = IF f = Dow THEN SundayIsZero(Means(f)) ELSE Means(f)

IndInv ==
    TypeOK /\ PlaceSound /\ PassedSound /\ LoopSound /\ TableExact /\ AcceptsExactly
==============================================================================
