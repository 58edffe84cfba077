---------------------------- MODULE ScheduleProofs ----------------------------
(***************************************************************************)
(* For every spec and every moment: parse accepts exactly the well-formed  *)
(* specs, and an accepted one fires exactly when its text says.  The loop  *)
(* of parseTerm is an arithmetic progression; the reference says it with a *)
(* remainder, and the lemmas on numbers connect the two.                   *)
(***************************************************************************)
EXTENDS Schedule, SequenceTheorems, TLAPS

(***************************************************************************)
(* Numbers                                                                 *)
(***************************************************************************)
\* A remainder of zero is a multiple.
LEMMA Multiples ==
    ASSUME NEW s \in Nat \ {0}, NEW x \in Nat
    PROVE  x % s = 0 <=> \E k \in Nat : x = k * s
<1>1. ASSUME x % s = 0
      PROVE  \E k \in Nat : x = k * s
  <2>1. x = s * (x \div s) + (x % s) /\ x \div s \in Nat
    OBVIOUS
  <2> QED
    BY <1>1, <2>1
<1>2. ASSUME NEW k \in Nat
      PROVE  (k * s) % s = 0
  OBVIOUS
<1> QED
  BY <1>1, <1>2

\* The multiples of a number are one number apart.
LEMMA MultiplesApart ==
    ASSUME NEW s \in Nat \ {0}, NEW j \in Nat, NEW k \in Nat
    PROVE  /\ j * s \in Nat /\ k * s \in Nat /\ (k + 1) * s = k * s + s
           /\ j * s < k * s => j * s + s <= k * s
           /\ k <= k * s
<1>1. j * s < k * s => j + 1 <= k
  OBVIOUS
<1>2. j + 1 <= k => (j + 1) * s <= k * s
  OBVIOUS
<1> QED
  BY <1>1, <1>2

\* The bounds of the fields.
LEMMA FieldBounds ==
    ASSUME NEW f \in 1 .. 5
    PROVE  /\ MinVal[f] \in 0 .. 1 /\ MaxVal[f] \in 7 .. 59
           /\ f = Dow => MinVal[f] = 0 /\ MaxVal[f] = 7
  BY DEF MinVal, MaxVal, Dow

(***************************************************************************)
(* Terms                                                                   *)
(***************************************************************************)
\* parseTerm gets to its loop exactly on the terms that are well formed.
LEMMA AcceptedTerms ==
    ASSUME NEW t \in Terms, NEW f \in 1 .. 5
    PROVE  StepOK(t) /\ RangeOK(t, f) <=> ~Malformed(t, f)
  BY FieldBounds, MaxIntHoldsFields
     DEF Terms, StepOK, RangeOK, parseValue, Atoi, NotANumber, Malformed

\* The range and the step of a well-formed term.
LEMMA TermRange ==
    ASSUME NEW t \in Terms, NEW f \in 1 .. 5, ~Malformed(t, f)
    PROVE  /\ RangeLo(t, f) \in MinVal[f] .. MaxVal[f]
           /\ RangeHi(t, f) \in MinVal[f] .. MaxVal[f]
           /\ RangeLo(t, f) <= RangeHi(t, f) /\ StepOf(t) \in 1 .. MaxInt
  BY FieldBounds, MaxIntHoldsFields DEF Terms, RangeLo, RangeHi, StepOf, Malformed

\* What a well-formed term means, said of its range and its step.
LEMMA MeaningByRange ==
    ASSUME NEW t \in Terms, NEW f \in 1 .. 5, ~Malformed(t, f), NEW x
    PROVE  x \in Meaning(t, f) <=> /\ x \in RangeLo(t, f) .. RangeHi(t, f)
                                   /\ (x - RangeLo(t, f)) % StepOf(t) = 0
<1>1. /\ MinVal[f] \in Nat /\ MaxVal[f] \in Nat /\ t.lo \in Int /\ t.hi \in Int
      /\ t.kind \in {"star", "value", "range"} /\ t.hasStep \in BOOLEAN /\ t.step \in Int
  BY FieldBounds DEF Terms
<1>2. CASE t.kind = "star"
  BY <1>1, <1>2 DEF Meaning, RangeLo, RangeHi
<1>3. CASE t.kind = "range"
  BY <1>1, <1>3 DEF Meaning, RangeLo, RangeHi, Malformed
<1>4. CASE t.kind = "value" /\ t.hasStep
  BY <1>1, <1>4 DEF Meaning, RangeLo, RangeHi, StepOf, Malformed
<1>5. CASE t.kind = "value" /\ ~t.hasStep
  <2>1. /\ RangeLo(t, f) = t.lo /\ RangeHi(t, f) = t.lo /\ StepOf(t) = 1
        /\ t.lo \in MinVal[f] .. MaxVal[f]
    BY <1>1, <1>5 DEF RangeLo, RangeHi, StepOf, Malformed
  <2>2. x \in Meaning(t, f) <=> x = t.lo
    BY <1>1, <1>5, <2>1 DEF Meaning
  <2>3. x = t.lo <=> x \in t.lo .. t.lo /\ (x - t.lo) % 1 = 0
    BY <1>1
  <2> QED
    BY <2>1, <2>2, <2>3
<1> QED
  BY <1>1, <1>2, <1>3, <1>4, <1>5

\* What a well-formed term means is a progression from its low end.
LEMMA MeaningIsProgression ==
    ASSUME NEW t \in Terms, NEW f \in 1 .. 5, ~Malformed(t, f), NEW x
    PROVE  x \in Meaning(t, f) <=>
             /\ x \in Nat /\ x <= RangeHi(t, f)
             /\ \E k \in Nat : x = RangeLo(t, f) + k * StepOf(t)
<1>1. /\ RangeLo(t, f) \in Nat /\ RangeHi(t, f) \in Nat /\ StepOf(t) \in Nat \ {0}
  BY TermRange, FieldBounds, MaxIntHoldsFields
<1>2. ASSUME x \in Nat, RangeLo(t, f) <= x
      PROVE  (x - RangeLo(t, f)) % StepOf(t) = 0
               <=> \E k \in Nat : x = RangeLo(t, f) + k * StepOf(t)
  <2>1. x - RangeLo(t, f) \in Nat
    BY <1>1, <1>2
  <2>2. (x - RangeLo(t, f)) % StepOf(t) = 0
          <=> \E k \in Nat : x - RangeLo(t, f) = k * StepOf(t)
    BY <1>1, <2>1, Multiples
  <2>3. \A k \in Nat : x - RangeLo(t, f) = k * StepOf(t) <=> x = RangeLo(t, f) + k * StepOf(t)
    <3> TAKE k \in Nat
    <3>1. k * StepOf(t) \in Nat
      BY <1>1, MultiplesApart
    <3> QED
      BY <1>1, <1>2, <3>1
  <2> QED
    BY <2>2, <2>3
<1>3. ASSUME NEW k \in Nat, x = RangeLo(t, f) + k * StepOf(t)
      PROVE  RangeLo(t, f) <= x
  <2>1. k * StepOf(t) \in Nat
    BY <1>1, MultiplesApart
  <2> QED
    BY <1>1, <1>3, <2>1
<1> QED
  BY <1>1, <1>2, <1>3, MeaningByRange

(***************************************************************************)
(* The loop of parseTerm                                                   *)
(***************************************************************************)
\* The loop variable, within the range, is in the term's meaning; what the term means
\* and is below it is a step below, and the next value takes no meaning in between.
LEMMA LoopMembers ==
    ASSUME NEW t \in Terms, NEW f \in 1 .. 5, ~Malformed(t, f),
           NEW k \in Nat, NEW w \in Nat, w = RangeLo(t, f) + k * StepOf(t)
    PROVE  /\ w <= RangeHi(t, f) => w \in Meaning(t, f)
           /\ \A x \in Meaning(t, f) : x < w => x + StepOf(t) <= w
           /\ \A x \in Meaning(t, f) : x < w + StepOf(t) => x <= w
<1>1. /\ RangeLo(t, f) \in Nat /\ RangeHi(t, f) \in Nat /\ StepOf(t) \in Nat \ {0}
  BY TermRange, FieldBounds, MaxIntHoldsFields
<1>2. ASSUME NEW x \in Meaning(t, f)
      PROVE  /\ x < w => x + StepOf(t) <= w
             /\ x < w + StepOf(t) => x <= w
  <2>1. PICK j \in Nat : x = RangeLo(t, f) + j * StepOf(t)
    BY MeaningIsProgression
  <2> DEFINE a == j * StepOf(t)
             b == k * StepOf(t)
  <2>2. /\ a \in Nat /\ b \in Nat
        /\ a < b => a + StepOf(t) <= b
        /\ b < a => b + StepOf(t) <= a
    BY <1>1, MultiplesApart
  <2>3. x = RangeLo(t, f) + a /\ w = RangeLo(t, f) + b
    BY <2>1
  <2> HIDE DEF a, b
  <2> QED
    BY <1>1, <2>2, <2>3
<1>3. w <= RangeHi(t, f) => w \in Meaning(t, f)
  BY MeaningIsProgression
<1> QED
  BY <1>2, <1>3
(***************************************************************************)
(* The conjuncts of the invariant, one by one                              *)
(***************************************************************************)
\* The terms of a spec of five fields.
LEMMA TermsTyped ==
    ASSUME TypeOK, Len(spec) = 5, NEW f \in 1 .. 5
    PROVE  /\ spec[f] \in Seq(Terms) /\ Len(spec[f]) \in Nat
           /\ \A i \in DOMAIN spec[f] : spec[f][i] \in Terms
<1>1. spec \in Seq(Seq(Terms) \ {<<>>})
  BY SpecsAreFields DEF TypeOK
<1>2. spec[f] \in Seq(Terms)
  <2> DEFINE Fields == Seq(Terms) \ {<<>>}
  <2>1. spec \in Seq(Fields) /\ Fields \subseteq Seq(Terms)
    BY <1>1
  <2> HIDE DEF Fields
  <2>2. spec[f] \in Fields
    BY <2>1, ElementOfSeq
  <2> QED
    BY <2>1, <2>2
<1> QED
  BY <1>2

\* The term that parse is at.
LEMMA CurrentTyped ==
    ASSUME TypeOK, PlaceSound, Parsing, term <= Len(spec[field])
    PROVE  /\ Len(spec) = 5 /\ field \in 1 .. 5 /\ term \in DOMAIN spec[field]
           /\ Current \in Terms /\ Current = spec[field][term]
<1>1. Len(spec) = 5 /\ field \in 1 .. 5 /\ term \in Nat \ {0}
  BY DEF TypeOK, PlaceSound
<1>2. spec[field] \in Seq(Terms)
  BY <1>1, TermsTyped
<1>3. term \in DOMAIN spec[field]
  BY <1>1, <1>2
<1> QED
  BY <1>1, <1>3, TermsTyped DEF Current

\* Addition of ints that are not negative: exact, or negative.
LEMMA PlusWraps ==
    ASSUME NEW a \in 0 .. MaxInt, NEW b \in 1 .. MaxInt
    PROVE  /\ Plus(a, b) \in -(MaxInt + 1) .. MaxInt
           /\ a + b <= MaxInt => Plus(a, b) = a + b /\ Plus(a, b) > a
           /\ a + b > MaxInt => Plus(a, b) < 0
  BY MaxIntHoldsFields DEF Plus

\* The types: what the loop sets is within the field.
LEMMA StepTypeOK ==
    ASSUME IndInv, [Next]_vars
    PROVE  TypeOK'
<1>1. TypeOK /\ PlaceSound /\ LoopSound
  BY DEF IndInv
<1>2. CASE UNCHANGED vars
  BY <1>1, <1>2 DEF TypeOK, vars
<1>3. CASE CountFields
  BY <1>1, <1>3 DEF TypeOK, CountFields
<1>4. CASE ParseTerm
  <2>1. CASE StepOK(Current) /\ RangeOK(Current, field)
    <3>1. Parsing /\ term <= Len(spec[field])
      BY <1>4 DEF ParseTerm, Parsing
    <3>2. Current \in Terms /\ field \in 1 .. 5
      BY <1>1, <3>1, CurrentTyped
    <3>3. ~Malformed(Current, field)
      BY <2>1, <3>2, AcceptedTerms
    <3>4. /\ RangeLo(Current, field) \in 0 .. MaxInt /\ RangeHi(Current, field) \in 0 .. MaxInt
          /\ StepOf(Current) \in 1 .. MaxInt
      BY <3>2, <3>3, TermRange, FieldBounds, MaxIntHoldsFields
    <3>5. /\ v' = RangeLo(Current, field) /\ hi' = RangeHi(Current, field)
          /\ step' = StepOf(Current) /\ pc' = "bits" /\ UNCHANGED <<spec, field, term, table>>
      BY <1>4, <2>1 DEF ParseTerm
    <3> QED
      BY <1>1, <3>4, <3>5, MaxIntHoldsFields DEF TypeOK
  <2>2. CASE ~(StepOK(Current) /\ RangeOK(Current, field))
    BY <1>1, <1>4, <2>2 DEF TypeOK, ParseTerm
  <2> QED
    BY <2>1, <2>2
<1>5. CASE SetBit
  <2>1. /\ pc = "bits" /\ v <= hi /\ v >= 0 /\ v' = Plus(v, step)
        /\ table' = [table EXCEPT ![field] = @ \cup {v}]
        /\ UNCHANGED <<spec, pc, field, term, hi, step>>
    BY <1>5 DEF SetBit
  <2>2. Current \in Terms /\ field \in 1 .. 5 /\ ~Malformed(Current, field)
    BY <1>1, <2>1, CurrentTyped DEF LoopSound, PlaceSound, Parsing
  <2>3. hi <= MaxVal[field]
    BY <1>1, <2>1, <2>2, TermRange, FieldBounds DEF LoopSound
  <2>4. v' \in -(MaxInt + 1) .. MaxInt
    <3>1. v \in 0 .. MaxInt /\ step \in 1 .. MaxInt
      BY <1>1, <2>1, MaxIntHoldsFields DEF TypeOK
    <3> QED
      BY <2>1, <3>1, PlusWraps
  <2>5. v \in 0 .. MaxVal[field] /\ v \in Nat
    BY <1>1, <2>1, <2>2, <2>3, FieldBounds, MaxIntHoldsFields DEF TypeOK
  <2>6. table' \in [1 .. 5 -> SUBSET Nat]
    BY <1>1, <2>1, <2>5 DEF TypeOK
  <2>7. \A f \in 1 .. 5 : table'[f] \subseteq 0 .. MaxVal[f]
    BY <1>1, <2>1, <2>5 DEF TypeOK
  <2> QED
    BY <1>1, <2>1, <2>4, <2>6, <2>7 DEF TypeOK
<1>6. CASE SetBitPanics
  BY <1>1, <1>6 DEF TypeOK, SetBitPanics
<1>7. CASE BitsDone
  BY <1>1, <1>7 DEF TypeOK, BitsDone
<1>8. CASE FieldDone
  <2>1. CASE field < 5
    BY <1>1, <1>8, <2>1 DEF TypeOK, FieldDone
  <2>2. CASE ~(field < 5)
    <3>1. /\ pc' = "ok" /\ table' = [table EXCEPT ![Dow] = SundayIsZero(table[Dow])]
          /\ UNCHANGED <<spec, field, term, v, hi, step>>
      BY <1>8, <2>2 DEF FieldDone
    <3>2. Dow \in 1 .. 5 /\ MaxVal[Dow] = 7
      BY DEF Dow, MaxVal
    <3>3. SundayIsZero(table[Dow]) \in SUBSET Nat /\ SundayIsZero(table[Dow]) \subseteq 0 .. 7
      BY <1>1, <3>2 DEF TypeOK, SundayIsZero
    <3>4. table' \in [1 .. 5 -> SUBSET Nat] /\ \A f \in 1 .. 5 : table'[f] \subseteq 0 .. MaxVal[f]
      BY <1>1, <3>1, <3>2, <3>3 DEF TypeOK
    <3> QED
      BY <1>1, <3>1, <3>4 DEF TypeOK
  <2> QED
    BY <2>1, <2>2
<1> QED
  BY <1>2, <1>3, <1>4, <1>5, <1>6, <1>7, <1>8 DEF Next

\* Where parse stands.
LEMMA StepPlaceSound ==
    ASSUME IndInv, [Next]_vars
    PROVE  PlaceSound'
<1>1. TypeOK /\ PlaceSound
  BY DEF IndInv
<1>2. CASE UNCHANGED vars
  BY <1>1, <1>2 DEF PlaceSound, Parsing, vars
<1>3. CASE CountFields
  <2>1. /\ spec' = spec /\ field' = 1 /\ term' = 1
        /\ pc' \in {"term", "error"} /\ (pc' = "term" => Len(spec) = 5)
    BY <1>1, <1>3 DEF CountFields, PlaceSound
  <2>2. Len(spec) = 5 => Len(spec[1]) \in Nat
    BY <1>1, TermsTyped
  <2> QED
    BY <2>1, <2>2 DEF PlaceSound, Parsing
<1>4. CASE ParseTerm
  BY <1>1, <1>4 DEF PlaceSound, Parsing, ParseTerm
<1>5. CASE SetBit
  BY <1>1, <1>5 DEF PlaceSound, Parsing, SetBit
<1>6. CASE SetBitPanics
  BY <1>6 DEF PlaceSound, Parsing, SetBitPanics
<1>7. CASE BitsDone
  <2>1. Len(spec) = 5 /\ field \in 1 .. 5 /\ term \in Nat /\ term <= Len(spec[field])
    BY <1>1, <1>7 DEF PlaceSound, Parsing, BitsDone, TypeOK
  <2>2. Len(spec[field]) \in Nat
    BY <1>1, <2>1, TermsTyped
  <2> QED
    BY <1>7, <2>1, <2>2 DEF PlaceSound, Parsing, BitsDone
<1>8. CASE FieldDone
  <2>1. Len(spec) = 5 /\ field \in 1 .. 5 /\ pc = "term"
    BY <1>1, <1>8 DEF PlaceSound, Parsing, FieldDone, TypeOK
  <2>2. field < 5 => Len(spec[field + 1]) \in Nat
    BY <1>1, <2>1, TermsTyped
  <2> QED
    BY <1>8, <2>1, <2>2 DEF PlaceSound, Parsing, FieldDone
<1> QED
  BY <1>2, <1>3, <1>4, <1>5, <1>6, <1>7, <1>8 DEF Next

\* The loop of parseTerm: a progression, until it is over or wraps around.
LEMMA StepLoopSound ==
    ASSUME IndInv, [Next]_vars
    PROVE  LoopSound'
<1>1. TypeOK /\ PlaceSound /\ LoopSound
  BY DEF IndInv
<1>2. CASE UNCHANGED vars
  BY <1>1, <1>2 DEF LoopSound, Current, vars
<1>3. ASSUME pc' # "bits"
      PROVE  LoopSound'
  BY <1>3 DEF LoopSound
<1>4. CASE ParseTerm /\ pc' = "bits"
  <2>1. /\ Parsing /\ term <= Len(spec[field]) /\ StepOK(Current) /\ RangeOK(Current, field)
        /\ v' = RangeLo(Current, field) /\ hi' = RangeHi(Current, field)
        /\ step' = StepOf(Current) /\ UNCHANGED <<spec, field, term>>
    BY <1>4 DEF ParseTerm, Parsing
  <2>2. Current \in Terms /\ field \in 1 .. 5 /\ Current' = Current
    BY <1>1, <2>1, CurrentTyped DEF Current
  <2>3. ~Malformed(Current, field)
    BY <2>1, <2>2, AcceptedTerms
  <2>4. RangeLo(Current, field) \in Nat /\ StepOf(Current) \in Nat
    BY <2>2, <2>3, TermRange, FieldBounds, MaxIntHoldsFields
  <2>5. 0 \in 0 .. MaxInt /\ v' = RangeLo(Current, field) + 0 * step' /\ ~(v' < 0)
    BY <2>1, <2>4, MaxIntHoldsFields
  <2> QED
    BY <2>1, <2>2, <2>3, <2>5 DEF LoopSound
<1>5. CASE SetBit
  <2>1. /\ pc = "bits" /\ v <= hi /\ v >= 0 /\ v' = Plus(v, step)
        /\ UNCHANGED <<spec, pc, field, term, hi, step>>
    BY <1>5 DEF SetBit
  <2>2. Current \in Terms /\ field \in 1 .. 5 /\ Current' = Current
    BY <1>1, <2>1, CurrentTyped DEF PlaceSound, Parsing, Current
  <2>3. /\ ~Malformed(Current, field)
        /\ hi = RangeHi(Current, field) /\ step = StepOf(Current)
        /\ v \in 0 .. MaxInt /\ step \in 1 .. MaxInt /\ v \in Nat /\ step \in Nat \ {0}
        /\ RangeLo(Current, field) \in Nat /\ RangeHi(Current, field) \in Nat
    BY <1>1, <2>1, <2>2, TermRange, FieldBounds, MaxIntHoldsFields DEF LoopSound, TypeOK
  <2>4. PICK k \in 0 .. MaxInt : v = RangeLo(Current, field) + k * step
    BY <1>1, <2>1, <2>3 DEF LoopSound
  <2>5. k \in Nat /\ k + 1 \in Nat
    BY <2>4, MaxIntHoldsFields
  <2>6. CASE v + step > MaxInt
    <3>1. v \in Meaning(Current, field)
      BY <2>1, <2>2, <2>3, <2>4, <2>5, LoopMembers
    <3>2. Overflows(Current, field)
      BY <2>3, <2>6, <3>1 DEF Overflows
    <3>3. v' < 0
      BY <2>1, <2>3, <2>6, PlusWraps
    <3> QED
      BY <2>1, <2>2, <2>3, <3>2, <3>3 DEF LoopSound
  <2>7. CASE v + step <= MaxInt
    <3>1. v' = v + step /\ v' \in Nat
      BY <2>1, <2>3, <2>7, PlusWraps
    <3>2. (k + 1) * step = k * step + step /\ k + 1 <= (k + 1) * step /\ k * step \in Nat
      BY <2>3, <2>5, MultiplesApart
    <3> DEFINE a == k * step
               b == (k + 1) * step
    <3>3. v = RangeLo(Current, field) + a /\ b = a + step /\ a \in Nat /\ k + 1 <= b
      BY <2>4, <3>2
    <3> HIDE DEF a, b
    <3>4. v' = RangeLo(Current, field) + b /\ k + 1 \in 0 .. MaxInt
      BY <2>3, <2>5, <2>7, <3>1, <3>3, MaxIntHoldsFields
    <3>5. \E m \in 0 .. MaxInt : v' = RangeLo(Current, field) + m * step
      BY <3>4 DEF b
    <3>6. ~(v' < 0)
      BY <3>1
    <3> QED
      BY <2>1, <2>2, <2>3, <3>5, <3>6 DEF LoopSound
  <2> QED
    BY <2>3, <2>6, <2>7, MaxIntHoldsFields
<1> QED
  BY <1>2, <1>3, <1>4, <1>5
     DEF Next, CountFields, SetBitPanics, BitsDone, FieldDone
\* A term is behind parse when its loop is over, and nothing else gets there.
LEMMA PassedSteps ==
    ASSUME IndInv, [Next]_vars, Parsing', NEW f \in 1 .. 5, NEW i \in DOMAIN spec[f]
    PROVE  /\ spec' = spec /\ Len(spec) = 5
           /\ BitsDone => (Passed(f, i)' <=> Passed(f, i) \/ (f = field /\ i = term))
           /\ ~BitsDone => (Passed(f, i)' <=> Passed(f, i))
<1>1. TypeOK /\ PlaceSound /\ PlaceSound' /\ field \in 1 .. 5 /\ term \in Nat \ {0}
  BY StepPlaceSound DEF IndInv, TypeOK
<1>2. spec' = spec
  BY DEF Next, CountFields, ParseTerm, SetBit, SetBitPanics, BitsDone, FieldDone, vars
<1>3. Len(spec) = 5 /\ i \in Nat \ {0} /\ i <= Len(spec[f])
  <2>1. Len(spec) = 5
    BY <1>1, <1>2 DEF PlaceSound
  <2>2. spec[f] \in Seq(Terms)
    BY <1>1, <2>1, TermsTyped
  <2> QED
    BY <2>1, <2>2
<1>4. CASE BitsDone
  <2>1. field' = field /\ term' = term + 1
    BY <1>4 DEF BitsDone
  <2> QED
    BY <1>1, <1>2, <1>3, <1>4, <2>1 DEF Passed
<1>5. CASE FieldDone
  <2>1. field' = field + 1 /\ term' = 1 /\ term > Len(spec[field]) /\ pc = "term"
    BY <1>5 DEF FieldDone, Parsing
  <2>2. Len(spec[field]) \in Nat
    BY <1>1, <1>3, TermsTyped
  <2>3. ~BitsDone
    BY <2>1 DEF BitsDone
  <2> QED
    BY <1>1, <1>2, <1>3, <2>1, <2>2, <2>3 DEF Passed
<1>6. CASE ~BitsDone /\ ~FieldDone
  <2>1. field' = field /\ term' = term
    BY <1>6 DEF Next, CountFields, ParseTerm, SetBit, SetBitPanics, vars
  <2> QED
    BY <1>2, <1>3, <1>6, <2>1 DEF Passed
<1> QED
  BY <1>4, <1>5, <1>6

\* The loop is over: all that the term means is in the table, and nothing overflowed.
LEMMA LoopOver ==
    ASSUME IndInv, BitsDone
    PROVE  /\ \A x \in Meaning(Current, field) : x < v
           /\ ~Malformed(Current, field) /\ ~Overflows(Current, field)
           /\ v >= 0 /\ Current \in Terms /\ term \in DOMAIN spec[field]
<1>1. TypeOK /\ PlaceSound /\ LoopSound /\ pc = "bits" /\ v > hi
  BY DEF IndInv, BitsDone
<1>2. Current \in Terms /\ field \in 1 .. 5 /\ term \in DOMAIN spec[field]
  BY <1>1, CurrentTyped DEF PlaceSound, Parsing
<1>3. /\ ~Malformed(Current, field)
      /\ hi = RangeHi(Current, field) /\ step = StepOf(Current)
      /\ hi \in Nat /\ step \in Nat \ {0} /\ v \in Nat /\ v <= MaxInt /\ MaxInt \in Nat
  BY <1>1, <1>2, MaxIntHoldsFields DEF LoopSound, TypeOK
<1>4. PICK k \in 0 .. MaxInt : v = RangeLo(Current, field) + k * step
  BY <1>1, <1>3 DEF LoopSound
<1>5. ASSUME NEW x \in Meaning(Current, field)
      PROVE  x < v /\ ~(x + step > MaxInt)
  <2>1. x \in Nat /\ x <= hi
    BY <1>2, <1>3, MeaningIsProgression
  <2>2. x < v
    BY <1>1, <1>3, <2>1
  <2>3. x + step <= v
    BY <1>2, <1>3, <1>4, <2>2, LoopMembers
  <2> QED
    BY <1>3, <2>1, <2>2, <2>3
<1>6. ~Overflows(Current, field)
  BY <1>3, <1>5 DEF Overflows
<1> QED
  BY <1>2, <1>3, <1>5, <1>6

\* Whatever is behind is well formed.
LEMMA StepPassedSound ==
    ASSUME IndInv, [Next]_vars
    PROVE  PassedSound'
<1> SUFFICES ASSUME Parsing', NEW f \in 1 .. 5, NEW i \in DOMAIN spec'[f], Passed(f, i)'
             PROVE  ~Malformed(spec'[f][i], f) /\ ~Overflows(spec'[f][i], f)
  BY DEF PassedSound
<1>1. spec' = spec
  BY DEF Next, CountFields, ParseTerm, SetBit, SetBitPanics, BitsDone, FieldDone, vars
<1>2. CASE Passed(f, i) /\ Parsing
  BY <1>1, <1>2 DEF IndInv, PassedSound
<1>3. CASE BitsDone /\ f = field /\ i = term
  BY <1>1, <1>3, LoopOver DEF Current
<1>4. CASE pc = "start"
  <2>1. ~Passed(f, i)
    <3>1. TypeOK /\ field = 1 /\ term = 1 /\ Len(spec) = 5
      BY <1>1, <1>4, StepPlaceSound DEF IndInv, PlaceSound
    <3>2. i \in Nat \ {0}
      BY <1>1, <3>1, TermsTyped
    <3> QED
      BY <3>1, <3>2 DEF Passed
  <2>2. ~BitsDone
    BY <1>4 DEF BitsDone
  <2> QED
    BY <1>1, <2>1, <2>2, PassedSteps
<1>5. Parsing \/ pc = "start"
  BY DEF Parsing, Next, CountFields, ParseTerm, SetBit, SetBitPanics, BitsDone, FieldDone,
         vars
<1> QED
  BY <1>1, <1>2, <1>3, <1>4, <1>5, PassedSteps
\* What is behind: the meaning of some term there.
LEMMA BehindMembers ==
    ASSUME NEW f, NEW x
    PROVE  x \in Behind(f) <=>
             \E i \in DOMAIN spec[f] : Passed(f, i) /\ x \in Meaning(spec[f][i], f)
  BY DEF Behind

\* The tables hold what the terms so far mean.
LEMMA StepTableExact ==
    ASSUME IndInv, [Next]_vars
    PROVE  TableExact'
<1>1. /\ TypeOK /\ PlaceSound /\ LoopSound /\ TableExact /\ field \in 1 .. 5
      /\ table \in [1 .. 5 -> SUBSET Nat]
  BY DEF IndInv, TypeOK
<1>2. CASE UNCHANGED vars
  <2>1. UNCHANGED <<spec, pc, field, term, v, table>>
    BY <1>2 DEF vars
  <2>2. \A f \in 1 .. 5 : Behind(f)' = Behind(f) /\ Begun(f)' = Begun(f) /\ Means(f)' = Means(f)
    BY <2>1 DEF Behind, Begun, Means, Passed, Current
  <2> QED
    BY <1>1, <2>1, <2>2 DEF TableExact
<1>3. CASE CountFields
  <2>1. /\ pc = "start" /\ pc' \in {"term", "error"} /\ UNCHANGED <<spec, table, field, term>>
        /\ field = 1 /\ term = 1 /\ (Len(spec) = 5 \/ pc' = "error")
    BY <1>1, <1>3 DEF CountFields, PlaceSound
  <2>2. ASSUME pc' = "term", NEW f \in 1 .. 5
        PROVE  Behind(f)' = {} /\ Begun(f)' = {} /\ table[f] = {}
    <3>1. spec[f] \in Seq(Terms)
      BY <1>1, <2>1, <2>2, TermsTyped
    <3>2. \A i \in DOMAIN spec[f] : ~Passed(f, i)
      BY <1>1, <1>3, <3>1 DEF Passed, PlaceSound, CountFields
    <3>3. \A i \in DOMAIN spec'[f] : ~Passed(f, i)'
      BY <2>1, <3>2 DEF Passed
    <3> QED
      BY <1>1, <2>1, <2>2, <3>3 DEF Behind, Begun, TableExact
  <2> QED
    BY <2>1, <2>2 DEF TableExact
<1>4. CASE ParseTerm
  <2>1. pc = "term" /\ pc' \in {"bits", "error"} /\ UNCHANGED <<spec, field, term, table>>
    BY <1>4 DEF ParseTerm
  <2>2. ASSUME pc' = "bits", NEW f \in 1 .. 5
        PROVE  Behind(f)' = Behind(f) /\ Begun(f)' = {} /\ Begun(f) = {}
    <3>1. Behind(f)' = Behind(f) /\ Begun(f) = {} /\ Current' = Current
      BY <2>1 DEF Behind, Passed, Begun, Current
    <3>2. /\ Parsing /\ term <= Len(spec[field]) /\ StepOK(Current) /\ RangeOK(Current, field)
          /\ v' = RangeLo(Current, field)
      BY <1>4, <2>2 DEF ParseTerm, Parsing
    <3>3. Current \in Terms /\ ~Malformed(Current, field)
      BY <1>1, <3>2, CurrentTyped, AcceptedTerms
    <3>4. \A x \in Meaning(Current, field) : ~(x < v')
      <4> TAKE x \in Meaning(Current, field)
      <4>1. x \in RangeLo(Current, field) .. RangeHi(Current, field)
        BY <1>1, <3>3, MeaningByRange
      <4>2. RangeLo(Current, field) \in Int /\ RangeHi(Current, field) \in Int
        BY <1>1, <3>3, TermRange, FieldBounds
      <4> QED
        BY <3>2, <4>1, <4>2
    <3> QED
      BY <2>1, <3>1, <3>4 DEF Begun
  <2> QED
    BY <1>1, <2>1, <2>2 DEF TableExact
<1>5. CASE SetBit
  <2>1. /\ pc = "bits" /\ v <= hi /\ v >= 0 /\ v' = Plus(v, step)
        /\ table' = [table EXCEPT ![field] = table[field] \cup {v}]
        /\ UNCHANGED <<spec, pc, field, term, hi, step>>
    BY <1>5 DEF SetBit
  <2>2. Current \in Terms /\ Current' = Current
    BY <1>1, <2>1, CurrentTyped DEF PlaceSound, Parsing, Current
  <2>3. /\ ~Malformed(Current, field)
        /\ hi = RangeHi(Current, field) /\ step = StepOf(Current)
        /\ v \in 0 .. MaxInt /\ step \in 1 .. MaxInt /\ v \in Nat /\ step \in Nat \ {0}
    BY <1>1, <2>1, <2>2, MaxIntHoldsFields DEF LoopSound, TypeOK
  <2>4. PICK k \in 0 .. MaxInt : v = RangeLo(Current, field) + k * step
    BY <1>1, <2>1, <2>3 DEF LoopSound
  <2>5. k \in Nat
    BY <2>4, MaxIntHoldsFields
  <2>6. /\ v \in Meaning(Current, field)
        /\ \A x \in Meaning(Current, field) : x < v + step => x <= v
        /\ \A x \in Meaning(Current, field) : x \in Nat
    BY <1>1, <2>1, <2>2, <2>3, <2>4, <2>5, LoopMembers, MeaningIsProgression
  <2>7. \A f \in 1 .. 5 : Behind(f)' = Behind(f)
    BY <2>1 DEF Behind, Passed
  <2>8. ASSUME v' >= 0, NEW f \in 1 .. 5, f = field
        PROVE  Begun(f)' = Begun(f) \cup {v}
    <3>1. v' = v + step
      BY <2>1, <2>3, <2>8, PlusWraps, MaxIntHoldsFields
    <3>2. Begun(f) = {x \in Meaning(Current, field) : x < v}
      BY <2>1, <2>8 DEF Begun
    <3>3. Begun(f)' = {x \in Meaning(Current, field) : x < v + step}
      BY <2>1, <2>2, <2>8, <3>1 DEF Begun
    <3>4. \A x \in Meaning(Current, field) : x < v + step <=> x < v \/ x = v
      BY <2>3, <2>6
    <3> QED
      BY <2>6, <3>2, <3>3, <3>4
  <2>9. \A f \in 1 .. 5 : f # field => Begun(f)' = {} /\ Begun(f) = {} /\ table'[f] = table[f]
    BY <1>1, <2>1 DEF Begun
  <2>10. table'[field] = table[field] \cup {v}
    BY <1>1, <2>1
  <2>11. ASSUME v' >= 0, NEW f \in 1 .. 5
         PROVE  table'[f] = Behind(f)' \cup Begun(f)'
    <3>1. table[f] = Behind(f) \cup Begun(f)
      BY <1>1, <2>1 DEF TableExact
    <3>2. CASE f = field
      BY <2>7, <2>8, <2>10, <2>11, <3>1, <3>2
    <3>3. CASE f # field
      BY <2>7, <2>9, <3>1, <3>3
    <3> QED
      BY <3>2, <3>3
  <2> QED
    BY <2>1, <2>11 DEF TableExact
<1>6. CASE SetBitPanics
  BY <1>6 DEF SetBitPanics, TableExact
<1>7. CASE BitsDone
  <2>1. pc = "bits" /\ pc' = "term" /\ spec' = spec /\ table' = table /\ Parsing'
    BY <1>7 DEF BitsDone, Parsing
  <2>2. /\ \A x \in Meaning(Current, field) : x < v
        /\ v >= 0 /\ term \in DOMAIN spec[field] /\ Current = spec[field][term]
    BY <1>7, LoopOver DEF Current
  <2>3. ASSUME NEW f \in 1 .. 5
        PROVE  table'[f] = Behind(f)' \cup Begun(f)'
    <3>1. Begun(f)' = {} /\ table[f] = Behind(f) \cup Begun(f)
      BY <1>1, <2>1, <2>2 DEF Begun, TableExact
    <3>2. \A i \in DOMAIN spec[f] : Passed(f, i)' <=> Passed(f, i) \/ (f = field /\ i = term)
      BY <1>7, <2>1, PassedSteps
    <3>3. \A x : x \in Behind(f)' <=>
                   \E i \in DOMAIN spec[f] : Passed(f, i)' /\ x \in Meaning(spec[f][i], f)
      BY <2>1 DEF Behind
    <3>4. \A x : x \in Begun(f) <=> f = field /\ x \in Meaning(Current, f)
      BY <2>1, <2>2 DEF Begun
    <3>5. \A x : x \in Behind(f)' <=> x \in Behind(f) \/ x \in Begun(f)
      BY <2>2, <3>2, <3>3, <3>4, BehindMembers
    <3> QED
      BY <2>1, <3>1, <3>5
  <2> QED
    BY <2>1, <2>3 DEF TableExact
<1>8. CASE FieldDone
  <2>1. /\ pc = "term" /\ spec' = spec /\ term > Len(spec[field]) /\ Len(spec) = 5
        /\ \A f \in 1 .. 5 : table[f] = Behind(f) \cup Begun(f) /\ Begun(f) = {}
    BY <1>1, <1>8 DEF FieldDone, TableExact, PlaceSound, Parsing, Begun
  <2>2. CASE field < 5
    <3>1. pc' = "term" /\ table' = table /\ Parsing' /\ ~BitsDone
      BY <1>8, <2>1, <2>2 DEF FieldDone, Parsing, BitsDone
    <3>2. ASSUME NEW f \in 1 .. 5
          PROVE  Behind(f)' = Behind(f) /\ Begun(f)' = {}
      <4>1. \A i \in DOMAIN spec[f] : Passed(f, i)' <=> Passed(f, i)
        BY <3>1, PassedSteps
      <4> QED
        BY <2>1, <3>1, <4>1 DEF Behind, Begun
    <3> QED
      BY <2>1, <3>1, <3>2 DEF TableExact
  <2>3. CASE ~(field < 5)
    <3>1. /\ pc' = "ok" /\ field = 5
          /\ table' = [table EXCEPT ![Dow] = SundayIsZero(table[Dow])]
      BY <1>1, <1>8, <2>3 DEF FieldDone
    <3>2. ASSUME NEW f \in 1 .. 5
          PROVE  table[f] = Means(f) /\ Means(f)' = Means(f)
      <4>1. \A i \in DOMAIN spec[f] : Passed(f, i)
        <5>1. spec[f] \in Seq(Terms) /\ Len(spec[field]) \in Nat /\ term \in Nat
          BY <1>1, <2>1, TermsTyped DEF TypeOK
        <5> QED
          BY <2>1, <3>1, <5>1 DEF Passed
      <4>2. \A x : x \in Means(f) <=> \E i \in DOMAIN spec[f] : x \in Meaning(spec[f][i], f)
        BY DEF Means
      <4>3. Means(f)' = Means(f)
        BY <2>1 DEF Means
      <4>4. Behind(f) = Means(f)
        BY <4>1 DEF Behind, Means
      <4> QED
        BY <2>1, <4>3, <4>4
    <3> QED
      BY <1>1, <3>1, <3>2 DEF TableExact, Dow
  <2> QED
    BY <2>2, <2>3
<1> QED
  BY <1>2, <1>3, <1>4, <1>5, <1>6, <1>7, <1>8 DEF Next

\* What parse says of a spec is right.
LEMMA StepAcceptsExactly ==
    ASSUME IndInv, [Next]_vars
    PROVE  AcceptsExactly'
<1>1. /\ TypeOK /\ PlaceSound /\ PassedSound /\ LoopSound /\ AcceptsExactly
      /\ field \in 1 .. 5 /\ term \in Nat
  BY DEF IndInv, TypeOK
<1>2. spec' = spec /\ HasMalformed' = HasMalformed /\ HasOverflow' = HasOverflow
  BY DEF Next, CountFields, ParseTerm, SetBit, SetBitPanics, BitsDone, FieldDone, vars,
         HasMalformed, HasOverflow
<1>3. CASE pc' = pc
  BY <1>1, <1>2, <1>3 DEF AcceptsExactly
<1>4. CASE pc' \in {"term", "bits"}
  BY <1>4 DEF AcceptsExactly
<1>5. CASE CountFields /\ pc' = "error"
  BY <1>2, <1>5 DEF CountFields, AcceptsExactly
<1>6. CASE ParseTerm /\ pc' = "error"
  <2>1. Parsing /\ term <= Len(spec[field]) /\ ~(StepOK(Current) /\ RangeOK(Current, field))
    BY <1>6 DEF ParseTerm, Parsing
  <2>2. /\ Current \in Terms /\ term \in DOMAIN spec[field] /\ Current = spec[field][term]
    BY <1>1, <2>1, CurrentTyped
  <2>3. Malformed(spec[field][term], field)
    BY <1>1, <2>1, <2>2, AcceptedTerms
  <2>4. HasMalformed
    BY <1>1, <2>2, <2>3 DEF HasMalformed
  <2> QED
    BY <1>2, <1>6, <2>4 DEF AcceptsExactly
<1>7. CASE SetBitPanics
  <2>1. pc = "bits" /\ v < 0 /\ pc' = "panicked" /\ Parsing /\ term <= Len(spec[field])
    BY <1>1, <1>7 DEF SetBitPanics, Parsing, PlaceSound
  <2>2. Len(spec) = 5 /\ term \in DOMAIN spec[field] /\ Current = spec[field][term]
    BY <1>1, <2>1, CurrentTyped
  <2>3. ~Malformed(spec[field][term], field) /\ Overflows(spec[field][term], field)
    BY <1>1, <2>1, <2>2 DEF LoopSound
  <2>4. HasOverflow
    BY <1>1, <2>2, <2>3 DEF HasOverflow
  <2> QED
    BY <1>2, <2>1, <2>2, <2>4 DEF AcceptsExactly
<1>8. CASE FieldDone /\ pc' = "ok"
  <2>1. pc = "term" /\ Parsing /\ term > Len(spec[field]) /\ Len(spec) = 5 /\ ~(field < 5)
    BY <1>1, <1>8 DEF FieldDone, Parsing, PlaceSound
  <2>2. \A f \in 1 .. 5 : \A i \in DOMAIN spec[f] : Passed(f, i)
    <3> TAKE f \in 1 .. 5
    <3> TAKE i \in DOMAIN spec[f]
    <3>1. spec[f] \in Seq(Terms) /\ Len(spec[field]) \in Nat
      BY <1>1, <2>1, TermsTyped
    <3>2. i \in 1 .. Len(spec[f]) /\ field = 5
      BY <1>1, <2>1, <3>1
    <3> QED
      BY <1>1, <2>1, <3>1, <3>2 DEF Passed
  <2>3. ~HasMalformed /\ ~HasOverflow
    BY <1>1, <2>1, <2>2 DEF PassedSound, HasMalformed, HasOverflow
  <2> QED
    BY <1>2, <1>8, <2>1, <2>3 DEF AcceptsExactly
<1> QED
  BY <1>3, <1>4, <1>5, <1>6, <1>7, <1>8
     DEF Next, CountFields, ParseTerm, SetBit, BitsDone, FieldDone, vars

(***************************************************************************)
(* The invariant                                                           *)
(***************************************************************************)
\* Before it begins, parse has nothing behind it and nothing in its tables.
LEMMA InitIndInv == Init => IndInv
  BY MaxIntHoldsFields
     DEF Init, IndInv, TypeOK, PlaceSound, PassedSound, LoopSound, TableExact,
         AcceptsExactly, Parsing

\* Every step keeps the invariant.
LEMMA NextIndInv == IndInv /\ [Next]_vars => IndInv'
  BY StepTypeOK, StepPlaceSound, StepPassedSound, StepLoopSound, StepTableExact,
     StepAcceptsExactly DEF IndInv

\* IndInv is an invariant of parse, whatever the spec.
THEOREM ScheduleInvariant == Spec => []IndInv
  BY InitIndInv, NextIndInv, PTL DEF Spec

\* parse accepts a spec only if all of its terms are well formed, refuses it only if
\* one is not, and panics only on a step that takes the loop past the largest int.
THEOREM ScheduleAcceptsExactly == Spec => []AcceptsExactly
<1>1. IndInv => AcceptsExactly
  BY DEF IndInv
<1> QED
  BY <1>1, ScheduleInvariant, PTL

\* An accepted spec fires at exactly the moments it means.
THEOREM ScheduleFiresExactly == Spec => []FiresExactly
<1>1. IndInv => FiresExactly
  <2> SUFFICES ASSUME IndInv, pc = "ok", NEW t \in Moments
               PROVE  match(t) <=>
                        /\ t[1] \in Means(1) /\ t[2] \in Means(2) /\ t[4] \in Means(4)
                        /\ IF Star(Dom) \/ Star(Dow)
                           THEN t[Dom] \in Means(Dom) /\ \E d \in Means(Dow) : d % 7 = t[Dow]
                           ELSE t[Dom] \in Means(Dom) \/ \E d \in Means(Dow) : d % 7 = t[Dow]
    BY DEF FiresExactly
  <2>1. \A f \in 1 .. 5 : table[f] = IF f = Dow THEN SundayIsZero(Means(f)) ELSE Means(f)
    BY DEF IndInv, TableExact
  <2>2. /\ table[1] = Means(1) /\ table[2] = Means(2) /\ table[4] = Means(4)
        /\ table[Dom] = Means(Dom) /\ table[Dow] = SundayIsZero(Means(Dow))
    BY <2>1 DEF Dom, Dow
  <2>3. t[Dow] \in table[Dow] <=> \E d \in Means(Dow) : d % 7 = t[Dow]
    <3>1. t[Dow] \in 0 .. 6
      BY MomentsAreTimes, FieldBounds DEF Dow
    <3>2. Means(Dow) \subseteq 0 .. 7
      <4>1. MinVal[Dow] = 0 /\ MaxVal[Dow] = 7
        BY DEF MinVal, MaxVal, Dow
      <4>2. ASSUME NEW u
            PROVE  Meaning(u, Dow) \subseteq 0 .. 7
        BY <4>1 DEF Meaning
      <4> QED
        BY <4>2 DEF Means
    <3>3. \A d \in 0 .. 7 : d % 7 = t[Dow] <=> d = t[Dow] \/ (d = 7 /\ t[Dow] = 0)
      BY <3>1
    <3> QED
      BY <2>2, <3>1, <3>2, <3>3 DEF SundayIsZero
  <2> QED
    BY <2>2, <2>3 DEF match
<1> QED
  BY <1>1, ScheduleInvariant, PTL
==============================================================================
