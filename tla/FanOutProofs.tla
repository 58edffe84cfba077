---------------------------- MODULE FanOutProofs -----------------------------
(***************************************************************************)
(* After Wait main sees everything, and slices handed out never change,    *)
(* for any functions, any Do calls and any programs.                       *)
(***************************************************************************)
EXTENDS FanOut, FiniteSetTheorems, FunctionTheorems, SequenceTheorems, TLAPS

USE DEF wgVars, progVars, aggVars, readVars

\* What the programs are, operation by operation and argument by argument.
LEMMA ProgFacts ==
  /\ \A f \in Funcs : Prog[f] \in Seq([op : Ops, args : Seq(Values \cup {Nil})])
  /\ \A f \in Funcs : \A o \in DOMAIN Prog[f] :
       /\ o \in Nat /\ o >= 1 /\ Prog[f][o].op \in Ops
       /\ Prog[f][o].args \in Seq(Values \cup {Nil})
  /\ \A f \in Funcs : \A o \in Nat : Args(f, o) \subseteq Nat
  /\ \A f \in Funcs : \A o \in DOMAIN Prog[f] : \A i \in Args(f, o) :
       Prog[f][o].args[i] \in Values \cup {Nil}
  <1>1. \A f \in Funcs : Prog[f] \in Seq([op : Ops, args : Seq(Values \cup {Nil})])
    BY ProgTyped
  <1>2. ASSUME NEW f \in Funcs, NEW o \in DOMAIN Prog[f]
        PROVE  /\ o \in Nat /\ o >= 1 /\ Prog[f][o].op \in Ops
               /\ Prog[f][o].args \in Seq(Values \cup {Nil})
    <2>1. o \in 1 .. Len(Prog[f])
      BY <1>1, LenProperties
    <2>2. Prog[f][o] \in [op : Ops, args : Seq(Values \cup {Nil})]
      BY <1>1, <2>1, ElementOfSeq
    <2>3. QED
      BY <2>1, <2>2
  <1>3. ASSUME NEW f \in Funcs, NEW o \in DOMAIN Prog[f], NEW i \in Args(f, o)
        PROVE  i \in Nat /\ Prog[f][o].args[i] \in Values \cup {Nil}
    <2>1. i \in 1 .. Len(Prog[f][o].args)
      BY <1>2, <1>3, LenProperties DEF Args
    <2>2. QED
      BY <1>2, <2>1, ElementOfSeq
  <1>4. \A f \in Funcs : \A o \in Nat : Args(f, o) \subseteq Nat
    BY <1>3 DEF Args
  <1>5. QED
    BY <1>1, <1>2, <1>3, <1>4

\* The Do calls, their functions and their callers.
LEMMA DosFacts ==
  /\ \A d \in DOMAIN Dos : Dos[d] \in Seq(Funcs) /\ Len(Dos[d]) \in Nat
  /\ \A d \in DOMAIN Dos : DOMAIN Dos[d] = 1 .. Len(Dos[d])
  /\ \A d \in DOMAIN Dos : \A i \in DOMAIN Dos[d] : Dos[d][i] \in Funcs
  /\ \A d \in DOMAIN Dos : By[d] \in Funcs \cup {Main}
  <1>1. \A d \in DOMAIN Dos : Dos[d] \in Seq(Funcs)
    BY DosTyped, ElementOfSeq, LenProperties
  <1>2. QED
    BY <1>1, DosTyped, ElementOfSeq, LenProperties

\* append: the array it writes is the latest one, what was there before stays,
\* in that array and in all others, and the new error is the last.
LEMMA AppendFacts ==
  ASSUME TypeOK, LatestArray, NEW err \in ErrIds, AppendErr(err)
  PROVE  /\ arrays' \in Seq(Seq(ErrIds \cup {Nil}))
         /\ Errors' \in [arr : Nat \ {0}, len : Nat]
         /\ Errors'.len = Errors.len + 1
         /\ Errors'.arr = Len(arrays') /\ Errors'.len <= Len(arrays'[Errors'.arr])
         /\ Len(arrays) <= Len(arrays')
         /\ \A a \in 1 .. Len(arrays) :
              /\ Len(arrays'[a]) = Len(arrays[a])
              /\ \A i \in 1 .. Len(arrays[a]) :
                   a # Errors.arr \/ i <= Errors.len => arrays'[a][i] = arrays[a][i]
         /\ \A i \in 1 .. Errors.len : arrays'[Errors'.arr][i] = arrays[Errors.arr][i]
         /\ arrays'[Errors'.arr][Errors.len + 1] = err
  <1> DEFINE E == ErrIds \cup {Nil}
             a0 == Errors.arr
             n == Errors.len
             old == arrays[a0]
             size == Len(old)
             grown == IF size = 0 THEN 1 ELSE 2 * size
             new == [i \in 1 .. grown |->
                       IF i <= n THEN old[i] ELSE IF i = n + 1 THEN err ELSE Nil]
  <1>1. /\ arrays \in Seq(Seq(E)) /\ a0 \in Nat \ {0} /\ n \in Nat /\ err \in E
        /\ a0 = Len(arrays) /\ n <= size
    BY DEF TypeOK, LatestArray
  <1>2. /\ old \in Seq(E) /\ size \in Nat /\ Len(arrays) \in Nat
        /\ \A a \in 1 .. Len(arrays) : arrays[a] \in Seq(E)
    <2>1. \A a \in 1 .. Len(arrays) : arrays[a] \in Seq(E)
      BY <1>1, ElementOfSeq
    <2>2. a0 \in 1 .. Len(arrays) /\ Len(arrays) \in Nat
      BY <1>1, LenProperties
    <2>3. QED
      BY <2>1, <2>2, LenProperties
  <1> HIDE DEF E
  <1>3. CASE n < size
    <2>1. /\ arrays' = [arrays EXCEPT ![a0] = [old EXCEPT ![n + 1] = err]]
          /\ Errors' = [arr |-> a0, len |-> n + 1]
      BY <1>3 DEF AppendErr
    <2>2. /\ [old EXCEPT ![n + 1] = err] \in Seq(E)
          /\ Len([old EXCEPT ![n + 1] = err]) = size
      BY <1>1, <1>2, <1>3, ExceptSeq
    <2>3. arrays' \in Seq(Seq(E)) /\ Len(arrays') = Len(arrays)
      BY <1>1, <1>2, <2>1, <2>2, ExceptSeq
    <2>4. /\ arrays'[a0] = [old EXCEPT ![n + 1] = err]
          /\ \A a \in 1 .. Len(arrays) : a # a0 => arrays'[a] = arrays[a]
      BY <1>1, <1>2, <2>1, LenProperties
    <2>5. /\ arrays'[a0][n + 1] = err
          /\ \A i \in 1 .. size : i # n + 1 => arrays'[a0][i] = old[i]
      BY <1>1, <1>2, <1>3, <2>4, LenProperties
    <2>6. QED
      BY <1>1, <1>2, <1>3, <2>1, <2>2, <2>3, <2>4, <2>5 DEF E
  <1>4. CASE ~(n < size)
    <2>0. n = size /\ grown \in Nat /\ grown > n
      BY <1>1, <1>2, <1>4
    <2>1. /\ arrays' = Append(arrays, new)
          /\ Errors' = [arr |-> Len(arrays) + 1, len |-> n + 1]
      BY <1>4 DEF AppendErr
    <2>2. \A i \in 1 .. n : old[i] \in E
      BY <1>1, <1>2, ElementOfSeq
    <2>3. \A i \in 1 .. grown : new[i] \in E
      BY <1>1, <2>0, <2>2 DEF E
    <2>4. new \in Seq(E) /\ Len(new) = grown
      <3>1. new \in [1 .. grown -> E]
        BY <2>3
      <3> HIDE DEF new, grown
      <3>2. QED
        BY <2>0, <3>1
    <2>5. /\ arrays' \in Seq(Seq(E)) /\ Len(arrays') = Len(arrays) + 1
          /\ arrays'[Len(arrays) + 1] = new
          /\ \A a \in 1 .. Len(arrays) : arrays'[a] = arrays[a]
      BY <1>1, <1>2, <2>1, <2>4, AppendProperties
    <2>6. \A i \in 1 .. n : new[i] = old[i]
      BY <1>1, <2>0
    <2>7. new[n + 1] = err
      BY <1>1, <2>0
    <2> HIDE DEF new
    <2>8. Errors'.arr = Len(arrays') /\ Errors'.len = n + 1
      BY <2>1, <2>5
    <2>9. arrays'[Errors'.arr] = new /\ Len(arrays'[Errors'.arr]) >= n + 1
      <3>1. Errors'.arr = Len(arrays) + 1
        BY <2>1
      <3>2. arrays'[Errors'.arr] = new
        BY <2>5, <3>1
      <3>3. grown >= n + 1
        BY <1>1, <2>0
      <3>4. QED
        BY <2>4, <3>2, <3>3
    <2>10. \A a \in 1 .. Len(arrays) :
             /\ Len(arrays'[a]) = Len(arrays[a])
             /\ \A i \in 1 .. Len(arrays[a]) : arrays'[a][i] = arrays[a][i]
      BY <2>5
    <2>11. Errors' \in [arr : Nat \ {0}, len : Nat]
      BY <1>1, <1>2, <2>1
    <2>12. Len(arrays) <= Len(arrays')
      BY <1>2, <2>5
    <2> HIDE DEF grown
    <2>13. QED
      BY <1>1, <2>5, <2>6, <2>7, <2>8, <2>9, <2>10, <2>11, <2>12 DEF E
  <1>5. QED
    BY <1>3, <1>4

\* What a step of function f leaves alone: all other functions, the Do calls, the
\* readers; and f is launched and has not ended.
LEMMA FuncFrame ==
  ASSUME TypeOK, NEW f \in Funcs, FuncStep(f)
  PROVE  /\ func[f] \in {"run"} \cup Inside
         /\ func' \in [Funcs -> {"new", "run", "ended"} \cup Inside]
         /\ \A g \in Funcs \ {f} : func'[g] = func[g]
         /\ func'[f] \in {"run", "ended"} \cup Inside
         /\ next' = next /\ reader' = reader /\ keys' = keys /\ snaps' = snaps
         /\ (func'[f] # "ended" /\ wg' = wg) \/ FuncEnds(f)
  <1> USE DEF TypeOK, Inside
  <1>1. CASE Calls(f)
    BY <1>1 DEF Calls, Free
  <1>2. CASE JoinErr(f)
    BY <1>2 DEF JoinErr
  <1>3. CASE ListLock(f)
    BY <1>3 DEF ListLock
  <1>4. CASE ListWrite(f)
    BY <1>4 DEF ListWrite
  <1>5. CASE ListUnlock(f)
    BY <1>5 DEF ListUnlock
  <1>6. CASE Returns(f)
    BY <1>6 DEF Returns
  <1>7. CASE FuncEnds(f)
    BY <1>7 DEF FuncEnds, Free
  <1>8. CASE FuncPanics(f)
    BY <1>8 DEF FuncPanics, Free
  <1>9. QED
    BY <1>1, <1>2, <1>3, <1>4, <1>5, <1>6, <1>7, <1>8 DEF FuncStep

\* How far a function gets in one step: nowhere, to its next operation, or past an
\* argument whose turn it is.
LEMMA ProgFrame ==
  ASSUME TypeOK, NEW f \in Funcs, FuncStep(f)
  PROVE  \/ UNCHANGED <<at, rest, Errors, arrays, data>>
         \/ Returns(f)
         \/ func[f] = "joining" /\ JoinErr(f)
         \/ \E i \in Turns(f) :
              /\ func[f] \in {"locked", "writing"} /\ Passed(f, i)
              /\ UNCHANGED <<Errors, arrays>>
              /\ \/ Op(f) = "RemoveSlice" /\ data' = data \ {Arg(f, i)}
                 \/ Op(f) # "RemoveSlice" /\ data' = data \cup {Arg(f, i)}
  <1>1. CASE Calls(f)
    BY <1>1 DEF Calls
  <1>2. CASE JoinErr(f)
    BY <1>2 DEF JoinErr
  <1>3. CASE ListLock(f)
    BY <1>3 DEF ListLock
  <1>4. CASE ListWrite(f)
    <2>1. PICK i \in Turns(f) :
            \/ UNCHANGED progVars
            \/ /\ Op(f) # "RemoveSlice" /\ Arg(f, i) \in data
               /\ Passed(f, i)
      BY <1>4 DEF ListWrite
    <2>2. func[f] = "locked" /\ UNCHANGED <<Errors, arrays, data>>
      BY <1>4 DEF ListWrite
    <2>3. CASE UNCHANGED progVars
      BY <2>2, <2>3
    <2>4. CASE Op(f) # "RemoveSlice" /\ Arg(f, i) \in data /\ Passed(f, i)
      <3>1. data' = data \cup {Arg(f, i)}
        BY <2>2, <2>4
      <3>2. QED
        BY <2>2, <2>4, <3>1
    <2>5. QED
      BY <2>1, <2>3, <2>4
  <1>5. CASE ListUnlock(f)
    BY <1>5 DEF ListUnlock
  <1>6. CASE Returns(f)
    BY <1>6
  <1>7. CASE FuncEnds(f)
    BY <1>7 DEF FuncEnds
  <1>8. CASE FuncPanics(f)
    BY <1>8 DEF FuncPanics
  <1>9. QED
    BY <1>1, <1>2, <1>3, <1>4, <1>5, <1>6, <1>7, <1>8 DEF FuncStep

\* The steps that are no function's: a Do, Wait, Unwrap and Slice.
LEMMA OtherSteps ==
  ASSUME [Next]_vars
  PROVE  \/ \E f \in Funcs : FuncStep(f)
         \/ \E d \in DOMAIN Dos : DoAdd(d) \/ DoLaunch(d)
         \/ Wait
         \/ Unwrap
         \/ \E r \in Readers : Slice(r)
         \/ UNCHANGED vars
  BY DEF Next

\* They leave the programs, the arrays and the List alone.
LEMMA OtherFrame ==
  ASSUME [Next]_vars, ~ \E f \in Funcs : FuncStep(f)
  PROVE  UNCHANGED <<at, rest, Errors, arrays, data, mu>>
  BY DEF Next, DoAdd, DoLaunch, Wait, Unwrap, Slice, vars

\* A step keeps TypeOK.
LEMMA TypeStep ==
  ASSUME TypeOK, InOrder, LatestArray, [Next]_vars
  PROVE  TypeOK'
  <1>1. ASSUME NEW f \in Funcs, FuncStep(f) PROVE TypeOK'
    <2>1. /\ next' = next /\ reader' = reader /\ keys' = keys
          /\ func' \in [Funcs -> {"new", "run", "ended"} \cup Inside]
      BY <1>1, FuncFrame
    <2>2. mu' \in Funcs \cup {Nil}
      BY <1>1 DEF TypeOK, FuncStep, Calls, JoinErr, ListLock, ListWrite, ListUnlock,
        Returns, FuncEnds, FuncPanics
    <2>3. \A i : Passed(f, i) => /\ at' = at /\ rest' \in [Funcs -> SUBSET Nat]
                                 /\ \A g \in Funcs : rest'[g] \subseteq Args(g, at'[g])
      BY DEF Passed, TypeOK
    <2>4. CASE UNCHANGED <<at, rest, Errors, arrays, data>>
      BY <2>1, <2>2, <2>4 DEF TypeOK, Returned
    <2>5. CASE Returns(f)
      <3>1. at[f] + 1 \in Nat /\ at' = [at EXCEPT ![f] = at[f] + 1]
        BY <2>5 DEF TypeOK, Returns
      <3>2. at' \in [Funcs -> Nat] /\ at'[f] = at[f] + 1
        BY <3>1 DEF TypeOK
      <3>3. Args(f, at[f] + 1) \subseteq Nat
        BY <3>1, ProgFacts
      <3>4. /\ rest' \in [Funcs -> SUBSET Nat]
            /\ \A g \in Funcs : rest'[g] \subseteq Args(g, at'[g])
        BY <2>5, <3>1, <3>2, <3>3 DEF TypeOK, Returns
      <3>5. UNCHANGED <<Errors, arrays, data>>
        BY <2>5 DEF Returns
      <3>6. QED
        BY <2>1, <2>2, <3>2, <3>4, <3>5 DEF TypeOK
    <2>6. CASE func[f] = "joining" /\ JoinErr(f)
      <3>1. PICK i \in Turns(f) :
              /\ \/ UNCHANGED <<Errors, arrays>>
                 \/ AppendErr(Err(f, at[f], i))
              /\ Passed(f, i)
        BY <2>6 DEF JoinErr
      <3>2. i \in Nat /\ Err(f, at[f], i) \in ErrIds
        BY <3>1 DEF Turns, TypeOK, Err, ErrIds
      <3>3. /\ arrays' \in Seq(Seq(ErrIds \cup {Nil}))
            /\ Errors' \in [arr : Nat \ {0}, len : Nat]
        BY <3>1, <3>2, AppendFacts DEF TypeOK
      <3>4. UNCHANGED data
        BY <2>6 DEF JoinErr
      <3>5. QED
        BY <2>1, <2>2, <2>3, <3>1, <3>3, <3>4 DEF TypeOK
    <2>7. ASSUME NEW i \in Turns(f), func[f] \in {"locked", "writing"}, Passed(f, i),
                 UNCHANGED <<Errors, arrays>>,
                 data' = data \ {Arg(f, i)} \/ data' = data \cup {Arg(f, i)}
          PROVE  TypeOK'
      <3>1. at[f] \in DOMAIN Prog[f] /\ i \in Args(f, at[f])
        BY <2>7 DEF InOrder, Inside, Turns, TypeOK
      <3>2. Arg(f, i) \in Values \cup {Nil}
        BY <3>1, ProgFacts DEF Arg
      <3>3. data' \subseteq Values \cup {Nil}
        BY <2>7, <3>2 DEF TypeOK
      <3>4. QED
        BY <2>1, <2>2, <2>3, <2>7, <3>3 DEF TypeOK
    <2>8. QED
      BY <1>1, <2>4, <2>5, <2>6, <2>7, ProgFrame
  <1>2. CASE ~ \E f \in Funcs : FuncStep(f)
    <2>1. UNCHANGED <<at, rest, Errors, arrays, data, mu>>
      BY <1>2, OtherFrame
    <2> SUFFICES /\ next' \in [DOMAIN Dos -> Nat]
                 /\ \A d \in DOMAIN Dos : next'[d] <= Len(Dos[d]) + 1
                 /\ func' \in [Funcs -> {"new", "run", "ended"} \cup Inside]
                 /\ reader' \in [Readers -> {"wait", "slice", "done"}]
                 /\ keys' \in [Readers -> SUBSET (Values \cup {Nil})]
      BY <2>1 DEF TypeOK
    <2>2. ASSUME NEW d \in DOMAIN Dos, DoAdd(d)
          PROVE  /\ next' \in [DOMAIN Dos -> Nat]
                 /\ \A e \in DOMAIN Dos : next'[e] <= Len(Dos[e]) + 1
                 /\ UNCHANGED <<func, reader, keys>>
      BY <2>2, DosFacts DEF DoAdd, TypeOK
    <2>3. ASSUME NEW d \in DOMAIN Dos, DoLaunch(d)
          PROVE  /\ next' \in [DOMAIN Dos -> Nat]
                 /\ \A e \in DOMAIN Dos : next'[e] <= Len(Dos[e]) + 1
                 /\ func' \in [Funcs -> {"new", "run", "ended"} \cup Inside]
                 /\ UNCHANGED <<reader, keys>>
      <3>1. next[d] \in Nat /\ next[d] <= Len(Dos[d]) /\ next' = [next EXCEPT ![d] = next[d] + 1]
        BY <2>3, DosFacts DEF DoLaunch, TypeOK, Returned
      <3>2. next[d] + 1 \in Nat
        BY <3>1
      <3>3. QED
        BY <2>3, <3>1, <3>2, DosFacts DEF DoLaunch, TypeOK
    <2>4. CASE Wait
      BY <2>4 DEF Wait, TypeOK
    <2>5. CASE Unwrap
      BY <2>5 DEF Unwrap, TypeOK
    <2>6. ASSUME NEW r \in Readers, Slice(r)
          PROVE  /\ reader' \in [Readers -> {"wait", "slice", "done"}]
                 /\ keys' \in [Readers -> SUBSET (Values \cup {Nil})]
                 /\ UNCHANGED <<next, func>>
      <3>1. reader' \in [Readers -> {"wait", "slice", "done"}] /\ UNCHANGED <<next, func>>
        BY <2>6 DEF Slice, TypeOK
      <3>2. CASE UNCHANGED keys
        BY <3>1, <3>2 DEF TypeOK
      <3>3. ASSUME NEW k \in data, keys' = [keys EXCEPT ![r] = keys[r] \cup {k}]
            PROVE  keys' \in [Readers -> SUBSET (Values \cup {Nil})]
        <4>1. keys[r] \cup {k} \in SUBSET (Values \cup {Nil})
          BY DEF TypeOK
        <4>2. QED
          BY <3>3, <4>1 DEF TypeOK
      <3>4. QED
        BY <2>6, <3>1, <3>2, <3>3 DEF Slice
    <2>7. CASE UNCHANGED vars
      BY <2>7 DEF vars, TypeOK
    <2>8. QED
      BY <1>2, <2>2, <2>3, <2>4, <2>5, <2>6, <2>7, OtherSteps DEF TypeOK
  <1>3. QED
    BY <1>1, <1>2

\* The functions of a Do call are as many as its length.
LEMMA DoCount ==
  ASSUME NEW d \in DOMAIN Dos
  PROVE  LET T == {Dos[d][i] : i \in DOMAIN Dos[d]}
         IN  IsFiniteSet(T) /\ Cardinality(T) = Len(Dos[d])
  <1> DEFINE n == Len(Dos[d])
             T == {Dos[d][i] : i \in DOMAIN Dos[d]}
  <1>1. n \in Nat /\ DOMAIN Dos[d] = 1 .. n /\ Dos[d] \in [1 .. n -> T]
    BY DosFacts
  <1>2. \A i, j \in 1 .. n : Dos[d][i] = Dos[d][j] => i = j
    BY <1>1, EachOnce
  <1>3. \A t \in T : \E i \in 1 .. n : Dos[d][i] = t
    BY <1>1
  <1>4. Dos[d] \in Bijection(1 .. n, T)
    BY <1>1, <1>2, <1>3, Fun_IsBij
  <1>5. ExistsBijection(1 .. n, T)
    BY <1>4 DEF ExistsBijection
  <1>6. IsFiniteSet(1 .. n) /\ Cardinality(1 .. n) = n
    BY <1>1, FS_Interval
  <1>7. QED
    BY <1>5, <1>6, FS_Bijection

\* The functions under way are finitely many, before a step and after it.
LEMMA ActiveFinite == IsFiniteSet(Active) /\ IsFiniteSet(Active)'
  BY FuncsFinite, FS_Subset DEF Active

\* A step keeps Counted.
LEMMA CountedStep ==
  ASSUME TypeOK, Counted, [Next]_vars
  PROVE  Counted'
  <1> DEFINE In(f, d) == \E i \in DOMAIN Dos[d] : Dos[d][i] = f
  <1>1. ASSUME NEW f \in Funcs, FuncStep(f) PROVE Counted'
    <2>1. /\ func[f] # "new" /\ func[f] # "ended" /\ func'[f] # "new" /\ next' = next
          /\ \A g \in Funcs \ {f} : func'[g] = func[g]
      BY <1>1, FuncFrame DEF Inside
    <2>2. \A g \in Funcs : func'[g] # "new" <=> func[g] # "new"
      BY <2>1
    <2>3. \A g \in Funcs : func'[g] # "new" <=> \E d \in DOMAIN Dos : LaunchedBy(g, d)'
      BY <2>1, <2>2 DEF Counted, LaunchedBy
    <2>4. f \in Active
      <3>1. PICK d \in DOMAIN Dos : LaunchedBy(f, d)
        BY <2>1 DEF Counted
      <3>2. next[d] > 0
        BY <3>1, DosFacts DEF LaunchedBy, TypeOK
      <3>3. QED
        BY <2>1, <3>1, <3>2 DEF Active, LaunchedBy
    <2>5. CASE func'[f] # "ended" /\ wg' = wg
      <3>1. Active' = Active
        BY <2>1, <2>5 DEF Active
      <3>2. QED
        BY <2>3, <2>5, <3>1 DEF Counted
    <2>6. CASE FuncEnds(f)
      <3>1. func'[f] = "ended"
        BY <2>6 DEF FuncEnds, TypeOK
      <3>2. Active' = Active \ {f}
        BY <2>1, <3>1 DEF Active
      <3>3. Cardinality(Active') = Cardinality(Active) - 1
        BY <2>4, <3>2, ActiveFinite, FS_RemoveElement
      <3>4. wg' = wg - 1
        BY <2>6 DEF FuncEnds
      <3>5. QED
        BY <2>3, <3>3, <3>4 DEF Counted
    <2>7. QED
      BY <1>1, <2>5, <2>6, FuncFrame
  <1>2. ASSUME NEW d \in DOMAIN Dos, DoAdd(d) PROVE Counted'
    <2> DEFINE T == {Dos[d][i] : i \in DOMAIN Dos[d]}
    <2>1. /\ next[d] = 0 /\ next'[d] = 1 /\ func' = func
          /\ \A e \in DOMAIN Dos \ {d} : next'[e] = next[e]
          /\ wg' = wg + Len(Dos[d])
      BY <1>2 DEF DoAdd, Callable, TypeOK
    <2>2. \A g \in Funcs : \A e \in DOMAIN Dos : LaunchedBy(g, e)' <=> LaunchedBy(g, e)
      BY <2>1, DosFacts DEF LaunchedBy
    <2>3. \A g \in T : g \in Funcs /\ func[g] = "new" /\ g \notin Active
      <3>1. SUFFICES ASSUME NEW i \in DOMAIN Dos[d]
                     PROVE  LET g == Dos[d][i]
                            IN  g \in Funcs /\ func[g] = "new" /\ g \notin Active
        OBVIOUS
      <3>2. \A e \in DOMAIN Dos : In(Dos[d][i], e) => e = d
        BY EachOnce
      <3>3. ~ LaunchedBy(Dos[d][i], d)
        BY <2>1, DosFacts DEF LaunchedBy
      <3>4. QED
        BY <2>1, <3>2, <3>3, DosFacts DEF Counted, Active, LaunchedBy
    <2>4. Active' = Active \cup T
      <3>1. \A g \in Active' : g \in Active \cup T
        BY <2>1 DEF Active
      <3>2. \A g \in Active : g \in Active'
        BY <2>1 DEF Active
      <3>3. \A g \in T : g \in Active'
        BY <2>1, <2>3 DEF Active
      <3>4. QED
        BY <3>1, <3>2, <3>3
    <2>5. Active \cap T = {}
      BY <2>3
    <2>6. IsFiniteSet(T) /\ Cardinality(T) = Len(Dos[d])
      BY DoCount
    <2> HIDE DEF T
    <2>7. Cardinality(Active') = Cardinality(Active) + Len(Dos[d])
      <3>1. Cardinality(Active \cup T) = Cardinality(Active) + Cardinality(T) - Cardinality(Active \cap T)
        BY <2>6, ActiveFinite, FS_Union
      <3>2. Cardinality(Active \cap T) = 0
        BY <2>5, FS_EmptySet
      <3>3. Cardinality(Active) \in Nat /\ Len(Dos[d]) \in Nat
        BY ActiveFinite, FS_CardinalityType, DosFacts
      <3>4. QED
        BY <2>4, <2>6, <3>1, <3>2, <3>3
    <2>8. QED
      BY <2>1, <2>2, <2>7 DEF Counted
  <1>3. ASSUME NEW d \in DOMAIN Dos, DoLaunch(d) PROVE Counted'
    <2>1. PICK n \in Nat : n = next[d] /\ n > 0 /\ n <= Len(Dos[d])
      BY <1>3, DosFacts DEF DoLaunch, Returned, TypeOK
    <2>2. PICK f \in Funcs : n \in DOMAIN Dos[d] /\ f = Dos[d][n]
      BY <2>1, DosFacts
    <2>3. /\ func'[f] = "run" /\ \A g \in Funcs \ {f} : func'[g] = func[g]
          /\ next'[d] = n + 1 /\ \A e \in DOMAIN Dos \ {d} : next'[e] = next[e]
          /\ wg' = wg
      BY <1>3, <2>1, <2>2 DEF DoLaunch, TypeOK
    <2>4. \A e \in DOMAIN Dos : \A i \in DOMAIN Dos[e] : Dos[e][i] = f => e = d /\ i = n
      BY <2>2, EachOnce
    <2>5. func[f] = "new"
      <3>1. ~ \E e \in DOMAIN Dos : LaunchedBy(f, e)
        BY <2>1, <2>4 DEF LaunchedBy
      <3>2. QED
        BY <2>2, <3>1 DEF Counted
    <2>6. LaunchedBy(f, d)'
      BY <2>1, <2>2, <2>3 DEF LaunchedBy
    <2>7. \A g \in Funcs \ {f} : \A e \in DOMAIN Dos : LaunchedBy(g, e)' <=> LaunchedBy(g, e)
      <3>1. SUFFICES ASSUME NEW g \in Funcs \ {f}, NEW e \in DOMAIN Dos, NEW i \in DOMAIN Dos[e],
                            Dos[e][i] = g
                     PROVE  i < next'[e] <=> i < next[e]
        BY DEF LaunchedBy
      <3>2. e = d => i # n
        BY <2>2, <3>1
      <3>3. i \in Nat
        BY DosFacts
      <3>4. QED
        BY <2>1, <2>3, <3>2, <3>3
    <2>8. Active' = Active
      <3>1. \A e \in DOMAIN Dos : next'[e] > 0 <=> next[e] > 0
        BY <2>1, <2>3
      <3>2. \A g \in Funcs : func'[g] = "ended" <=> func[g] = "ended"
        BY <2>3, <2>5
      <3>3. QED
        BY <3>1, <3>2 DEF Active
    <2>9. \A g \in Funcs : func'[g] # "new" <=> \E e \in DOMAIN Dos : LaunchedBy(g, e)'
      BY <2>2, <2>3, <2>6, <2>7 DEF Counted
    <2>10. QED
      BY <2>3, <2>8, <2>9 DEF Counted
  <1>4. CASE Wait \/ Unwrap \/ (\E r \in Readers : Slice(r)) \/ UNCHANGED vars
    <2>1. UNCHANGED <<wg, next, func>>
      BY <1>4 DEF Wait, Unwrap, Slice, vars
    <2>2. QED
      BY <2>1 DEF Counted, LaunchedBy, Active
  <1>5. QED
    BY <1>1, <1>2, <1>3, <1>4, OtherSteps

\* After Wait every function that was launched has ended.
LEMMA AllEnded ==
  ASSUME TypeOK, Counted, Over, reader[Main] # "wait", NEW f \in Funcs, func[f] # "new"
  PROVE  func[f] = "ended"
  <1>1. PICK d \in DOMAIN Dos : \E i \in DOMAIN Dos[d] : Dos[d][i] = f /\ i < next[d]
    BY DEF Counted, LaunchedBy
  <1>2. next[d] > 0
    BY <1>1, DosFacts DEF TypeOK
  <1>3. QED
    BY <1>1, <1>2 DEF Over, NoneUnderWay

\* Once main is past its Wait no function runs, none will be launched, and no Do
\* will be called: all that is left are Unwrap and Slice.
LEMMA Quiet ==
  ASSUME TypeOK, Counted, Over, reader[Main] # "wait", [Next]_vars
  PROVE  UNCHANGED <<wg, next, func, at, rest, Errors, arrays, data>>
  <1>1. \A f \in Funcs : func[f] = "new" \/ func[f] = "ended"
    BY AllEnded
  <1>2. \A f \in Funcs : ~FuncStep(f)
    BY <1>1, FuncFrame DEF Inside
  <1>3. ASSUME NEW d \in DOMAIN Dos, DoAdd(d) PROVE FALSE
    <2>1. next[d] = 0 /\ ~Returned(d)
      BY <1>3, DosFacts DEF DoAdd, Callable, Returned
    <2>2. By[d] # Main
      BY <2>1 DEF Over
    <2>3. By[d] \in Funcs /\ func[By[d]] = "run"
      BY <1>3, <2>2, DosFacts DEF DoAdd, Callable, Free
    <2>4. QED
      BY <1>1, <2>3
  <1>4. ASSUME NEW d \in DOMAIN Dos, DoLaunch(d) PROVE FALSE
    <2>1. next[d] \in Nat /\ next[d] > 0 /\ next[d] <= Len(Dos[d])
      BY <1>4, DosFacts DEF DoLaunch, Returned, TypeOK
    <2>2. next[d] \in DOMAIN Dos[d] /\ Dos[d][next[d]] \in Funcs
      BY <2>1, DosFacts
    <2>3. func[Dos[d][next[d]]] = "ended"
      BY <2>1, <2>2 DEF Over, NoneUnderWay
    <2>4. PICK e \in DOMAIN Dos : LaunchedBy(Dos[d][next[d]], e)
      BY <2>2, <2>3 DEF Counted
    <2>5. PICK i \in DOMAIN Dos[e] : Dos[e][i] = Dos[d][next[d]] /\ i < next[e]
      BY <2>4 DEF LaunchedBy
    <2>6. e = d /\ i = next[d]
      BY <2>2, <2>5, EachOnce
    <2>7. QED
      BY <2>1, <2>5, <2>6
  <1>5. UNCHANGED <<wg, next, func>>
    BY <1>2, <1>3, <1>4, OtherSteps DEF Wait, Unwrap, Slice, vars
  <1>6. QED
    BY <1>2, <1>5, OtherFrame

\* A step keeps Over.
LEMMA OverStep ==
  ASSUME TypeOK, Counted, Over, [Next]_vars
  PROVE  Over'
  <1>1. CASE reader[Main] # "wait"
    BY <1>1, Quiet DEF Over, NoneUnderWay, Returned
  <1>2. CASE reader[Main] = "wait" /\ Wait
    <2>1. /\ wg = 0 /\ UNCHANGED <<next, func>>
          /\ \A d \in DOMAIN Dos : By[d] = Main => Returned(d)
      BY <1>2 DEF Wait
    <2>2. Active = {}
      BY <2>1, ActiveFinite, FS_EmptySet DEF Counted
    <2>3. NoneUnderWay
      BY <2>2, DosFacts DEF Active, NoneUnderWay
    <2>4. QED
      BY <2>1, <2>3 DEF Over, NoneUnderWay, Returned
  <1>3. CASE reader[Main] = "wait" /\ ~Wait
    <2>1. \A f \in Funcs : FuncStep(f) => reader' = reader
      BY FuncFrame
    <2>2. \A d \in DOMAIN Dos : DoAdd(d) \/ DoLaunch(d) => reader' = reader
      BY DEF DoAdd, DoLaunch
    <2>3. ASSUME NEW r \in Readers, Slice(r) PROVE reader'[Main] = reader[Main]
      BY <1>3, <2>3 DEF Slice, TypeOK, Readers
    <2>4. reader'[Main] = "wait"
      BY <1>3, <2>1, <2>2, <2>3, OtherSteps DEF Unwrap, vars
    <2>5. QED
      BY <2>4 DEF Over
  <1>4. QED
    BY <1>1, <1>2, <1>3

\* A step keeps InOrder.
LEMMA InOrderStep ==
  ASSUME TypeOK, InOrder, [Next]_vars
  PROVE  InOrder'
  <1> DEFINE In(f) == func[f] \in Inside =>
                        at[f] \in DOMAIN Prog[f] /\ (func[f] = "joining" <=> Op(f) = "Join")
             Up(f) == at[f] \in DOMAIN Prog[f] /\ Op(f) # "AddMapKeys" =>
                        \A i \in Args(f, at[f]) \ rest[f], j \in rest[f] : i < j
  <1>1. ASSUME NEW f \in Funcs, FuncStep(f) PROVE InOrder'
    <2>1. /\ \A g \in Funcs \ {f} : func'[g] = func[g]
          /\ func[f] \in {"run"} \cup Inside
      BY <1>1, FuncFrame
    <2>2. \A g \in Funcs \ {f} : at'[g] = at[g] /\ rest'[g] = rest[g]
      BY <1>1, ProgFrame DEF TypeOK, Returns, JoinErr, Passed
    <2>3. \A g \in Funcs \ {f} : In(g)' /\ Up(g)'
      BY <2>1, <2>2 DEF InOrder, Op
    <2>4. CASE Returns(f)
      <3>1. func'[f] = "run" /\ rest'[f] = Args(f, at'[f])
        BY <2>4 DEF Returns, TypeOK
      <3>2. In(f)' /\ Up(f)'
        BY <3>1 DEF Inside
      <3>3. QED
        BY <2>3, <3>2 DEF InOrder, Op
    <2>5. CASE ~Returns(f)
      <3>1. at' = at
        BY <1>1, <2>5, ProgFrame DEF JoinErr, Passed
      <3>2. In(f)'
        <4>1. CASE Calls(f)
          BY <3>1, <4>1 DEF Calls, Op, TypeOK, Inside
        <4>2. CASE JoinErr(f)
          BY <3>1, <4>2 DEF JoinErr, Op, InOrder
        <4>3. CASE ListLock(f)
          BY <3>1, <4>3 DEF ListLock, Op, InOrder, TypeOK, Inside
        <4>4. CASE ListWrite(f)
          BY <3>1, <4>4 DEF ListWrite, Op, InOrder, TypeOK, Inside
        <4>5. CASE ListUnlock(f)
          BY <3>1, <4>5 DEF ListUnlock, Op, InOrder, TypeOK, Inside
        <4>6. CASE FuncEnds(f)
          BY <3>1, <4>6 DEF FuncEnds, TypeOK, Inside
        <4>7. CASE FuncPanics(f)
          BY <3>1, <4>7 DEF FuncPanics, Op, InOrder
        <4>8. QED
          BY <1>1, <2>5, <4>1, <4>2, <4>3, <4>4, <4>5, <4>6, <4>7 DEF FuncStep
      <3>3. Up(f)'
        <4>1. CASE UNCHANGED rest
          BY <3>1, <4>1 DEF InOrder, Op
        <4>2. ASSUME NEW i \in Turns(f), Passed(f, i) PROVE Up(f)'
          <5>1. rest'[f] = rest[f] \ {i} /\ i \in rest[f] /\ rest[f] \subseteq Nat
            BY <4>2 DEF Passed, TypeOK, Turns
          <5>2. ASSUME at[f] \in DOMAIN Prog[f], Op(f) # "AddMapKeys",
                       NEW k \in Args(f, at[f]) \ rest'[f], NEW j \in rest'[f]
                PROVE  k < j
            <6>1. CASE k = i
              BY <4>2, <5>1, <5>2, <6>1 DEF Turns
            <6>2. CASE k # i
              BY <5>1, <5>2, <6>2 DEF InOrder
            <6>3. QED
              BY <6>1, <6>2
          <5>3. QED
            BY <3>1, <5>2 DEF Op
        <4>3. QED
          BY <1>1, <2>5, <4>1, <4>2, ProgFrame DEF JoinErr
      <3>4. QED
        BY <2>3, <3>2, <3>3 DEF InOrder, Op
    <2>6. QED
      BY <2>4, <2>5
  <1>2. CASE ~ \E f \in Funcs : FuncStep(f)
    <2>1. UNCHANGED <<at, rest>>
      BY <1>2, OtherFrame
    <2>2. \A f \in Funcs : func'[f] = func[f] \/ func'[f] = "run"
      BY <1>2, OtherSteps, DosFacts DEF DoAdd, DoLaunch, Wait, Unwrap, Slice, vars, TypeOK
    <2>3. QED
      BY <2>1, <2>2 DEF InOrder, Op, Inside
  <1>3. QED
    BY <1>1, <1>2

\* A function comes past an argument only when its turn has come.
LEMMA PerformedStep ==
  ASSUME TypeOK, NEW f \in Funcs, FuncStep(f)
  PROVE  /\ \A g \in Funcs \ {f} : \A o, i : Performed(g, o, i)' <=> Performed(g, o, i)
         /\ UNCHANGED rest \/ Returns(f) =>
              \A o \in Nat : \A i \in Args(f, o) : Performed(f, o, i)' <=> Performed(f, o, i)
         /\ \A j \in Turns(f) : Passed(f, j) =>
              \A o, i : Performed(f, o, i)' <=> Performed(f, o, i) \/ (o = at[f] /\ i = j)
  <1>1. \A g \in Funcs \ {f} : at'[g] = at[g] /\ rest'[g] = rest[g]
    BY ProgFrame DEF TypeOK, Returns, JoinErr, Passed
  <1>2. CASE Returns(f)
    <2>1. /\ at'[f] = at[f] + 1 /\ rest[f] = {} /\ rest'[f] = Args(f, at[f] + 1)
          /\ at[f] \in Nat
      BY <1>2 DEF Returns, TypeOK
    <2>2. \A o \in Nat : \A i \in Args(f, o) : Performed(f, o, i)' <=> Performed(f, o, i)
      BY <2>1 DEF Performed
    <2>3. at' # at
      BY <2>1
    <2>4. QED
      BY <1>1, <2>2, <2>3 DEF Performed, Passed
  <1>3. CASE ~Returns(f)
    <2>1. at' = at
      BY <1>3, ProgFrame DEF JoinErr, Passed
    <2>2. \A j \in Turns(f) : Passed(f, j) => rest'[f] = rest[f] \ {j}
      BY DEF Passed, TypeOK
    <2>3. QED
      BY <1>1, <1>3, <2>1, <2>2 DEF Performed
  <1>4. QED
    BY <1>2, <1>3

\* What an append does to Error and to Is.
LEMMA AppendSeen ==
  ASSUME TypeOK, LatestArray, NEW err \in ErrIds, AppendErr(err)
  PROVE  /\ \A k \in 1 .. Errors.len : Error'[k] = Error[k]
         /\ Error'[Errors.len + 1] = err
         /\ \A x : Is(x)' <=> Is(x) \/ x = err
  <1>1. /\ Errors.len \in Nat /\ Errors'.len = Errors.len + 1
        /\ \A i \in 1 .. Errors.len : arrays'[Errors'.arr][i] = arrays[Errors.arr][i]
        /\ arrays'[Errors'.arr][Errors.len + 1] = err
    BY AppendFacts DEF TypeOK
  <1>2. \A k \in 1 .. Errors.len : Error'[k] = Error[k]
    BY <1>1 DEF Error, At
  <1>3. Error'[Errors.len + 1] = err
    BY <1>1 DEF Error, At
  <1>4. \A x : Is(x)' <=> Is(x) \/ x = err
    BY <1>1 DEF Is
  <1>5. QED
    BY <1>2, <1>3, <1>4

\* A step of a function appends the error whose turn it is, or leaves the
\* aggregate alone; it is a Join's argument that is not nil.
LEMMA JoinStep ==
  ASSUME TypeOK, InOrder, NEW f \in Funcs, JoinErr(f), func[f] = "joining"
  PROVE  \E i \in Turns(f) :
           /\ Passed(f, i) /\ i \in Nat /\ i \in Args(f, at[f])
           /\ at[f] \in DOMAIN Prog[f] /\ Prog[f][at[f]].op = "Join"
           /\ Err(f, at[f], i) \in ErrIds
           /\ \/ Prog[f][at[f]].args[i] = Nil /\ UNCHANGED <<Errors, arrays>>
              \/ Prog[f][at[f]].args[i] # Nil /\ AppendErr(Err(f, at[f], i))
  <1>1. at[f] \in DOMAIN Prog[f] /\ Prog[f][at[f]].op = "Join"
    BY DEF InOrder, Inside, Op
  <1>2. \A i \in Turns(f) : i \in Nat /\ i \in Args(f, at[f]) /\ Err(f, at[f], i) \in ErrIds
    BY DEF Turns, TypeOK, Err, ErrIds
  <1>3. QED
    BY <1>1, <1>2 DEF JoinErr, Arg

\* A step keeps LatestArray.
LEMMA LatestStep ==
  ASSUME TypeOK, InOrder, LatestArray, [Next]_vars
  PROVE  LatestArray'
  <1>1. CASE UNCHANGED <<Errors, arrays>>
    BY <1>1 DEF LatestArray, Error, At
  <1>2. ASSUME NEW f \in Funcs, JoinErr(f), func[f] = "joining" PROVE LatestArray'
    <2>1. PICK i \in Turns(f) :
            /\ i \in Nat /\ i \in Args(f, at[f])
            /\ at[f] \in DOMAIN Prog[f]
            /\ Err(f, at[f], i) \in ErrIds
            /\ UNCHANGED <<Errors, arrays>> \/ AppendErr(Err(f, at[f], i))
      BY <1>2, JoinStep
    <2>2. PICK err \in ErrIds : err = Err(f, at[f], i)
      BY <2>1
    <2>3. CASE AppendErr(err)
      <3>1. /\ Errors'.len = Errors.len + 1 /\ Errors.len \in Nat
            /\ Errors'.arr = Len(arrays') /\ Errors'.len <= Len(arrays'[Errors'.arr])
        BY <2>3, AppendFacts DEF TypeOK
      <3>2. ASSUME NEW k \in 1 .. Errors'.len
            PROVE  /\ Error'[k] \in ErrIds
                   /\ Error'[k].op \in DOMAIN Prog[Error'[k].func]
                   /\ Error'[k].arg \in Args(Error'[k].func, Error'[k].op)
        <4>1. CASE k <= Errors.len
          <5>1. k \in 1 .. Errors.len /\ Error'[k] = Error[k]
            BY <2>3, <3>1, <4>1, AppendSeen
          <5>2. QED
            BY <5>1 DEF LatestArray
        <4>2. CASE k = Errors.len + 1
          <5>1. Error'[k] = err
            BY <2>3, <4>2, AppendSeen
          <5>2. err.func = f /\ err.op = at[f] /\ err.arg = i
            BY <2>2 DEF Err
          <5>3. QED
            BY <2>1, <5>1, <5>2
        <4>3. QED
          BY <3>1, <4>1, <4>2
      <3>3. QED
        BY <3>1, <3>2 DEF LatestArray
    <2>4. QED
      BY <1>1, <2>1, <2>2, <2>3
  <1>3. QED
    BY <1>1, <1>2, OtherFrame, ProgFrame DEF Returns

\* Every error in the aggregate is in it by Is, with its parts.
LEMMA InAggregate ==
  ASSUME TypeOK, LatestArray, AllJoined, NEW k \in 1 .. Errors.len
  PROVE  LET e == Error[k]
         IN  /\ e \in ErrIds /\ e.func \in Funcs /\ e.op \in Nat /\ e.arg \in Nat
             /\ e.arg \in Args(e.func, e.op)
             /\ Performed(e.func, e.op, e.arg)
  <1> DEFINE e == Error[k]
  <1>1. /\ e \in ErrIds /\ e.op \in DOMAIN Prog[e.func]
        /\ e.arg \in Args(e.func, e.op)
    BY DEF LatestArray
  <1>2. e.func \in Funcs /\ e.op \in Nat /\ e.arg \in Nat
    BY <1>1 DEF ErrIds
  <1>3. e = Err(e.func, e.op, e.arg)
    BY <1>1 DEF ErrIds, Err
  <1>4. Is(e)
    BY DEF Is, Error, At
  <1>5. Is(Err(e.func, e.op, e.arg))
    BY <1>3, <1>4
  <1> HIDE DEF e
  <1>6. Performed(e.func, e.op, e.arg)
    BY <1>1, <1>2, <1>5 DEF AllJoined
  <1>7. QED
    BY <1>1, <1>2, <1>6 DEF e

\* A step keeps AllJoined.
LEMMA JoinedStep ==
  ASSUME TypeOK, InOrder, LatestArray, AllJoined, [Next]_vars
  PROVE  AllJoined'
  <1> DEFINE Due(g, o, i) == /\ Prog[g][o].op = "Join" /\ Prog[g][o].args[i] # Nil
                             /\ Performed(g, o, i)
  <1>1. ASSUME UNCHANGED <<Errors, arrays>>,
               \A g \in Funcs : \A o \in DOMAIN Prog[g] : \A i \in Args(g, o) :
                  Due(g, o, i)' <=> Due(g, o, i)
        PROVE  AllJoined'
    <2>1. Error' = Error /\ \A x : Is(x)' <=> Is(x)
      BY <1>1 DEF Error, At, Is
    <2>2. QED
      BY <1>1, <2>1 DEF AllJoined
  <1>2. CASE ~ \E f \in Funcs : FuncStep(f)
    <2>1. UNCHANGED <<at, rest, Errors, arrays>>
      BY <1>2, OtherFrame
    <2>2. QED
      BY <1>1, <2>1 DEF Performed
  <1>3. ASSUME NEW f \in Funcs, FuncStep(f) PROVE AllJoined'
    <2>1. \A g \in Funcs \ {f} : \A o, i : Due(g, o, i)' <=> Due(g, o, i)
      BY <1>3, PerformedStep
    <2>2. CASE UNCHANGED <<at, rest, Errors, arrays, data>> \/ Returns(f)
      <3>1. UNCHANGED <<Errors, arrays>>
        BY <2>2 DEF Returns
      <3>2. \A o \in Nat : \A i \in Args(f, o) : Due(f, o, i)' <=> Due(f, o, i)
        BY <1>3, <2>2, PerformedStep
      <3>3. QED
        BY <1>1, <2>1, <3>1, <3>2, ProgFacts
    <2>3. ASSUME NEW j \in Turns(f), func[f] \in {"locked", "writing"}, Passed(f, j),
                 UNCHANGED <<Errors, arrays>>
          PROVE  AllJoined'
      <3>1. Prog[f][at[f]].op # "Join"
        BY <2>3 DEF InOrder, Inside, Op
      <3>2. \A o, i : Performed(f, o, i)' <=> Performed(f, o, i) \/ (o = at[f] /\ i = j)
        BY <1>3, <2>3, PerformedStep
      <3>3. \A o, i : Due(f, o, i)' <=> Due(f, o, i)
        BY <3>1, <3>2
      <3>4. QED
        BY <1>1, <2>1, <2>3, <3>3
    <2>4. CASE JoinErr(f) /\ func[f] = "joining"
      <3>1. PICK j \in Turns(f) :
              /\ Passed(f, j) /\ j \in Nat /\ j \in Args(f, at[f])
              /\ at[f] \in DOMAIN Prog[f] /\ Prog[f][at[f]].op = "Join"
              /\ Err(f, at[f], j) \in ErrIds
              /\ \/ Prog[f][at[f]].args[j] = Nil /\ UNCHANGED <<Errors, arrays>>
                 \/ Prog[f][at[f]].args[j] # Nil /\ AppendErr(Err(f, at[f], j))
        BY <2>4, JoinStep
      <3>2. PICK p \in Nat : p = at[f]
        BY DEF TypeOK
      <3>3. \A o, i : Performed(f, o, i)' <=> Performed(f, o, i) \/ (o = p /\ i = j)
        BY <1>3, <3>1, <3>2, PerformedStep
      <3>4. CASE Prog[f][p].args[j] = Nil
        <4>1. UNCHANGED <<Errors, arrays>>
          BY <3>1, <3>2, <3>4
        <4>2. \A o, i : Due(f, o, i)' <=> Due(f, o, i)
          BY <3>3, <3>4
        <4>3. QED
          BY <1>1, <2>1, <4>1, <4>2
      <3>5. CASE Prog[f][p].args[j] # Nil
        <4>1. PICK err \in ErrIds : err = Err(f, p, j)
          BY <3>1, <3>2
        <4>2. AppendErr(err)
          BY <3>1, <3>2, <3>5, <4>1
        <4>3. /\ \A k \in 1 .. Errors.len : Error'[k] = Error[k]
              /\ Error'[Errors.len + 1] = err
              /\ \A x : Is(x)' <=> Is(x) \/ x = err
              /\ Errors.len \in Nat /\ Errors'.len = Errors.len + 1
          BY <4>2, AppendSeen, AppendFacts DEF TypeOK
        <4>4. err.func = f /\ err.op = p /\ err.arg = j
          BY <4>1 DEF Err
        <4>5. \A g, o, i : Err(g, o, i) = err <=> g = f /\ o = p /\ i = j
          BY <4>1 DEF Err
        <4>6. ASSUME NEW g \in Funcs, NEW o \in DOMAIN Prog[g], NEW i \in Args(g, o)
              PROVE  Is(Err(g, o, i))' <=> Due(g, o, i)'
          <5>1. Is(Err(g, o, i)) <=> Due(g, o, i)
            BY DEF AllJoined
          <5>2. Is(Err(g, o, i))' <=> Is(Err(g, o, i)) \/ (g = f /\ o = p /\ i = j)
            BY <4>3, <4>5 DEF Err
          <5>3. Due(g, o, i)' <=> Due(g, o, i) \/ (g = f /\ o = p /\ i = j)
            <6>1. CASE g = f
              BY <3>1, <3>2, <3>3, <3>5, <6>1
            <6>2. CASE g # f
              BY <2>1, <6>2
            <6>3. QED
              BY <6>1, <6>2
          <5>4. QED
            BY <5>1, <5>2, <5>3
        <4>7. ASSUME NEW k \in 1 .. Errors'.len, NEW l \in 1 .. Errors'.len, k < l,
                     Error'[k].func = Error'[l].func
              PROVE  \/ Error'[k].op < Error'[l].op
                     \/ Error'[k].op = Error'[l].op /\ Error'[k].arg < Error'[l].arg
          <5>1. k \in 1 .. Errors.len /\ Error'[k] = Error[k]
            BY <4>3, <4>7
          <5>2. CASE l <= Errors.len
            <6>1. l \in 1 .. Errors.len /\ Error'[l] = Error[l]
              BY <4>3, <5>2
            <6>2. QED
              BY <4>7, <5>1, <6>1 DEF AllJoined
          <5>3. CASE l = Errors.len + 1
            <6>1. Error'[l] = err
              BY <4>3, <5>3
            <6>2. PICK e \in ErrIds : e = Error[k] /\ e.func = f
              BY <4>4, <4>7, <5>1, <6>1, InAggregate
            <6>3. /\ e.op \in Nat /\ e.arg \in Nat /\ e.arg \in Args(f, e.op)
                  /\ Performed(f, e.op, e.arg)
              BY <5>1, <6>2, InAggregate
            <6>4. e.op < p \/ (e.op = p /\ e.arg \notin rest[f])
              BY <3>2, <6>3 DEF Performed
            <6>5. j \in rest[f] /\ e.op = p /\ e.arg \notin rest[f] => e.arg < j
              BY <3>1, <3>2, <6>3 DEF InOrder, Op
            <6>6. j \in rest[f]
              BY <3>1 DEF Turns
            <6>7. QED
              BY <4>4, <5>1, <6>1, <6>2, <6>4, <6>5, <6>6
          <5>4. QED
            BY <4>3, <5>2, <5>3
        <4>8. QED
          BY <4>6, <4>7 DEF AllJoined
      <3>6. QED
        BY <3>4, <3>5
    <2>5. QED
      BY <1>3, <2>2, <2>3, <2>4, ProgFrame
  <1>4. QED
    BY <1>2, <1>3

\* A step keeps what Unwrap has handed out, whether it appends in place, in a new
\* array or not at all.
LEMMA SnapsStep ==
  ASSUME TypeOK, InOrder, LatestArray, SnapsTyped, SnapshotsFrozen, [Next]_vars
  PROVE  SnapsTyped' /\ SnapshotsFrozen'
  <1> DEFINE Good(s) == /\ s.slice \in [arr : 1 .. Len(arrays), len : Nat]
                        /\ s.slice.len <= Len(arrays[s.slice.arr])
                        /\ s.slice.len <= Errors.len
                        /\ At(s.slice) = s.held
                        /\ \A i \in 1 .. s.slice.len : Error[i] = s.held[i]
  <1>1. \A s \in snaps : Good(s)
    BY DEF SnapsTyped, SnapshotsFrozen
  <1>2. SUFFICES \A s \in snaps' : Good(s)'
    BY DEF SnapsTyped, SnapshotsFrozen
  <1>3. CASE UNCHANGED <<Errors, arrays>> /\ snaps' = snaps
    <2>1. \A s \in snaps : Good(s)'
      BY <1>1, <1>3 DEF Error, At
    <2>2. QED
      BY <1>3, <2>1
  <1>4. CASE Unwrap
    <2>1. UNCHANGED <<Errors, arrays>>
      BY <1>4 DEF Unwrap
    <2>2. \A s \in snaps : Good(s)'
      BY <1>1, <2>1 DEF Error, At
    <2>3. PICK s : s = [slice |-> Errors, held |-> At(Errors)]
      OBVIOUS
    <2>4. s.slice = Errors /\ s.held = At(Errors)
      BY <2>3
    <2>5. Errors.arr \in 1 .. Len(arrays) /\ Errors.len \in Nat
      BY LenProperties DEF TypeOK, LatestArray
    <2>6. Errors \in [arr : 1 .. Len(arrays), len : Nat]
      BY <2>5 DEF TypeOK
    <2>7. Good(s)
      BY <2>4, <2>5, <2>6 DEF LatestArray, Error
    <2>8. Good(s)'
      BY <2>1, <2>7 DEF Error, At
    <2>9. snaps' = snaps \cup {s}
      BY <1>4, <2>3 DEF Unwrap
    <2>10. QED
      BY <2>2, <2>8, <2>9
  <1>5. ASSUME NEW err \in ErrIds, AppendErr(err), snaps' = snaps
        PROVE  \A s \in snaps' : Good(s)'
    <2>1. /\ Errors'.len = Errors.len + 1 /\ Errors.len \in Nat
          /\ Len(arrays) <= Len(arrays')
          /\ \A a \in 1 .. Len(arrays) :
               /\ Len(arrays'[a]) = Len(arrays[a])
               /\ \A i \in 1 .. Len(arrays[a]) :
                    a # Errors.arr \/ i <= Errors.len => arrays'[a][i] = arrays[a][i]
          /\ \A k \in 1 .. Errors.len : Error'[k] = Error[k]
          /\ Len(arrays) \in Nat /\ Len(arrays') \in Nat
      BY <1>5, AppendFacts, AppendSeen, LenProperties DEF TypeOK
    <2>2. ASSUME NEW s \in snaps PROVE Good(s)'
      <3>1. PICK a \in 1 .. Len(arrays), n \in Nat : a = s.slice.arr /\ n = s.slice.len
        BY <1>1, <2>2
      <3>2. n <= Len(arrays[a]) /\ n <= Errors.len /\ Len(arrays[a]) \in Nat
        <4>1. arrays[a] \in Seq(ErrIds \cup {Nil})
          BY <3>1, ElementOfSeq DEF TypeOK
        <4>2. QED
          BY <1>1, <3>1, <4>1, LenProperties
      <3>3. \A i \in 1 .. n : arrays'[a][i] = arrays[a][i] /\ Error'[i] = Error[i]
        BY <2>1, <3>2
      <3>4. At(s.slice)' = At(s.slice)
        BY <3>1, <3>3 DEF At
      <3>5. /\ s.slice \in [arr : 1 .. Len(arrays'), len : Nat]
            /\ n <= Len(arrays'[a]) /\ n <= Errors'.len
        BY <1>1, <2>1, <3>1, <3>2
      <3>6. QED
        BY <1>1, <3>1, <3>3, <3>4, <3>5
    <2>3. QED
      BY <1>5, <2>2
  <1>6. ASSUME NEW f \in Funcs, FuncStep(f) PROVE \A s \in snaps' : Good(s)'
    <2>1. snaps' = snaps
      BY <1>6, FuncFrame
    <2>2. CASE UNCHANGED <<Errors, arrays>>
      BY <1>3, <2>1, <2>2
    <2>3. CASE JoinErr(f) /\ func[f] = "joining"
      BY <1>5, <2>1, <2>2, <2>3, JoinStep
    <2>4. QED
      BY <1>6, <2>2, <2>3, ProgFrame DEF Returns
  <1>7. CASE ~(\E f \in Funcs : FuncStep(f)) /\ ~Unwrap
    <2>1. UNCHANGED <<Errors, arrays>> /\ snaps' = snaps
      BY <1>7, OtherSteps, OtherFrame DEF DoAdd, DoLaunch, Wait, Slice, vars
    <2>2. QED
      BY <1>3, <2>1
  <1>8. QED
    BY <1>4, <1>6, <1>7

\* The keys a Slice comes by are those of the map, and it forgets none.
LEMMA SliceKeys ==
  ASSUME TypeOK, NEW r \in Readers, Slice(r), NEW q \in Readers
  PROVE  keys[q] \subseteq keys'[q] /\ keys'[q] \subseteq keys[q] \cup data
  <1>1. CASE keys' = keys
    BY <1>1
  <1>2. ASSUME NEW k \in data, keys' = [keys EXCEPT ![r] = keys[r] \cup {k}]
        PROVE  keys[q] \subseteq keys'[q] /\ keys'[q] \subseteq keys[q] \cup data
    <2>1. keys'[q] = IF q = r THEN keys[q] \cup {k} ELSE keys[q]
      BY <1>2 DEF TypeOK
    <2>2. QED
      BY <2>1
  <1>3. QED
    BY <1>1, <1>2 DEF Slice

\* A step keeps ItemsKept.
LEMMA ItemsStep ==
  ASSUME TypeOK, Counted, Over, InOrder, ItemsKept, [Next]_vars
  PROVE  ItemsKept'
  <1> DEFINE Kept(g, o, i) ==
               Prog[g][o].op \in Adds /\ Performed(g, o, i)
                 /\ Prog[g][o].args[i] \notin ItemsOf({"RemoveSlice"})
               => Prog[g][o].args[i] \in data
  <1>1. \A g \in Funcs : \A o \in DOMAIN Prog[g] : \A i \in Args(g, o) : Kept(g, o, i)
    BY DEF ItemsKept, HasItems
  <1>2. ASSUME NEW f \in Funcs, FuncStep(f) PROVE HasItems(data)'
    <2> SUFFICES /\ \A g \in Funcs : \A o \in DOMAIN Prog[g] : \A i \in Args(g, o) : Kept(g, o, i)'
                 /\ data' \subseteq ItemsOf(Adds)
      BY DEF HasItems, ItemsOf
    <2>1. CASE data' = data /\ (UNCHANGED rest \/ Returns(f))
      <3>1. \A g \in Funcs \ {f} : \A o, i : Performed(g, o, i)' <=> Performed(g, o, i)
        BY <1>2, PerformedStep
      <3>2. \A o \in DOMAIN Prog[f] : \A i \in Args(f, o) :
              Performed(f, o, i)' <=> Performed(f, o, i)
        BY <1>2, <2>1, PerformedStep, ProgFacts
      <3>3. QED
        BY <1>1, <2>1, <3>1, <3>2 DEF ItemsKept, HasItems, ItemsOf
    <2>2. ASSUME NEW j \in Turns(f), Passed(f, j), at[f] \in DOMAIN Prog[f],
                 \/ Op(f) = "Join" /\ data' = data
                 \/ Op(f) = "RemoveSlice" /\ data' = data \ {Arg(f, j)}
                 \/ Op(f) \in Adds /\ data' = data \cup {Arg(f, j)}
          PROVE  /\ \A g \in Funcs : \A o \in DOMAIN Prog[g] : \A i \in Args(g, o) : Kept(g, o, i)'
                 /\ data' \subseteq ItemsOf(Adds)
      <3>1. \A g \in Funcs \ {f} : \A o, i : Performed(g, o, i)' <=> Performed(g, o, i)
        BY <1>2, PerformedStep
      <3>2. PICK p \in DOMAIN Prog[f] : p = at[f]
        BY <2>2
      <3>3. \A o, i : Performed(f, o, i)' <=> Performed(f, o, i) \/ (o = p /\ i = j)
        BY <1>2, <2>2, <3>2, PerformedStep
      <3>4. PICK v \in Values \cup {Nil} : v = Prog[f][p].args[j] /\ j \in Args(f, p)
        BY <3>2, ProgFacts DEF Turns, TypeOK
      <3>5. Arg(f, j) = v /\ Op(f) = Prog[f][p].op
        BY <3>2, <3>4 DEF Arg, Op
      <3>6. CASE Prog[f][p].op = "RemoveSlice" /\ data' = data \ {v}
        <4>1. v \in ItemsOf({"RemoveSlice"})
          BY <3>4, <3>6 DEF ItemsOf
        <4>2. Prog[f][p].op \notin Adds
          BY <3>6 DEF Adds
        <4>3. \A g \in Funcs : \A o \in DOMAIN Prog[g] : \A i \in Args(g, o) :
                 Prog[g][o].op \in Adds /\ Performed(g, o, i)' => Performed(g, o, i)
          BY <3>1, <3>3, <4>2
        <4>4. ASSUME NEW g \in Funcs, NEW o \in DOMAIN Prog[g], NEW i \in Args(g, o)
              PROVE  Kept(g, o, i)'
          <5>1. Prog[g][o].args[i] \notin ItemsOf({"RemoveSlice"}) => Prog[g][o].args[i] # v
            BY <4>1
          <5>2. ItemsOf({"RemoveSlice"})' = ItemsOf({"RemoveSlice"})
            BY DEF ItemsOf
          <5>3. QED
            BY <1>1, <3>6, <4>3, <5>1, <5>2
        <4>5. QED
          BY <3>6, <4>4 DEF ItemsKept, HasItems
      <3>7. CASE Prog[f][p].op \in Adds /\ data' = data \cup {v}
        <4>1. v \in ItemsOf(Adds)
          BY <3>4, <3>7 DEF ItemsOf
        <4>2. ASSUME NEW g \in Funcs, NEW o \in DOMAIN Prog[g], NEW i \in Args(g, o)
              PROVE  Kept(g, o, i)'
          <5>1. Performed(g, o, i)' => Performed(g, o, i) \/ Prog[g][o].args[i] = v
            BY <3>1, <3>3, <3>4
          <5>2. ItemsOf({"RemoveSlice"})' = ItemsOf({"RemoveSlice"})
            BY DEF ItemsOf
          <5>3. QED
            BY <1>1, <3>7, <5>1, <5>2
        <4>3. QED
          BY <3>7, <4>1, <4>2 DEF ItemsKept, HasItems
      <3>8. CASE Prog[f][p].op = "Join" /\ data' = data
        <4>1. Prog[f][p].op \notin Adds
          BY <3>8 DEF Adds
        <4>2. \A g \in Funcs : \A o \in DOMAIN Prog[g] : \A i \in Args(g, o) :
                 Prog[g][o].op \in Adds /\ Performed(g, o, i)' => Performed(g, o, i)
          BY <3>1, <3>3, <4>1
        <4>3. QED
          BY <1>1, <3>8, <4>2 DEF ItemsKept, HasItems, ItemsOf
      <3>9. QED
        BY <2>2, <3>5, <3>6, <3>7, <3>8
    <2>3. CASE JoinErr(f) /\ func[f] = "joining"
      <3>1. PICK j \in Turns(f) : Passed(f, j) /\ at[f] \in DOMAIN Prog[f] /\ Op(f) = "Join"
        BY <2>3, JoinStep DEF Op
      <3>2. data' = data
        BY <2>3 DEF JoinErr
      <3>3. QED
        BY <2>2, <3>1, <3>2
    <2>4. ASSUME NEW j \in Turns(f), func[f] \in {"locked", "writing"}, Passed(f, j),
                 \/ Op(f) = "RemoveSlice" /\ data' = data \ {Arg(f, j)}
                 \/ Op(f) # "RemoveSlice" /\ data' = data \cup {Arg(f, j)}
          PROVE  /\ \A g \in Funcs : \A o \in DOMAIN Prog[g] : \A i \in Args(g, o) : Kept(g, o, i)'
                 /\ data' \subseteq ItemsOf(Adds)
      <3>1. at[f] \in DOMAIN Prog[f] /\ Op(f) # "Join"
        BY <2>4 DEF InOrder, Inside
      <3>2. Op(f) \in {"RemoveSlice"} \cup Adds
        BY <3>1, ProgFacts DEF Op, Ops
      <3>3. QED
        BY <2>2, <2>4, <3>1, <3>2
    <2>5. CASE UNCHANGED <<at, rest, Errors, arrays, data>> \/ Returns(f)
      BY <2>1, <2>5 DEF Returns
    <2>6. QED
      BY <1>2, <2>3, <2>4, <2>5, ProgFrame
  <1>3. HasItems(data)'
    <2>1. CASE ~ \E f \in Funcs : FuncStep(f)
      BY <2>1, OtherFrame DEF ItemsKept, HasItems, ItemsOf, Performed
    <2>2. QED
      BY <1>2, <2>1
  <1>4. \A r \in Readers : keys'[r] \subseteq ItemsOf(Adds)
    <2>1. ASSUME NEW r \in Readers, Slice(r), NEW q \in Readers PROVE keys'[q] \subseteq ItemsOf(Adds)
      <3>1. keys'[q] \subseteq keys[q] \cup data
        BY <2>1, SliceKeys
      <3>2. QED
        BY <3>1 DEF ItemsKept, HasItems
    <2>2. CASE ~ \E r \in Readers : Slice(r)
      <3>1. keys' = keys
        BY <2>2, OtherSteps, FuncFrame DEF DoAdd, DoLaunch, Wait, Unwrap, vars
      <3>2. QED
        BY <3>1 DEF ItemsKept
    <2>3. QED
      BY <2>1, <2>2
  <1>5. reader'[Main] = "done" => data' \subseteq keys'[Main]
    <2>1. SUFFICES ASSUME reader'[Main] = "done" PROVE data' \subseteq keys'[Main]
      OBVIOUS
    <2>2. Main \in Readers
      BY DEF Readers
    <2>3. reader[Main] # "wait"
      <3>1. SUFFICES ASSUME reader[Main] = "wait" PROVE FALSE
        OBVIOUS
      <3>2. \A f \in Funcs : ~FuncStep(f)
        BY <2>1, <3>1, FuncFrame
      <3>3. \A r \in Readers : ~Slice(r)
        BY <2>1, <2>2, <3>1 DEF Slice, TypeOK
      <3>4. QED
        BY <2>1, <2>2, <3>1, <3>2, <3>3, OtherSteps DEF DoAdd, DoLaunch, Wait, Unwrap, vars, TypeOK
    <2>4. data' = data /\ \A f \in Funcs : func'[f] = func[f]
      BY <2>3, Quiet
    <2>5. keys[Main] \subseteq keys'[Main]
      <3>1. \A f \in Funcs : FuncStep(f) => keys' = keys
        BY FuncFrame
      <3>2. ASSUME NEW r \in Readers, Slice(r) PROVE keys[Main] \subseteq keys'[Main]
        BY <2>2, <3>2, SliceKeys
      <3>3. QED
        BY <3>1, <3>2, OtherSteps DEF DoAdd, DoLaunch, Wait, Unwrap, vars
    <2>6. CASE reader[Main] = "done"
      BY <2>4, <2>5, <2>6 DEF ItemsKept
    <2>7. CASE reader[Main] # "done"
      <3>1. \A f \in Funcs : FuncStep(f) => reader' = reader
        BY FuncFrame
      <3>2. PICK r \in Readers : Slice(r) /\ reader'[Main] # reader[Main]
        BY <2>1, <2>2, <2>3, <2>7, <3>1, OtherSteps DEF DoAdd, DoLaunch, Wait, Unwrap, vars
      <3>3. data \subseteq keys[Main]
        BY <2>2, <3>2, FuncsFinite DEF Slice, TypeOK
      <3>4. QED
        BY <2>4, <2>5, <3>3
    <2>8. QED
      BY <2>6, <2>7
  <1>6. QED
    BY <1>3, <1>4, <1>5 DEF ItemsKept, ItemsOf

\* A step keeps OneHolder.
LEMMA HolderStep ==
  ASSUME TypeOK, OneHolder, [Next]_vars
  PROVE  OneHolder'
  <1> USE DEF TypeOK, Inside
  <1>1. ASSUME NEW f \in Funcs, FuncStep(f) PROVE OneHolder'
    <2>1. CASE Calls(f)
      BY <2>1 DEF Calls, Free, Locked, OneHolder
    <2>2. CASE JoinErr(f)
      BY <2>2 DEF JoinErr, OneHolder
    <2>3. CASE ListLock(f)
      BY <2>3, FuncsFinite DEF ListLock, OneHolder
    <2>4. CASE ListWrite(f)
      BY <2>4 DEF ListWrite, OneHolder
    <2>5. CASE ListUnlock(f)
      BY <2>5 DEF ListUnlock, OneHolder
    <2>6. CASE Returns(f) \/ FuncEnds(f) \/ FuncPanics(f)
      BY <2>6 DEF Returns, FuncEnds, FuncPanics, OneHolder
    <2>7. QED
      BY <1>1, <2>1, <2>2, <2>3, <2>4, <2>5, <2>6 DEF FuncStep
  <1>2. ASSUME NEW d \in DOMAIN Dos, DoLaunch(d) PROVE OneHolder'
    BY <1>2 DEF DoLaunch, OneHolder
  <1>3. CASE UNCHANGED <<func, mu>>
    BY <1>3 DEF OneHolder
  <1>4. QED
    BY <1>1, <1>2, <1>3, OtherSteps DEF DoAdd, Wait, Unwrap, Slice, vars

\* Before any function is launched the invariant holds.
LEMMA InitInv == Init => Inv
  <1> SUFFICES ASSUME Init PROVE Inv
    OBVIOUS
  <1> USE DEF Init
  <1>1. TypeOK
    <2>1. \A f \in Funcs : Args(f, 1) \subseteq Nat
      BY ProgFacts
    <2>2. arrays \in Seq(Seq(ErrIds \cup {Nil}))
      OBVIOUS
    <2>3. QED
      BY <2>1, <2>2, DosFacts DEF TypeOK
  <1>2. Counted
    <2>1. \A f \in Funcs : \A d \in DOMAIN Dos : ~LaunchedBy(f, d)
      BY DosFacts DEF LaunchedBy
    <2>2. Active = {}
      BY DEF Active
    <2>3. QED
      BY <2>1, <2>2, FS_EmptySet DEF Counted
  <1>3. Over
    BY DEF Over, Readers
  <1>4. InOrder
    BY DEF InOrder, Inside
  <1>5. Errors.len = 0 /\ Errors.arr = 1 /\ Len(arrays) = 1 /\ Len(arrays[1]) = 0
    OBVIOUS
  <1>6. LatestArray
    BY <1>5 DEF LatestArray
  <1>7. AllJoined
    <2>1. \A f \in Funcs : \A o \in DOMAIN Prog[f] : \A i \in Args(f, o) : ~Performed(f, o, i)
      BY ProgFacts DEF Performed
    <2>2. QED
      BY <1>5, <2>1 DEF AllJoined, Is
  <1>8. SnapsTyped /\ SnapshotsFrozen
    BY DEF SnapsTyped, SnapshotsFrozen
  <1>9. ItemsKept
    <2>1. \A f \in Funcs : \A o \in DOMAIN Prog[f] : \A i \in Args(f, o) : ~Performed(f, o, i)
      BY ProgFacts DEF Performed
    <2>2. QED
      BY <2>1 DEF ItemsKept, HasItems, Readers
  <1>10. OneHolder
    BY DEF OneHolder
  <1>11. QED
    BY <1>1, <1>2, <1>3, <1>4, <1>6, <1>7, <1>8, <1>9, <1>10 DEF Inv

\* Every step of the program, of a function and of the reader keeps it.
LEMMA NextInv == Inv /\ [Next]_vars => Inv'
  BY TypeStep, CountedStep, OverStep, InOrderStep, LatestStep, JoinedStep, SnapsStep,
    ItemsStep, HolderStep DEF Inv

\* The inductive invariant holds in every reachable state of every fan-out.
THEOREM FanOutInvariant == Spec => []Inv
  BY InitInv, NextInv, PTL DEF Spec

\* When Wait has returned, no function given to Do, by main or by a function, is
\* still under way, the aggregate has exactly the non-nil errors that were joined,
\* each function's in its order, and main's Slice has every item that was added
\* and that nobody removes (waitgroup.go, errors.go and list.go together).
THEOREM EverythingIsSeen == Spec => []EverythingSeen
  <1>1. Inv => EverythingSeen
    <2> SUFFICES ASSUME Inv, reader[Main] # "wait"
                 PROVE  /\ NoneUnderWay /\ AllJoined
                        /\ reader[Main] = "done" => HasItems(keys[Main])
      BY DEF EverythingSeen
    <2>1. NoneUnderWay /\ AllJoined
      BY DEF Inv, Over
    <2>2. reader[Main] = "done" => HasItems(keys[Main])
      BY DEF Inv, ItemsKept, HasItems, Readers
    <2>3. QED
      BY <2>1, <2>2
  <1>2. QED
    BY <1>1, FanOutInvariant, PTL

\* A slice handed out by Unwrap keeps its content and stays the first part of the
\* aggregate, whatever is joined after, in place or in a new array (errors.go).
THEOREM SnapshotsStayFrozen == Spec => []SnapshotsFrozen
  <1>1. Inv => SnapshotsFrozen
    BY DEF Inv
  <1>2. QED
    BY <1>1, FanOutInvariant, PTL

\* The WaitGroup's counter is never negative: Done never panics (waitgroup.go).
THEOREM CounterNatural == Spec => [](wg \in Nat)
  <1>1. Inv => wg \in Nat
    BY ActiveFinite, FS_CardinalityType DEF Inv, Counted
  <1>2. QED
    BY <1>1, FanOutInvariant, PTL

\* Nothing happens to a fan-out behind main's back: once main is past its Wait, the
\* counter, the errors and the items stay as they are for ever.
THEOREM NothingAfterWait ==
  Spec => [][reader[Main] # "wait" => UNCHANGED <<wg, func, Errors, arrays, data>>]_vars
  <1>1. Inv /\ [Next]_vars =>
          [reader[Main] # "wait" => UNCHANGED <<wg, func, Errors, arrays, data>>]_vars
    BY Quiet DEF Inv
  <1>2. QED
    BY <1>1, FanOutInvariant, PTL DEF Spec

\* Two goroutines are never inside the List's map to write it, nor inside a Join of
\* one aggregate: the runtime's concurrent map writes error cannot happen (list.go,
\* errors.go).
THEOREM WritersExclude ==
  Spec => [](\A f, g \in Funcs :
               \/ func[f] = "writing" /\ func[g] = "writing"
               \/ func[f] = "joining" /\ func[g] = "joining"
               => f = g)
  <1>1. Inv => \A f, g \in Funcs :
                 \/ func[f] = "writing" /\ func[g] = "writing"
                 \/ func[f] = "joining" /\ func[g] = "joining"
                 => f = g
    BY DEF Inv, OneHolder
  <1>2. QED
    BY <1>1, FanOutInvariant, PTL

\* Where nobody reads the List before Wait, no Slice ends the process: the missing
\* mutex of Slice is harmless to a program that joins its goroutines first (list.go).
THEOREM ListSafeAfterWait == Eager = {} => (Spec => []ListSafe)
  <1> SUFFICES ASSUME Eager = {} PROVE Spec => []ListSafe
    OBVIOUS
  <1>1. Init => ListSafe
    BY DEF Init, ListSafe
  <1>2. Inv /\ ListSafe /\ [Next]_vars => ListSafe'
    <2> SUFFICES ASSUME Inv, ListSafe, [Next]_vars PROVE ListSafe'
      OBVIOUS
    <2>1. ASSUME NEW r \in Readers, Slice(r) PROVE dead' = dead
      <3>1. reader[Main] # "wait" /\ r = Main
        BY <2>1 DEF Slice, Readers
      <3>2. \A f \in Funcs : func[f] # "writing"
        BY <3>1, AllEnded DEF Inv
      <3>3. QED
        BY <2>1, <3>2 DEF Slice
    <2>2. ASSUME NEW f \in Funcs, FuncStep(f) PROVE dead' \in {dead, "panic"}
      BY <2>2 DEF FuncStep, Calls, JoinErr, ListLock, ListWrite, ListUnlock, Returns, FuncEnds,
        FuncPanics
    <2>3. QED
      BY <2>1, <2>2, OtherSteps DEF DoAdd, DoLaunch, Wait, Unwrap, vars, ListSafe
  <1>3. QED
    BY <1>1, <1>2, FanOutInvariant, PTL DEF Spec
==============================================================================
