------------------------------- MODULE FanOut --------------------------------
(***************************************************************************)
(* The root package's tools for a fan-out, used together the way their     *)
(* comments suggest: goroutines launched with WaitGroup.Do (waitgroup.go)  *)
(* Join their errors to one AggregateError (errors.go) and change one List *)
(* (list.go); main Waits and reads both.  Launched functions may call Do   *)
(* themselves, anybody may Unwrap the aggregate at any time, and eager     *)
(* goroutines read the List without waiting.                               *)
(*                                                                         *)
(* Join appends one error in a step, under the lock that the readers of    *)
(* the aggregate take too.  Slice does not take the List's mutex.          *)
(***************************************************************************)
EXTENDS Naturals, Sequences, FiniteSets

CONSTANTS Funcs,   \* the functions handed to Do, each once
          Dos,     \* the Do calls: the sequence of their functions
          By,      \* By[d]: the function that makes call d, or Main
          Main,    \* main, which makes its Do calls, Waits, and reads
          Eager,   \* goroutines that call Slice and never Wait
          Prog,    \* Prog[f]: what f does, [op, args] in sequence
          Values,  \* the arguments: errors and items of the List, by number
          Nil      \* a nil error, an unused place of an array, no holder

Readers == Eager \cup {Main}
Adds == {"AddSlice", "AddMapKeys"}
Ops == {"Join", "RemoveSlice"} \cup Adds

ASSUME FuncsFinite == IsFiniteSet(Funcs) /\ Main \notin Funcs \cup Eager /\ Nil \notin Funcs
ASSUME DosTyped == Dos \in Seq(Seq(Funcs)) /\ By \in [DOMAIN Dos -> Funcs \cup {Main}]
ASSUME EachOnce ==
    \A d, e \in DOMAIN Dos : \A i \in DOMAIN Dos[d], j \in DOMAIN Dos[e] :
        Dos[d][i] = Dos[e][j] => d = e /\ i = j
ASSUME ProgTyped == Prog \in [Funcs -> Seq([op : Ops, args : Seq(Values \cup {Nil})])]

VARIABLES
    wg,      \* the WaitGroup's counter
    next,    \* next[d]: 0 before call d, then the function it launches next
    func,    \* each function: new, run, joining, listing, locked, writing, ended
    at,      \* which of its operations it is in, or comes to next
    rest,    \* the arguments of that one it has not come to
    Errors,  \* the aggregate's slice: its array and length
    arrays,  \* the arrays append has made
    snaps,   \* what Unwrap has handed out: a slice, and what it held (history)
    data,    \* the keys of the List's map
    mu,      \* the holder of the List's mutex, Nil for none
    reader,  \* each reader: wait, slice, done
    keys,    \* the keys its Slice has come by
    dead     \* the process: alive, "panic" of a function, "fatal" map error

wgVars == <<wg, next>>
progVars == <<at, rest>>
aggVars == <<Errors, arrays, snaps>>
readVars == <<reader, keys>>
vars == <<wgVars, func, progVars, aggVars, data, mu, readVars, dead>>

\* The numbers of the arguments of f's operation o.
Args(f, o) == IF o \in DOMAIN Prog[f] THEN DOMAIN Prog[f][o].args ELSE {}
Op(f) == Prog[f][at[f]].op
Arg(f, i) == Prog[f][at[f]].args[i]

Init ==
    /\ wg = 0
    /\ next = [d \in DOMAIN Dos |-> 0]
    /\ func = [f \in Funcs |-> "new"]
    /\ at = [f \in Funcs |-> 1] /\ rest = [f \in Funcs |-> Args(f, 1)]
    /\ Errors = [arr |-> 1, len |-> 0] /\ arrays = << <<>> >> /\ snaps = {}
    /\ data = {} /\ mu = Nil
    /\ reader = [r \in Readers |-> IF r = Main THEN "wait" ELSE "slice"]
    /\ keys = [r \in Readers |-> {}]
    /\ dead = "no"

(***************************************************************************)
(* WaitGroup                                                               *)
(***************************************************************************)
Returned(d) == next[d] > Len(Dos[d])

\* f is between two things it does, and not inside a Do of its own.
Free(f) == func[f] = "run" /\ \A d \in DOMAIN Dos : By[d] = f => next[d] = 0 \/ Returned(d)

Callable(d) ==
    /\ next[d] = 0
    /\ IF By[d] = Main THEN \A e \in 1 .. d - 1 : By[e] = Main => Returned(e)
                       ELSE Free(By[d])

\* Mutant of DoAdd: it counts the call, not its functions.
DoAddOne(d) ==
    /\ Callable(d)
    /\ wg' = wg + 1
    /\ next' = [next EXCEPT ![d] = 1]
    /\ UNCHANGED <<func, progVars, aggVars, data, mu, readVars, dead>>

\* w.wg.Add(len(f))
DoAdd(d) ==
    /\ Callable(d)
    /\ wg' = wg + Len(Dos[d])
    /\ next' = [next EXCEPT ![d] = 1]
    /\ UNCHANGED <<func, progVars, aggVars, data, mu, readVars, dead>>

\* The loop of Do: one more goroutine.
DoLaunch(d) ==
    /\ next[d] > 0 /\ ~Returned(d)
    /\ func' = [func EXCEPT ![Dos[d][next[d]]] = "run"]
    /\ next' = [next EXCEPT ![d] = @ + 1]
    /\ UNCHANGED <<wg, progVars, aggVars, data, mu, readVars, dead>>

\* Mutant of FuncEnds: Done is not deferred, and missed by an early return.
FuncEndsUndone(f) ==
    /\ Free(f)
    /\ func' = [func EXCEPT ![f] = "ended"]
    /\ wg' = IF at[f] > Len(Prog[f]) THEN wg - 1 ELSE wg
    /\ UNCHANGED <<next, progVars, aggVars, data, mu, readVars, dead>>

\* The function returns, early perhaps, or ends its goroutine: the deferred Done.
FuncEnds(f) ==
    /\ Free(f)
    /\ func' = [func EXCEPT ![f] = "ended"]
    /\ wg' = wg - 1
    /\ UNCHANGED <<next, progVars, aggVars, data, mu, readVars, dead>>

\* It panics, a nil function for one: Do recovers nothing, the process ends.
FuncPanics(f) ==
    /\ Free(f)
    /\ dead' = "panic"
    /\ UNCHANGED <<wgVars, func, progVars, aggVars, data, mu, readVars>>

\* Wait, after the last Do of main.
Wait ==
    /\ reader[Main] = "wait" /\ \A d \in DOMAIN Dos : By[d] = Main => Returned(d)
    /\ wg = 0
    /\ reader' = [reader EXCEPT ![Main] = "slice"]
    /\ UNCHANGED <<wgVars, func, progVars, aggVars, data, mu, keys, dead>>

(***************************************************************************)
(* A function's operations: a loop over the arguments each                 *)
(***************************************************************************)
\* The arguments whose turn it is: the first of a slice's, any key of a map.
Turns(f) == {i \in rest[f] : Op(f) # "AddMapKeys" => \A j \in rest[f] : i <= j}

\* f is through with argument i.
Passed(f, i) == rest' = [rest EXCEPT ![f] = @ \ {i}] /\ UNCHANGED at

\* The aggregate's lock is held through a Join.
Locked == \E f \in Funcs : func[f] = "joining"

\* f calls its next operation; Join begins with the lock.
Calls(f) ==
    /\ Free(f) /\ at[f] \in DOMAIN Prog[f]
    /\ \/ Op(f) = "Join" /\ ~Locked /\ func' = [func EXCEPT ![f] = "joining"]
       \/ Op(f) # "Join" /\ func' = [func EXCEPT ![f] = "listing"]
    /\ UNCHANGED <<wgVars, progVars, aggVars, data, mu, readVars, dead>>

\* The loop is over and the operation returns; Join's deferred Unlock.
Returns(f) ==
    /\ func[f] \in {"joining", "listing"} /\ rest[f] = {}
    /\ func' = [func EXCEPT ![f] = "run"]
    /\ at' = [at EXCEPT ![f] = @ + 1]
    /\ rest' = [rest EXCEPT ![f] = Args(f, at[f] + 1)]
    /\ UNCHANGED <<wgVars, aggVars, data, mu, readVars, dead>>

(***************************************************************************)
(* AggregateError                                                          *)
(***************************************************************************)
\* An error is known by where it is joined: function, operation, argument.
Err(f, o, i) == [func |-> f, op |-> o, arg |-> i]

At(slice) == [i \in 1 .. slice.len |-> arrays[slice.arr][i]]

\* Mutant of AppendErr: slices.Insert(a.Errors, 0, err), the latest error first, which
\* moves the others up in place while the array has room.
InsertErr(err) ==
    LET old == arrays[Errors.arr]
        Place(i) == IF i = 1 THEN err ELSE IF i <= Errors.len + 1 THEN old[i - 1] ELSE Nil
    IN  IF Errors.len < Len(old)
        THEN /\ arrays' = [arrays EXCEPT ![Errors.arr] = [i \in DOMAIN old |-> Place(i)]]
             /\ Errors' = [arr |-> Errors.arr, len |-> Errors.len + 1]
        ELSE /\ arrays' = Append(arrays, [i \in 1 .. 2 * Len(old) + 1 |-> Place(i)])
             /\ Errors' = [arr |-> Len(arrays) + 1, len |-> Errors.len + 1]

\* append(a.Errors, err): in place while the array has room, else in a new one
\* of twice the size.
AppendErr(err) ==
    LET size == Len(arrays[Errors.arr])
        grown == IF size = 0 THEN 1 ELSE 2 * size
        Place(i) == IF i <= Errors.len THEN arrays[Errors.arr][i]
                    ELSE IF i = Errors.len + 1 THEN err ELSE Nil
    IN  IF Errors.len < size
        THEN /\ arrays' = [arrays EXCEPT ![Errors.arr][Errors.len + 1] = err]
             /\ Errors' = [arr |-> Errors.arr, len |-> Errors.len + 1]
        ELSE /\ arrays' = Append(arrays, [i \in 1 .. grown |-> Place(i)])
             /\ Errors' = [arr |-> Len(arrays) + 1, len |-> Errors.len + 1]

\* The loop of Join: a nil error is passed over.
JoinErr(f) ==
    /\ func[f] = "joining"
    /\ \E i \in Turns(f) :
         /\ IF Arg(f, i) = Nil THEN UNCHANGED <<Errors, arrays>>
                               ELSE AppendErr(Err(f, at[f], i))
         /\ Passed(f, i)
    /\ UNCHANGED <<wgVars, func, snaps, data, mu, readVars, dead>>

\* Unwrap(): the slice itself, or nil for an empty one.
Unwrap ==
    /\ ~Locked /\ Errors.len > 0
    /\ snaps' = snaps \cup {[slice |-> Errors, held |-> At(Errors)]}
    /\ UNCHANGED <<wgVars, func, progVars, Errors, arrays, data, mu, readVars, dead>>

\* Error() has every message, Is(target) and As look at every error.
Error == At(Errors)
Is(target) == \E i \in 1 .. Errors.len : arrays[Errors.arr][i] = target

(***************************************************************************)
(* List                                                                    *)
(***************************************************************************)
\* Add and Remove: the mutex.
ListLock(f) ==
    /\ func[f] = "listing" /\ rest[f] # {} /\ mu = Nil
    /\ mu' = f
    /\ func' = [func EXCEPT ![f] = "locked"]
    /\ UNCHANGED <<wgVars, progVars, aggVars, data, readVars, dead>>

\* An item that Add finds, and the mutex is released; else the map is written.
ListWrite(f) ==
    /\ func[f] = "locked"
    /\ \E i \in Turns(f) :
         \/ /\ Op(f) = "RemoveSlice" \/ Arg(f, i) \notin data
            /\ func' = [func EXCEPT ![f] = "writing"]
            /\ UNCHANGED <<progVars, mu>>
         \/ /\ Op(f) # "RemoveSlice" /\ Arg(f, i) \in data
            /\ Passed(f, i)
            /\ func' = [func EXCEPT ![f] = "listing"]
            /\ mu' = Nil
    /\ UNCHANGED <<wgVars, aggVars, data, readVars, dead>>

\* The write is over, and the mutex is released.
ListUnlock(f) ==
    /\ func[f] = "writing"
    /\ \E i \in Turns(f) :
         /\ \/ Op(f) = "RemoveSlice" /\ data' = data \ {Arg(f, i)}
            \/ /\ Op(f) # "RemoveSlice" /\ Arg(f, i) \notin data
               /\ data' = data \cup {Arg(f, i)}
         /\ Passed(f, i)
    /\ func' = [func EXCEPT ![f] = "listing"]
    /\ mu' = Nil
    /\ UNCHANGED <<wgVars, aggVars, readVars, dead>>

\* Slice: MapKeys iterates over the map without the mutex.  The runtime may
\* notice a write under way and throw, or the iteration goes on; what is added
\* while it does, it may miss.
Slice(r) ==
    /\ reader[r] = "slice"
    /\ \/ /\ \E f \in Funcs : func[f] = "writing"
          /\ dead' = "fatal"
          /\ UNCHANGED <<keys, reader>>
       \/ /\ \E k \in data \ keys[r] : keys' = [keys EXCEPT ![r] = @ \cup {k}]
          /\ UNCHANGED <<reader, dead>>
       \/ /\ data \subseteq keys[r] \/ r \in Eager
          /\ reader' = [reader EXCEPT ![r] = "done"]
          /\ UNCHANGED <<keys, dead>>
    /\ UNCHANGED <<wgVars, func, progVars, aggVars, data, mu>>

FuncStep(f) ==
    \/ Calls(f) \/ JoinErr(f) \/ ListLock(f) \/ ListWrite(f) \/ ListUnlock(f)
    \/ Returns(f) \/ FuncEnds(f) \/ FuncPanics(f)

Next ==
    /\ dead = "no"
    /\ \/ \E d \in DOMAIN Dos : DoAdd(d) \/ DoLaunch(d)
       \/ \E f \in Funcs : FuncStep(f)
       \/ Wait \/ Unwrap
       \/ \E r \in Readers : Slice(r)

Spec == Init /\ [][Next]_vars

\* Every goroutine goes on; main makes its Do calls, a function may skip its own.
FairSpec ==
    /\ Spec
    /\ \A d \in DOMAIN Dos : WF_vars(DoLaunch(d)) /\ WF_vars(By[d] = Main /\ DoAdd(d))
    /\ \A f \in Funcs : WF_vars(FuncStep(f))
    /\ WF_vars(Wait) /\ \A r \in Readers : WF_vars(Slice(r))

(***************************************************************************)
(* Properties                                                              *)
(***************************************************************************)
\* f has come past argument i of its operation o, before an early end perhaps.
Performed(f, o, i) == o < at[f] \/ (o = at[f] /\ i \notin rest[f])

\* All the arguments of operations in ops.
ItemsOf(ops) ==
    {v \in Values \cup {Nil} :
       \E f \in Funcs : \E o \in DOMAIN Prog[f] : \E i \in Args(f, o) :
          Prog[f][o].op \in ops /\ Prog[f][o].args[i] = v}

\* The aggregate has every non-nil error joined so far and no other, and the
\* errors of a function in the order in which it joined them, none twice.
AllJoined ==
    /\ \A f \in Funcs : \A o \in DOMAIN Prog[f] : \A i \in Args(f, o) :
          Is(Err(f, o, i)) <=>
            /\ Prog[f][o].op = "Join" /\ Prog[f][o].args[i] # Nil
            /\ Performed(f, o, i)
    /\ \A k, l \in 1 .. Errors.len :
          k < l /\ Error[k].func = Error[l].func =>
            \/ Error[k].op < Error[l].op
            \/ Error[k].op = Error[l].op /\ Error[k].arg < Error[l].arg

\* Nothing that a Do was called with is still under way or to be launched.
NoneUnderWay ==
    \A d \in DOMAIN Dos : next[d] > 0 =>
        \A i \in DOMAIN Dos[d] : func[Dos[d][i]] = "ended"

\* A set of keys has every item that was added and that nobody removes, and no
\* other than those that are added.
HasItems(set) ==
    /\ \A f \in Funcs : \A o \in DOMAIN Prog[f] : \A i \in Args(f, o) :
          LET item == Prog[f][o].args[i] IN
          /\ Prog[f][o].op \in Adds /\ Performed(f, o, i)
          /\ item \notin ItemsOf({"RemoveSlice"})
          => item \in set
    /\ set \subseteq ItemsOf(Adds)

\* When main is past its Wait nothing launched is still under way, functions
\* launched by functions included, and main sees all they did: every non-nil error,
\* each function's in its own order and none twice, and every item that was added
\* and that nobody removes, and no other item than those that are added.
EverythingSeen ==
    reader[Main] # "wait" =>
        /\ NoneUnderWay
        /\ AllJoined
        /\ reader[Main] = "done" => HasItems(keys[Main])

\* What Unwrap has handed out keeps its content whatever is joined later, in the
\* same array or in another, and is the first part of what there is now.
SnapshotsFrozen ==
    \A s \in snaps :
        /\ At(s.slice) = s.held
        /\ s.slice.len <= Errors.len
        /\ \A i \in 1 .. s.slice.len : Error[i] = s.held[i]

\* Wait returns, and main has its Slice, unless a function panics.
WaitEnds == reader[Main] = "wait" ~> reader[Main] = "done" \/ dead # "no"

\* The comment of List: every method is safe to call from any goroutine.  No
\* Slice ends the process.
ListSafe == dead # "fatal"

(***************************************************************************)
(* The inductive invariant behind them.                                    *)
(***************************************************************************)
ErrIds == [func : Funcs, op : Nat, arg : Nat]
Inside == {"joining", "listing", "locked", "writing"}

TypeOK ==
    /\ next \in [DOMAIN Dos -> Nat] /\ \A d \in DOMAIN Dos : next[d] <= Len(Dos[d]) + 1
    /\ func \in [Funcs -> {"new", "run", "ended"} \cup Inside]
    /\ at \in [Funcs -> Nat] /\ rest \in [Funcs -> SUBSET Nat]
    /\ \A f \in Funcs : rest[f] \subseteq Args(f, at[f])
    /\ arrays \in Seq(Seq(ErrIds \cup {Nil}))
    /\ Errors \in [arr : Nat \ {0}, len : Nat]
    /\ data \subseteq Values \cup {Nil} /\ mu \in Funcs \cup {Nil}
    /\ reader \in [Readers -> {"wait", "slice", "done"}]
    /\ keys \in [Readers -> SUBSET (Values \cup {Nil})]

\* A function is new until its Do has launched it, and the counter counts those
\* that a Do has been called with and that have not ended.
LaunchedBy(f, d) == \E i \in DOMAIN Dos[d] : Dos[d][i] = f /\ i < next[d]
Active == {f \in Funcs :
             /\ func[f] # "ended"
             /\ \E d \in DOMAIN Dos : next[d] > 0 /\ \E i \in DOMAIN Dos[d] : Dos[d][i] = f}
Counted ==
    /\ \A f \in Funcs : func[f] # "new" <=> \E d \in DOMAIN Dos : LaunchedBy(f, d)
    /\ wg = Cardinality(Active)

\* After Wait all is over, and no Do is left to main.
Over ==
    reader[Main] # "wait" =>
        /\ NoneUnderWay
        /\ \A d \in DOMAIN Dos : By[d] = Main => Returned(d)

\* A function inside an operation is in one of its own, and takes the arguments of
\* a slice from the first to the last.
InOrder ==
    \A f \in Funcs :
        /\ func[f] \in Inside =>
             at[f] \in DOMAIN Prog[f] /\ (func[f] = "joining" <=> Op(f) = "Join")
        /\ at[f] \in DOMAIN Prog[f] /\ Op(f) # "AddMapKeys" =>
             \A i \in Args(f, at[f]) \ rest[f], j \in rest[f] : i < j

\* The aggregate's slice is in the latest array and within it, and what it holds
\* are errors that have been joined.
LatestArray ==
    /\ Errors.arr = Len(arrays) /\ Errors.len <= Len(arrays[Errors.arr])
    /\ \A k \in 1 .. Errors.len :
         /\ Error[k] \in ErrIds
         /\ Error[k].op \in DOMAIN Prog[Error[k].func]
         /\ Error[k].arg \in Args(Error[k].func, Error[k].op)

SnapsTyped ==
    \A s \in snaps :
        /\ s.slice \in [arr : 1 .. Len(arrays), len : Nat]
        /\ s.slice.len <= Len(arrays[s.slice.arr])

ItemsKept ==
    /\ HasItems(data)
    /\ \A r \in Readers : keys[r] \subseteq ItemsOf(Adds)
    /\ reader[Main] = "done" => data \subseteq keys[Main]

\* One Join at a time has the aggregate's lock, one Add or Remove the List's mutex.
OneHolder ==
    /\ \A f \in Funcs : func[f] \in {"locked", "writing"} => mu = f
    /\ \A f, g \in Funcs : func[f] = "joining" /\ func[g] = "joining" => f = g

Inv ==
    /\ TypeOK /\ Counted /\ Over /\ InOrder
    /\ LatestArray /\ AllJoined /\ SnapsTyped /\ SnapshotsFrozen
    /\ ItemsKept /\ OneHolder
==============================================================================
