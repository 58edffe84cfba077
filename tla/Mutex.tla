-------------------------------- MODULE Mutex --------------------------------
(***************************************************************************)
(* kit.Mutex (mutex.go): a mutex per key, made of one global sync.Mutex    *)
(* (km.mu), a map from keys to reference-counted entries (km.locks), and   *)
(* one sync.Mutex per entry (m.mu).  Goroutines interleave between any two *)
(* statements that touch shared state; what runs while km.mu is held is    *)
(* one step, because nothing reads the map or a count without km.mu.       *)
(*                                                                         *)
(* Entries are heap objects (Ptrs): a goroutine's local m can outlive the  *)
(* entry's place in the map, and an object nobody can reach may be         *)
(* allocated again for another key.                                        *)
(***************************************************************************)
EXTENDS Integers, FiniteSets

CONSTANTS Procs,   \* goroutines
          Keys,    \* keys
          Ptrs,    \* addresses of keyMutex objects
          Nil,     \* the nil *keyMutex: no entry
          Nobody   \* the holder of an unlocked mutex

ASSUME ProcsFinite == IsFiniteSet(Procs)
ASSUME NilNotPtr == Nil \notin Ptrs
ASSUME NobodyNotProc == Nobody \notin Procs

VARIABLES
    global,    \* who holds km.mu
    locks,     \* km.locks: key -> address, Nil for an absent key
    refcount,  \* refcount of the object at each address
    holder,    \* the object's mu; sync.Mutex keeps only locked or not, who
               \* locked it is history that no guard reads
    pc,        \* where each goroutine stands
    key,       \* the key of its current or latest call
    m          \* its local m

vars == <<global, locks, refcount, holder, pc, key, m>>

\* The points at which a goroutine can be preempted, in the order of a Lock
\* call (enter, register, wait), the caller's critical section (held) and an
\* Unlock call (leave, deregister, release).  fatal: the runtime's
\* "sync: unlock of unlocked mutex", which ends the process.
Places == {"idle", "enter", "register", "wait", "held",
           "leave", "deregister", "release", "fatal"}

Init ==
    /\ global = Nobody
    /\ locks = [k \in Keys |-> Nil]
    /\ refcount = [p \in Ptrs |-> 0]
    /\ holder = [p \in Ptrs |-> Nobody]
    /\ pc = [g \in Procs |-> "idle"]
    /\ key \in [Procs -> Keys]
    /\ m = [g \in Procs |-> Nil]

Locked(p) == holder[p] # Nobody

\* Addresses an allocation may return: not in the map, in no local variable.
Free == {p \in Ptrs : /\ \A k \in Keys : locks[k] # p
                      /\ \A g \in Procs : m[g] # p}

At(g, here, there) == pc[g] = here /\ pc' = [pc EXCEPT ![g] = there]

(***************************************************************************)
(* Lock(key)                                                               *)
(***************************************************************************)
LockCall(g, k) ==
    /\ At(g, "idle", "enter")
    /\ key' = [key EXCEPT ![g] = k]
    /\ UNCHANGED <<global, locks, refcount, holder, m>>

\* km.mu.Lock(), at the top of either call.
LockGlobal(g) ==
    /\ At(g, "enter", "register") \/ At(g, "leave", "deregister")
    /\ global = Nobody
    /\ global' = g
    /\ UNCHANGED <<locks, refcount, holder, key, m>>

\* Mutant of Join: a goroutine that finds an entry does not count itself in.
JoinUncounted(g) ==
    /\ At(g, "register", "wait")
    /\ locks[key[g]] # Nil
    /\ m' = [m EXCEPT ![g] = locks[key[g]]]
    /\ global' = Nobody
    /\ UNCHANGED <<locks, refcount, holder, key>>

\* The entry exists: take a reference to it and let km.mu go.
Join(g) ==
    /\ At(g, "register", "wait")
    /\ locks[key[g]] # Nil
    /\ m' = [m EXCEPT ![g] = locks[key[g]]]
    /\ refcount' = [refcount EXCEPT ![locks[key[g]]] = @ + 1]
    /\ global' = Nobody
    /\ UNCHANGED <<locks, holder, key>>

\* No entry: allocate a zero keyMutex, put it in the map, take the first
\* reference, let km.mu go.
Create(g) ==
    /\ At(g, "register", "wait")
    /\ locks[key[g]] = Nil
    /\ \E p \in Free :
         /\ locks' = [locks EXCEPT ![key[g]] = p]
         /\ refcount' = [refcount EXCEPT ![p] = 1]
         /\ holder' = [holder EXCEPT ![p] = Nobody]
         /\ m' = [m EXCEPT ![g] = p]
    /\ global' = Nobody
    /\ UNCHANGED key

\* m.mu.Lock(), and Lock returns: its local m is gone.
LockKey(g) ==
    /\ At(g, "wait", "held")
    /\ ~Locked(m[g])
    /\ holder' = [holder EXCEPT ![m[g]] = g]
    /\ m' = [m EXCEPT ![g] = Nil]
    /\ UNCHANGED <<global, locks, refcount, key>>

(***************************************************************************)
(* Unlock(key)                                                             *)
(***************************************************************************)
UnlockCall(g) ==
    /\ At(g, "held", "leave")
    /\ UNCHANGED <<global, locks, refcount, holder, key, m>>

\* Mutant of MapAfterDrop: the entry is deleted under those who still wait.
MapAlwaysDeletes(k, count) == [locks EXCEPT ![k] = Nil]

\* The map after a reference to k's entry is dropped, count being what is left.
MapAfterDrop(k, count) ==
    IF count = 0 THEN [locks EXCEPT ![k] = Nil] ELSE locks

\* The entry exists: drop the reference, delete the entry at zero, and let
\* km.mu go, keeping m.
Drop(g) ==
    LET p == locks[key[g]] IN
    /\ At(g, "deregister", "release")
    /\ p # Nil
    /\ refcount' = [refcount EXCEPT ![p] = @ - 1]
    /\ locks' = MapAfterDrop(key[g], refcount[p] - 1)
    /\ m' = [m EXCEPT ![g] = p]
    /\ global' = Nobody
    /\ UNCHANGED <<holder, key>>

\* No entry: Unlock is a no-op.
NoEntry(g) ==
    /\ At(g, "deregister", "idle")
    /\ locks[key[g]] = Nil
    /\ global' = Nobody
    /\ UNCHANGED <<locks, refcount, holder, key, m>>

\* Mutant of UnlockKey: m.mu is left locked.
UnlockForgotten(g) ==
    /\ At(g, "release", "idle")
    /\ m' = [m EXCEPT ![g] = Nil]
    /\ UNCHANGED <<global, locks, refcount, holder, key>>

\* m.mu.Unlock(): fatal when the mutex is not locked, whoever locked it.
UnlockKey(g) ==
    /\ At(g, "release", IF Locked(m[g]) THEN "idle" ELSE "fatal")
    /\ holder' = [holder EXCEPT ![m[g]] = Nobody]
    /\ m' = [m EXCEPT ![g] = Nil]
    /\ UNCHANGED <<global, locks, refcount, key>>

Step(g) ==
    \/ LockGlobal(g)
    \/ Join(g)
    \/ Create(g)
    \/ LockKey(g)
    \/ UnlockCall(g)
    \/ Drop(g)
    \/ NoEntry(g)
    \/ UnlockKey(g)

Running == \A g \in Procs : pc[g] # "fatal"

\* Callers that only unlock what they locked.
Next ==
    /\ Running
    /\ \E g \in Procs : (\E k \in Keys : LockCall(g, k)) \/ Step(g)

Spec == Init /\ [][Next]_vars

\* Every goroutine keeps running and releases what it holds.  A blocked
\* sync.Mutex.Lock is not passed over for ever (the runtime's starvation mode
\* hands the mutex to the longest waiter), hence strong fairness for the two
\* acquisitions.
FairSpec ==
    /\ Spec
    /\ \A g \in Procs : /\ WF_vars(Step(g))
                        /\ SF_vars(LockGlobal(g))
                        /\ SF_vars(LockKey(g))

(***************************************************************************)
(* Properties                                                              *)
(***************************************************************************)
TypeOK ==
    /\ global \in Procs \cup {Nobody}
    /\ locks \in [Keys -> Ptrs \cup {Nil}]
    /\ refcount \in [Ptrs -> Nat]
    /\ holder \in [Ptrs -> Procs \cup {Nobody}]
    /\ pc \in [Procs -> Places]
    /\ key \in [Procs -> Keys]
    /\ m \in [Procs -> Ptrs \cup {Nil}]

\* Two goroutines never are in their critical sections for the same key, though
\* entries are deleted, re-created and re-allocated while others hold old ones.
MutualExclusion ==
    \A g, h \in Procs :
        g # h /\ pc[g] = "held" /\ pc[h] = "held" => key[g] # key[h]

\* Who has a reference to the entry of k that Unlock has not dropped yet.
Registered(k) ==
    {g \in Procs : /\ pc[g] \in {"wait", "held", "leave", "deregister"}
                   /\ key[g] = k}

\* The map holds an entry for exactly the keys in active use, and its count is
\* the number of goroutines that wait for the key or hold it: no entry leaks,
\* none is deleted under a waiter.
EntriesExact ==
    \A k \in Keys :
        IF Registered(k) = {}
        THEN locks[k] = Nil
        ELSE locks[k] # Nil /\ refcount[locks[k]] = Cardinality(Registered(k))

\* A disciplined caller's Unlock always finds its entry locked: it is never the
\* silent no-op, and never the runtime's fatal error.
UnlockFindsLock ==
    \A g \in Procs :
        /\ pc[g] # "fatal"
        /\ pc[g] \in {"held", "leave", "deregister"} =>
              locks[key[g]] # Nil /\ holder[locks[key[g]]] = g
        /\ pc[g] = "release" => holder[m[g]] = g

\* A goroutine blocked in m.mu.Lock() waits for one that holds the same key or
\* is about to release it: never for a lock on another key, and never for a
\* mutex whose holder has gone.
BlockedByHolder ==
    \A g \in Procs :
        pc[g] = "wait" /\ Locked(m[g]) =>
            LET h == holder[m[g]]
            IN  /\ key[h] = key[g]
                /\ pc[h] \in {"held", "leave", "deregister", "release"}

\* Every Lock call returns.
LockReturns == \A g \in Procs : pc[g] = "enter" ~> pc[g] = "held"

(***************************************************************************)
(* The inductive invariant behind the properties above.                    *)
(***************************************************************************)
Owning == {"held", "leave", "deregister"}

\* km.mu is held exactly by the goroutine that is at its map.
GlobalExact ==
    \A g \in Procs : global = g <=> pc[g] \in {"register", "deregister"}

\* A goroutine keeps an address only while it waits or is about to release.
LocalExact ==
    \A g \in Procs : m[g] # Nil <=> pc[g] \in {"wait", "release"}

\* No object serves two keys, and a waiter waits for the object in the map.
MapSound ==
    /\ \A j, k \in Keys : locks[j] # Nil /\ locks[j] = locks[k] => j = k
    /\ \A g \in Procs : pc[g] = "wait" => m[g] = locks[key[g]]

\* A locked object in the map is locked by an owner of its key, or by one that
\* has dropped its reference and keeps the address to release it.
HolderSound ==
    \A k \in Keys :
        locks[k] # Nil /\ Locked(locks[k]) =>
            LET h == holder[locks[k]]
            IN  /\ key[h] = k
                /\ \/ pc[h] \in Owning
                   \/ pc[h] = "release" /\ m[h] = locks[k]

IndInv ==
    /\ TypeOK
    /\ GlobalExact
    /\ LocalExact
    /\ MapSound
    /\ EntriesExact
    /\ UnlockFindsLock
    /\ HolderSound

(***************************************************************************)
(* Refinement: the lock is given back, for everybody else, when Unlock     *)
(* drops the reference.  From there on a newcomer may create a new entry   *)
(* for the key and lock it before the old entry's mutex is released.       *)
(***************************************************************************)
status ==
    [g \in Procs |->
        CASE pc[g] \in {"enter", "register", "wait"}   -> "waiting"
          [] pc[g] \in {"held", "leave", "deregister"} -> "holding"
          [] OTHER                                     -> "idle"]

Abstract == INSTANCE KeyLock
    WITH Procs <- Procs, Keys <- Keys, status <- status, key <- key

\* kit.Mutex behaves as the abstract keyed lock, fairness included.
ImplementsKeyLock == Abstract!KeyLockSpec
==============================================================================
