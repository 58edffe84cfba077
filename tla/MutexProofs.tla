----------------------------- MODULE MutexProofs -----------------------------
(***************************************************************************)
(* For any finite set of goroutines, any keys and any heap: kit.Mutex      *)
(* keeps IndInv, hence every safety property of module Mutex, and it       *)
(* implements the safety part of KeyLock.                                  *)
(***************************************************************************)
EXTENDS Mutex, FiniteSetTheorems, TLAPS

\* The goroutines that hold a reference to an entry are finitely many, and one
\* more or one less is one more or one less to count.
LEMMA RegisteredCount ==
    ASSUME NEW k
    PROVE  /\ IsFiniteSet(Registered(k))
           /\ Cardinality(Registered(k)) \in Nat
           /\ Cardinality(Registered(k)) = 0 <=> Registered(k) = {}
           /\ \A g : g \notin Registered(k) =>
                Cardinality(Registered(k) \cup {g}) = Cardinality(Registered(k)) + 1
           /\ \A g \in Registered(k) :
                Cardinality(Registered(k) \ {g}) = Cardinality(Registered(k)) - 1
<1>1. Registered(k) \subseteq Procs
  BY DEF Registered
<1>2. IsFiniteSet(Registered(k))
  BY <1>1, ProcsFinite, FS_Subset
<1> QED
  BY <1>2, FS_CardinalityType, FS_EmptySet, FS_AddElement, FS_RemoveElement

\* Initially nobody has a reference and the map is empty.
LEMMA InitIndInv == Init => IndInv
<1> SUFFICES ASSUME Init PROVE IndInv
  OBVIOUS
<1>1. TypeOK
  BY DEF Init, TypeOK, Places
<1>2. \A k \in Keys : Registered(k) = {}
  BY DEF Init, Registered
<1> QED
  BY <1>1, <1>2, NobodyNotProc
     DEF Init, IndInv, GlobalExact, LocalExact, MapSound, EntriesExact,
         UnlockFindsLock, HolderSound, Owning

\* Every step keeps the invariant.  The counts are what needs care: Join and
\* Create add the caller to the goroutines registered for its key, Drop removes
\* it, and nothing else changes who is registered.
LEMMA StepIndInv == IndInv /\ [Next]_vars => IndInv'
<1> SUFFICES ASSUME IndInv, [Next]_vars PROVE IndInv'
  OBVIOUS
<1> USE NilNotPtr, NobodyNotProc
<1>1. ASSUME NEW g \in Procs, NEW k \in Keys, LockCall(g, k)
      PROVE  IndInv'
  <2>1. TypeOK'
    BY <1>1 DEF IndInv, TypeOK, LockCall, At, Places
  <2>2. \A j \in Keys : Registered(j)' = Registered(j)
    BY <1>1 DEF IndInv, TypeOK, LockCall, At, Registered
  <2>3. GlobalExact' /\ LocalExact' /\ MapSound'
    BY <1>1 DEF IndInv, TypeOK, LockCall, At, GlobalExact, LocalExact, MapSound
  <2>4. EntriesExact'
    BY <1>1, <2>2 DEF IndInv, LockCall, EntriesExact
  <2>5. UnlockFindsLock' /\ HolderSound'
    BY <1>1 DEF IndInv, TypeOK, LockCall, At, UnlockFindsLock, HolderSound,
                Locked, Owning
  <2> QED
    BY <2>1, <2>3, <2>4, <2>5 DEF IndInv
<1>2. ASSUME NEW g \in Procs, LockGlobal(g)
      PROVE  IndInv'
  <2>1. TypeOK'
    BY <1>2 DEF IndInv, TypeOK, LockGlobal, At, Places
  <2>2. \A j \in Keys : Registered(j)' = Registered(j)
    BY <1>2 DEF IndInv, TypeOK, LockGlobal, At, Registered
  <2>3. GlobalExact' /\ LocalExact' /\ MapSound'
    BY <1>2 DEF IndInv, TypeOK, LockGlobal, At, GlobalExact, LocalExact, MapSound
  <2>4. EntriesExact'
    BY <1>2, <2>2 DEF IndInv, LockGlobal, EntriesExact
  <2>5. UnlockFindsLock' /\ HolderSound'
    BY <1>2 DEF IndInv, TypeOK, LockGlobal, At, UnlockFindsLock, HolderSound,
                Locked, Owning
  <2> QED
    BY <2>1, <2>3, <2>4, <2>5 DEF IndInv
<1>3. ASSUME NEW g \in Procs, Join(g)
      PROVE  IndInv'
  <2>0. /\ key[g] \in Keys /\ locks[key[g]] \in Ptrs
        /\ refcount[locks[key[g]]] \in Int
    BY <1>3 DEF IndInv, TypeOK, Join
  <2>1. TypeOK'
    BY <1>3, <2>0 DEF IndInv, TypeOK, Join, At, Places
  <2>2. /\ g \notin Registered(key[g])
        /\ Registered(key[g])' = Registered(key[g]) \cup {g}
        /\ \A j \in Keys \ {key[g]} : Registered(j)' = Registered(j)
    BY <1>3 DEF IndInv, TypeOK, Join, At, Registered
  <2>3. GlobalExact' /\ LocalExact' /\ MapSound'
    BY <1>3, <2>0 DEF IndInv, TypeOK, Join, At, GlobalExact, LocalExact, MapSound
  <2>4. EntriesExact'
    <3> SUFFICES ASSUME NEW j \in Keys
                 PROVE  IF Registered(j)' = {} THEN locks'[j] = Nil
                        ELSE /\ locks'[j] # Nil
                             /\ refcount'[locks'[j]] = Cardinality(Registered(j)')
      BY DEF EntriesExact
    <3>1. CASE j = key[g]
      BY <1>3, <2>0, <2>2, <3>1, RegisteredCount
         DEF IndInv, TypeOK, Join, EntriesExact
    <3>2. CASE j # key[g]
      BY <1>3, <2>0, <2>2, <3>2 DEF IndInv, TypeOK, Join, EntriesExact, MapSound
    <3> QED
      BY <3>1, <3>2
  <2>5. UnlockFindsLock' /\ HolderSound'
    BY <1>3 DEF IndInv, TypeOK, Join, At, UnlockFindsLock, HolderSound,
                Locked, Owning
  <2> QED
    BY <2>1, <2>3, <2>4, <2>5 DEF IndInv
<1>4. ASSUME NEW g \in Procs, Create(g)
      PROVE  IndInv'
  <2>0. PICK p \in Free :
            /\ locks' = [locks EXCEPT ![key[g]] = p]
            /\ refcount' = [refcount EXCEPT ![p] = 1]
            /\ holder' = [holder EXCEPT ![p] = Nobody]
            /\ m' = [m EXCEPT ![g] = p]
    BY <1>4 DEF Create
  <2>a. /\ p \in Ptrs /\ key[g] \in Keys
        /\ \A k \in Keys : locks[k] # p
        /\ \A h \in Procs : m[h] # p
    BY DEF Free, IndInv, TypeOK
  <2>1. TypeOK'
    BY <1>4, <2>0, <2>a DEF IndInv, TypeOK, Create, At, Places
  <2>2. /\ Registered(key[g]) = {}
        /\ Registered(key[g])' = {g}
        /\ \A j \in Keys \ {key[g]} : Registered(j)' = Registered(j)
    <3>1. Registered(key[g]) = {}
      BY <1>4, <2>a DEF IndInv, EntriesExact, Create
    <3> QED
      BY <1>4, <3>1 DEF IndInv, TypeOK, Create, At, Registered
  <2>3. GlobalExact' /\ LocalExact'
    BY <1>4, <2>0, <2>a DEF IndInv, TypeOK, Create, At, GlobalExact, LocalExact
  <2>4. MapSound'
    <3>1. \A h \in Procs : pc[h] = "wait" => key[h] # key[g]
      BY <2>2 DEF Registered
    <3> QED
      BY <1>4, <2>0, <2>a, <3>1 DEF IndInv, TypeOK, Create, At, MapSound
  <2>5. EntriesExact'
    <3>1. Cardinality({g}) = 1
      BY FS_Singleton
    <3>2. ASSUME NEW j \in Keys, j # key[g]
          PROVE  /\ locks'[j] = locks[j]
                 /\ locks[j] # Nil => refcount'[locks[j]] = refcount[locks[j]]
      BY <2>0, <2>a, <3>2 DEF IndInv, TypeOK
    <3>3. locks'[key[g]] = p /\ refcount'[p] = 1 /\ key'[g] = key[g]
      BY <1>4, <2>0, <2>a DEF IndInv, TypeOK, Create
    <3> QED
      BY <2>a, <2>2, <3>1, <3>2, <3>3 DEF IndInv, EntriesExact
  <2>6. UnlockFindsLock'
    <3>1. \A h \in Procs : pc[h] \in Owning => key[h] # key[g]
      BY <2>2 DEF Registered, Owning
    <3> QED
      BY <1>4, <2>0, <2>a, <3>1
         DEF IndInv, TypeOK, Create, At, UnlockFindsLock, Owning
  <2>7. HolderSound'
    BY <1>4, <2>0, <2>a
       DEF IndInv, TypeOK, Create, At, HolderSound, Locked, Owning
  <2> QED
    BY <2>1, <2>3, <2>4, <2>5, <2>6, <2>7 DEF IndInv
<1>5. ASSUME NEW g \in Procs, LockKey(g)
      PROVE  IndInv'
  <2>0. /\ key[g] \in Keys /\ m[g] \in Ptrs
        /\ m[g] = locks[key[g]] /\ holder[m[g]] = Nobody
    BY <1>5 DEF IndInv, TypeOK, LockKey, At, LocalExact, MapSound, Locked
  <2>1. TypeOK'
    BY <1>5, <2>0 DEF IndInv, TypeOK, LockKey, At, Places
  <2>2. \A j \in Keys : Registered(j)' = Registered(j)
    BY <1>5 DEF IndInv, TypeOK, LockKey, At, Registered
  <2>3. GlobalExact' /\ LocalExact' /\ MapSound'
    BY <1>5 DEF IndInv, TypeOK, LockKey, At, GlobalExact, LocalExact, MapSound
  <2>4. EntriesExact'
    BY <1>5, <2>2 DEF IndInv, LockKey, EntriesExact
  <2>5. UnlockFindsLock'
    BY <1>5, <2>0 DEF IndInv, TypeOK, LockKey, At, UnlockFindsLock
  <2>6. HolderSound'
    BY <1>5, <2>0 DEF IndInv, TypeOK, LockKey, At, HolderSound, MapSound,
                      Locked, Owning
  <2> QED
    BY <2>1, <2>3, <2>4, <2>5, <2>6 DEF IndInv
<1>6. ASSUME NEW g \in Procs, UnlockCall(g)
      PROVE  IndInv'
  <2>1. TypeOK'
    BY <1>6 DEF IndInv, TypeOK, UnlockCall, At, Places
  <2>2. \A j \in Keys : Registered(j)' = Registered(j)
    BY <1>6 DEF IndInv, TypeOK, UnlockCall, At, Registered
  <2>3. GlobalExact' /\ LocalExact' /\ MapSound'
    BY <1>6 DEF IndInv, TypeOK, UnlockCall, At, GlobalExact, LocalExact, MapSound
  <2>4. EntriesExact'
    BY <1>6, <2>2 DEF IndInv, UnlockCall, EntriesExact
  <2>5. UnlockFindsLock' /\ HolderSound'
    BY <1>6 DEF IndInv, TypeOK, UnlockCall, At, UnlockFindsLock, HolderSound,
                Locked, Owning
  <2> QED
    BY <2>1, <2>3, <2>4, <2>5 DEF IndInv
<1>7. ASSUME NEW g \in Procs, Drop(g)
      PROVE  IndInv'
  <2>a. PICK k \in Keys, p \in Ptrs : key[g] = k /\ locks[k] = p
    BY <1>7 DEF IndInv, TypeOK, Drop
  <2>0. /\ key[g] = k /\ locks[k] = p /\ holder[p] = g
        /\ refcount[p] \in Int
        /\ g \in Registered(k)
        /\ refcount[p] = Cardinality(Registered(k))
    BY <1>7, <2>a
       DEF IndInv, TypeOK, Drop, At, UnlockFindsLock, EntriesExact, Registered
  <2>1. TypeOK'
    <3>1. refcount[p] - 1 \in Nat
      BY <2>0, RegisteredCount
    <3> QED
      BY <1>7, <2>0, <3>1 DEF IndInv, TypeOK, Drop, MapAfterDrop, At, Places
  <2>2. /\ Registered(k)' = Registered(k) \ {g}
        /\ \A j \in Keys \ {k} : Registered(j)' = Registered(j)
    BY <1>7, <2>0 DEF IndInv, TypeOK, Drop, At, Registered
  <2>3. refcount'[p] = Cardinality(Registered(k)')
    BY <1>7, <2>0, <2>2, RegisteredCount DEF IndInv, TypeOK, Drop
  <2>4. /\ refcount'[p] = 0 <=> Registered(k)' = {}
        /\ locks' = IF refcount'[p] = 0 THEN [locks EXCEPT ![k] = Nil] ELSE locks
    <3>1. IsFiniteSet(Registered(k)')
      BY <2>2, RegisteredCount, FS_Subset, Registered(k) \ {g} \subseteq Registered(k)
    <3> QED
      BY <1>7, <2>0, <2>3, <3>1, FS_EmptySet
         DEF IndInv, TypeOK, Drop, MapAfterDrop
  <2>5. EntriesExact'
    <3>1. ASSUME NEW j \in Keys, j # k
          PROVE  /\ locks'[j] = locks[j]
                 /\ locks[j] # Nil => refcount'[locks[j]] = refcount[locks[j]]
      BY <1>7, <2>0, <2>4, <3>1 DEF IndInv, TypeOK, Drop, MapSound
    <3>2. ASSUME NEW j \in Keys, j # k
          PROVE  IF Registered(j)' = {} THEN locks'[j] = Nil
                 ELSE /\ locks'[j] # Nil
                      /\ refcount'[locks'[j]] = Cardinality(Registered(j)')
      BY <2>2, <3>1, <3>2 DEF IndInv, EntriesExact
    <3>3. IF Registered(k)' = {} THEN locks'[k] = Nil
          ELSE locks'[k] # Nil /\ refcount'[locks'[k]] = Cardinality(Registered(k)')
      BY <2>0, <2>3, <2>4 DEF IndInv, TypeOK
    <3> QED
      BY <3>2, <3>3 DEF EntriesExact
  <2>6. GlobalExact' /\ LocalExact'
    BY <1>7, <2>0 DEF IndInv, TypeOK, Drop, At, GlobalExact, LocalExact
  <2>7. MapSound'
    <3>1. ASSUME NEW h \in Procs, pc'[h] = "wait"
          PROVE  m'[h] = locks'[key'[h]]
      <4>1. h # g /\ pc[h] = "wait" /\ key'[h] = key[h] /\ m'[h] = locks[key[h]]
        BY <1>7, <3>1 DEF IndInv, TypeOK, Drop, At, MapSound
      <4>2. key[h] = k => h \in Registered(k)'
        BY <3>1, <4>1 DEF Registered
      <4> QED
        BY <2>0, <2>4, <4>1, <4>2 DEF IndInv, TypeOK
    <3> QED
      BY <1>7, <2>0, <2>4, <3>1 DEF IndInv, TypeOK, MapSound
  <2>8. UnlockFindsLock'
    <3>1. ASSUME NEW h \in Procs, pc'[h] \in Owning
          PROVE  locks'[key'[h]] # Nil /\ holder'[locks'[key'[h]]] = h
      <4>1. /\ h # g /\ pc[h] \in Owning /\ key'[h] = key[h]
            /\ locks[key[h]] # Nil /\ holder[locks[key[h]]] = h
        BY <1>7, <3>1 DEF IndInv, TypeOK, Drop, At, UnlockFindsLock, Owning
      <4> QED
        BY <1>7, <2>0, <2>4, <4>1 DEF IndInv, TypeOK, Drop
    <3> QED
      BY <1>7, <2>0, <3>1
         DEF IndInv, TypeOK, Drop, At, UnlockFindsLock, Owning
  <2>9. HolderSound'
    BY <1>7, <2>0, <2>4
       DEF IndInv, TypeOK, Drop, At, HolderSound, MapSound, Locked, Owning
  <2> QED
    BY <2>1, <2>5, <2>6, <2>7, <2>8, <2>9 DEF IndInv
<1>8. ASSUME NEW g \in Procs, NoEntry(g)
      PROVE  IndInv'
  BY <1>8 DEF IndInv, NoEntry, At, UnlockFindsLock
<1>9. ASSUME NEW g \in Procs, UnlockKey(g)
      PROVE  IndInv'
  <2>0. m[g] \in Ptrs /\ holder[m[g]] = g /\ pc'[g] = "idle"
    BY <1>9 DEF IndInv, TypeOK, UnlockKey, At, LocalExact, UnlockFindsLock, Locked
  <2>1. TypeOK'
    BY <1>9, <2>0 DEF IndInv, TypeOK, UnlockKey, At, Places
  <2>2. \A j \in Keys : Registered(j)' = Registered(j)
    BY <1>9, <2>0 DEF IndInv, TypeOK, UnlockKey, At, Registered
  <2>3. GlobalExact' /\ LocalExact' /\ MapSound'
    BY <1>9, <2>0
       DEF IndInv, TypeOK, UnlockKey, At, GlobalExact, LocalExact, MapSound
  <2>4. EntriesExact'
    BY <1>9, <2>2 DEF IndInv, UnlockKey, EntriesExact
  <2>5. UnlockFindsLock'
    BY <1>9, <2>0 DEF IndInv, TypeOK, UnlockKey, At, LocalExact, UnlockFindsLock
  <2>6. HolderSound'
    BY <1>9, <2>0 DEF IndInv, TypeOK, UnlockKey, At, HolderSound, Locked, Owning
  <2> QED
    BY <2>1, <2>3, <2>4, <2>5, <2>6 DEF IndInv
<1>10. CASE UNCHANGED vars
  <2>1. \A j \in Keys : Registered(j)' = Registered(j)
    BY <1>10 DEF vars, Registered
  <2> QED
    BY <1>10, <2>1
       DEF vars, IndInv, TypeOK, GlobalExact, LocalExact, MapSound, EntriesExact,
           UnlockFindsLock, HolderSound, Locked, Owning
<1> QED
  BY <1>1, <1>2, <1>3, <1>4, <1>5, <1>6, <1>7, <1>8, <1>9, <1>10 DEF Next, Step

\* The invariant's parts and what follows from them.
LEMMA IndInvImplies == IndInv => MutualExclusion /\ BlockedByHolder
<1> SUFFICES ASSUME IndInv PROVE MutualExclusion /\ BlockedByHolder
  OBVIOUS
<1>1. MutualExclusion
  BY DEF IndInv, UnlockFindsLock, MutualExclusion
<1>2. BlockedByHolder
  BY NilNotPtr DEF IndInv, TypeOK, LocalExact, MapSound, HolderSound,
                   BlockedByHolder, Owning
<1> QED
  BY <1>1, <1>2

\* Every reachable state of kit.Mutex satisfies the inductive invariant.
THEOREM MutexInvariant == Spec => []IndInv
  BY InitIndInv, StepIndInv, PTL DEF Spec

\* kit.Mutex never has two goroutines in their critical sections for one key.
THEOREM MutexExcludes == Spec => []MutualExclusion
  BY MutexInvariant, IndInvImplies, PTL

\* The map holds exactly the keys in active use, each with its exact count.
THEOREM MutexEntriesExact == Spec => []EntriesExact
<1>1. IndInv => EntriesExact
  BY DEF IndInv
<1> QED
  BY MutexInvariant, <1>1, PTL

\* An Unlock of what was locked is never a no-op and never fatal.
THEOREM MutexUnlockSafe == Spec => []UnlockFindsLock
<1>1. IndInv => UnlockFindsLock
  BY DEF IndInv
<1> QED
  BY MutexInvariant, <1>1, PTL

\* Whoever is blocked on a key is blocked by a goroutine that is using that key.
THEOREM MutexBlockedByHolder == Spec => []BlockedByHolder
  BY MutexInvariant, IndInvImplies, PTL

\* Every step of kit.Mutex is a step of the abstract keyed lock or leaves it
\* unchanged: LockKey is the grant, Drop the release.
THEOREM MutexImplementsKeyLock == Spec => Abstract!KeyLockSafety
<1>1. Init => Abstract!KeyLockInit
  BY DEF Init, Abstract!KeyLockInit, status
<1>2. IndInv /\ [Next]_vars => [Abstract!KeyLockNext]_(Abstract!keyLockVars)
  <2> SUFFICES ASSUME IndInv, [Next]_vars
               PROVE  Abstract!KeyLockNext \/ UNCHANGED <<status, key>>
    BY DEF Abstract!keyLockVars
  <2>1. ASSUME NEW g \in Procs, NEW k \in Keys, LockCall(g, k)
        PROVE  Abstract!Request(g, k)
    BY <2>1 DEF IndInv, TypeOK, LockCall, At, Abstract!Request, status
  <2>2. ASSUME NEW g \in Procs, LockKey(g)
        PROVE  Abstract!Grant(g)
    <3>1. \A h \in Procs : pc[h] \in Owning => key[h] # key[g]
      BY <2>2, NobodyNotProc
         DEF IndInv, TypeOK, LockKey, At, MapSound, UnlockFindsLock, Locked, Owning
    <3> QED
      BY <2>2, <3>1 DEF IndInv, TypeOK, LockKey, At, Abstract!Grant, status, Owning
  <2>3. ASSUME NEW g \in Procs, Drop(g)
        PROVE  Abstract!Release(g)
    BY <2>3 DEF IndInv, TypeOK, Drop, At, Abstract!Release, status
  <2>4. ASSUME NEW g \in Procs, LockGlobal(g)
        PROVE  UNCHANGED <<status, key>>
    BY <2>4 DEF IndInv, TypeOK, LockGlobal, At, status
  <2>5. ASSUME NEW g \in Procs, Join(g) \/ Create(g)
        PROVE  UNCHANGED <<status, key>>
    BY <2>5 DEF IndInv, TypeOK, Join, Create, At, status
  <2>6. ASSUME NEW g \in Procs, UnlockCall(g)
        PROVE  UNCHANGED <<status, key>>
    BY <2>6 DEF IndInv, TypeOK, UnlockCall, At, status
  <2>7. ASSUME NEW g \in Procs
        PROVE  ~NoEntry(g)
    BY DEF IndInv, NoEntry, At, UnlockFindsLock
  <2>8. ASSUME NEW g \in Procs, UnlockKey(g)
        PROVE  UNCHANGED <<status, key>>
    BY <2>8 DEF IndInv, TypeOK, UnlockKey, At, status
  <2>9. CASE UNCHANGED vars
    BY <2>9 DEF vars, status
  <2> QED
    BY <2>1, <2>2, <2>3, <2>4, <2>5, <2>6, <2>7, <2>8, <2>9
       DEF Next, Step, Abstract!KeyLockNext
<1> QED
  BY <1>1, <1>2, MutexInvariant, PTL DEF Spec, Abstract!KeyLockSafety
==============================================================================
