------------------------------- MODULE MCMutex -------------------------------
(* Small instances of Mutex for TLC. *)
EXTENDS Mutex, TLC

\* Goroutines, keys and addresses are interchangeable: Next names none of them.
Symmetry ==
    Permutations(Procs) \cup Permutations(Keys) \cup Permutations(Ptrs)

\* Enough addresses that an allocation never waits for one: a live object is
\* in the map or in the local m of a goroutine, at most one each.
ASSUME AddressesSuffice == Cardinality(Ptrs) >= Cardinality(Procs)
==============================================================================
