------------------------------- MODULE KeyLock -------------------------------
(***************************************************************************)
(* What a keyed mutex promises its callers, with no map, no reference      *)
(* counts and no inner mutexes: a goroutine asks for a key, is given it    *)
(* only while nobody else has it, and gives it back.  kit.Mutex (module    *)
(* Mutex) is shown to implement this.                                      *)
(***************************************************************************)
EXTENDS Naturals

CONSTANTS Procs,   \* the goroutines
          Keys     \* the keys

VARIABLES status,  \* status[g]: idle, waiting for key[g], or holding key[g]
          key      \* key[g]: the key of g's latest request

keyLockVars == <<status, key>>

KeyLockInit ==
    /\ status = [g \in Procs |-> "idle"]
    /\ key \in [Procs -> Keys]

\* g asks for key k.
Request(g, k) ==
    /\ status[g] = "idle"
    /\ status' = [status EXCEPT ![g] = "waiting"]
    /\ key' = [key EXCEPT ![g] = k]

\* g is given the key it waits for: nobody holds that key.
Grant(g) ==
    /\ status[g] = "waiting"
    /\ \A h \in Procs : status[h] = "holding" => key[h] # key[g]
    /\ status' = [status EXCEPT ![g] = "holding"]
    /\ UNCHANGED key

\* g gives its key back.
Release(g) ==
    /\ status[g] = "holding"
    /\ status' = [status EXCEPT ![g] = "idle"]
    /\ UNCHANGED key

KeyLockNext ==
    \E g \in Procs : \/ \E k \in Keys : Request(g, k)
                     \/ Grant(g)
                     \/ Release(g)

KeyLockSafety == KeyLockInit /\ [][KeyLockNext]_keyLockVars

\* Every request whose key keeps coming free is granted, and holders give back.
KeyLockSpec ==
    /\ KeyLockSafety
    /\ \A g \in Procs : SF_keyLockVars(Grant(g)) /\ WF_keyLockVars(Release(g))
==============================================================================
