SPECIFICATION FairSpec
CONSTANTS
    Procs = {g1, g2, g3}
    Keys = {k1, k2}
    Ptrs = {p1, p2, p3}
    Nil = Nil
    Nobody = Nobody
INVARIANTS
    MutualExclusion
    IndInv
PROPERTIES
    LockReturns
    ImplementsKeyLock
