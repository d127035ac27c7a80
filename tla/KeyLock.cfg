\* Three processes on two keys; a lock object more than can be in use.
SPECIFICATION FairSpec
CONSTANTS
    Procs = {p1, p2, p3}
    Keys = {k1, k2}
    Locks = {l1, l2, l3, l4}
    NoLock = NoLock
    Nobody = Nobody
INVARIANTS
    MutualExclusion
PROPERTIES
    LockReturns
