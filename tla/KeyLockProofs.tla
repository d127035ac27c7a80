---------------------------- MODULE KeyLockProofs ----------------------------
(***************************************************************************)
(* Mutual exclusion of KeyLock for any number of processes and keys.        *)
(***************************************************************************)
EXTENDS KeyLock, FiniteSetTheorems, TLAPS

\* The processes that an inner lock's count stands for.
Refs(l) == {p \in Procs : pc[p] \in {"wait", "crit"} /\ mine[p] = l}

\* The entry of a key stays while a process waits for it or holds it.
EntryStays ==
    \A p \in Procs :
        pc[p] \in {"wait", "crit"} => mine[p] \in Locks /\ locks[want[p]] = mine[p]

\* The mutex is held from Acquire to Release.
Holds ==
    \A p \in Procs :
        /\ pc[p] \in {"crit", "release"} => mine[p] \in Locks /\ holder[mine[p]] = p
        /\ pc[p] \in {"idle", "create"} => mine[p] = NoLock

\* The count of a lock in the map is the number of its references.
Counted ==
    \A l \in Locks : (\E k \in Keys : locks[k] = l) => count[l] = Cardinality(Refs(l))

LockInv == TypeOK /\ EntryStays /\ Holds /\ Counted

\* The processes that refer to an entry are finitely many, so they can be counted.
LEMMA RefsFinite ==
  ASSUME NEW l PROVE IsFiniteSet(Refs(l)) /\ Cardinality(Refs(l)) \in Nat
  BY KeyLockAssumption, FS_Subset, FS_CardinalityType DEF Refs

\* The map starts empty and nobody holds or waits.
LEMMA InitLock == Init => LockInv
  BY KeyLockAssumption
     DEF Init, LockInv, TypeOK, EntryStays, Holds, Counted, PCs

\* Every step of a caller or of Clean keeps every variable's type.
LEMMA TypeStep == LockInv /\ [Next]_vars => TypeOK'
  <1> SUFFICES ASSUME LockInv, [Next]_vars PROVE TypeOK'
    OBVIOUS
  <1> USE KeyLockAssumption DEF LockInv, TypeOK, PCs, Goto
  <1>1. ASSUME NEW p \in Procs, NEW k \in Keys, LockLookup(p, k) PROVE TypeOK'
    BY <1>1 DEF LockLookup
  <1>2. ASSUME NEW p \in Procs, LockCreate(p) PROVE TypeOK'
    BY <1>2 DEF LockCreate
  <1>3. ASSUME NEW p \in Procs, Acquire(p) PROVE TypeOK'
    BY <1>3 DEF Acquire
  <1>4. ASSUME NEW p \in Procs, UnlockLookup(p) PROVE TypeOK'
    <2>1. CASE locks[want[p]] = NoLock
      BY <1>4, <2>1 DEF UnlockLookup
    <2>2. CASE locks[want[p]] # NoLock
      <3> DEFINE l == locks[want[p]]
      <3>1. l \in Locks /\ p \in Refs(l)
        BY <1>4, <2>2 DEF UnlockLookup, EntryStays, Refs
      <3>2. Cardinality(Refs(l)) # 0
        BY <3>1, RefsFinite, FS_EmptySet
      <3>3. count[l] \in Nat /\ count[l] # 0
        BY <3>1, <3>2 DEF Counted
      <3> QED
        BY <1>4, <2>2, <3>1, <3>3 DEF UnlockLookup
    <2> QED
      BY <2>1, <2>2
  <1>5. ASSUME NEW p \in Procs, Release(p) PROVE TypeOK'
    BY <1>5 DEF Release
  <1>6. CASE Clean
    BY <1>6 DEF Clean, Idle
  <1>7. CASE UNCHANGED vars
    BY <1>7 DEF vars
  <1> QED
    BY <1>1, <1>2, <1>3, <1>4, <1>5, <1>6, <1>7 DEF Next

\* A process joins the references of a lock in the map.
LEMMA JoinStep ==
  ASSUME LockInv, TypeOK', NEW p \in Procs, NEW k \in Keys,
         pc[p] \in {"idle", "create"}, locks[k] # NoLock,
         pc' = [pc EXCEPT ![p] = "wait"],
         want'[p] = k, \A q \in Procs \ {p} : want'[q] = want[q],
         mine' = [mine EXCEPT ![p] = locks[k]],
         count' = [count EXCEPT ![locks[k]] = @ + 1],
         UNCHANGED <<locks, holder>>
  PROVE  LockInv'
  <1> USE KeyLockAssumption DEF LockInv, TypeOK
  <1>1. EntryStays' /\ Holds'
    BY DEF EntryStays, Holds
  <1>2. ASSUME NEW l \in Locks, \E j \in Keys : locks'[j] = l
        PROVE  count'[l] = Cardinality(Refs(l)')
    <2>1. CASE l = locks[k]
      <3>1. Refs(l)' = Refs(l) \cup {p} /\ p \notin Refs(l)
        BY <2>1 DEF Refs
      <3>2. Cardinality(Refs(l) \cup {p}) = Cardinality(Refs(l)) + 1
        BY <3>1, RefsFinite, FS_AddElement
      <3>3. count[l] = Cardinality(Refs(l)) /\ count'[l] = count[l] + 1
        BY <2>1 DEF Counted
      <3> QED
        BY <3>1, <3>2, <3>3
    <2>2. CASE l # locks[k]
      <3>1. Refs(l)' = Refs(l)
        BY <2>2 DEF Refs
      <3> QED
        BY <1>2, <2>2, <3>1 DEF Counted
    <2> QED
      BY <2>1, <2>2
  <1> QED
    BY <1>1, <1>2 DEF Counted

\* Lock with no entry in the map makes a fresh one, which nobody else refers to.
LEMMA CreateStep ==
  ASSUME LockInv, TypeOK', NEW p \in Procs, LockCreate(p),
         locks[want[p]] = NoLock
  PROVE  LockInv'
  <1> USE KeyLockAssumption DEF LockInv, TypeOK
  <1>1. PICK n \in Locks :
            /\ Unreferenced(n)
            /\ locks' = [locks EXCEPT ![want[p]] = n]
            /\ count' = [count EXCEPT ![n] = 1]
            /\ holder' = [holder EXCEPT ![n] = Nobody]
            /\ mine' = [mine EXCEPT ![p] = n]
    BY DEF LockCreate
  <1>2. pc[p] = "create" /\ pc' = [pc EXCEPT ![p] = "wait"] /\ want' = want
    BY DEF LockCreate, Goto
  <1>3. EntryStays' /\ Holds'
    BY <1>1, <1>2 DEF EntryStays, Holds, Unreferenced
  <1>4. ASSUME NEW l \in Locks, \E j \in Keys : locks'[j] = l
        PROVE  count'[l] = Cardinality(Refs(l)')
    <2>1. CASE l = n
      <3>1. Refs(l)' = {p}
        BY <1>1, <1>2, <2>1 DEF Refs, Unreferenced
      <3> QED
        BY <1>1, <2>1, <3>1, FS_Singleton
    <2>2. CASE l # n
      <3>1. Refs(l)' = Refs(l) /\ count'[l] = count[l] /\ \E j \in Keys : locks[j] = l
        BY <1>1, <1>2, <1>4, <2>2 DEF Refs
      <3> QED
        BY <3>1 DEF Counted
    <2> QED
      BY <2>1, <2>2
  <1> QED
    BY <1>3, <1>4 DEF Counted

\* Unlock's lookup gives up the caller's reference; the mutex is released after it.
LEMMA UnlockStep ==
  ASSUME LockInv, TypeOK', NEW p \in Procs, UnlockLookup(p)
  PROVE  LockInv'
  <1> USE KeyLockAssumption DEF LockInv, TypeOK
  <1>1. /\ pc[p] = "crit" /\ mine[p] \in Locks /\ locks[want[p]] = mine[p]
        /\ pc' = [pc EXCEPT ![p] = "release"]
        /\ mine' = mine
        /\ count' = [count EXCEPT ![mine[p]] = @ - 1]
        /\ UNCHANGED <<locks, holder, want>>
    BY DEF UnlockLookup, Goto, EntryStays
  <1>2. EntryStays' /\ Holds'
    BY <1>1 DEF EntryStays, Holds
  <1>3. ASSUME NEW l \in Locks, \E j \in Keys : locks'[j] = l
        PROVE  count'[l] = Cardinality(Refs(l)')
    <2>1. CASE l = mine[p]
      <3>1. Refs(l)' = Refs(l) \ {p} /\ p \in Refs(l)
        BY <1>1, <2>1 DEF Refs
      <3>2. Cardinality(Refs(l) \ {p}) = Cardinality(Refs(l)) - 1
        BY <3>1, RefsFinite, FS_RemoveElement
      <3>3. count[l] = Cardinality(Refs(l)) /\ count'[l] = count[l] - 1
        BY <1>1, <1>3, <2>1 DEF Counted
      <3> QED
        BY <3>1, <3>2, <3>3
    <2>2. CASE l # mine[p]
      <3>1. Refs(l)' = Refs(l)
        BY <1>1, <2>2 DEF Refs
      <3> QED
        BY <1>1, <1>3, <2>2, <3>1 DEF Counted
    <2> QED
      BY <2>1, <2>2
  <1> QED
    BY <1>2, <1>3 DEF Counted

\* Clean leaves the entries that are referred to, as their count is not 0.
LEMMA CleanStep ==
  ASSUME LockInv, TypeOK', Clean
  PROVE  LockInv'
  <1> USE KeyLockAssumption DEF LockInv, TypeOK
  <1>1. ASSUME NEW p \in Procs, pc[p] \in {"wait", "crit"}
        PROVE  locks'[want[p]] = locks[want[p]]
    <2>1. p \in Refs(mine[p]) /\ mine[p] \in Locks /\ locks[want[p]] = mine[p]
      BY <1>1 DEF Refs, EntryStays
    <2>2. Cardinality(Refs(mine[p])) # 0
      BY <2>1, RefsFinite, FS_EmptySet
    <2>3. count[locks[want[p]]] # 0
      BY <2>1, <2>2 DEF Counted
    <2> QED
      BY <2>3 DEF Clean, Idle
  <1>2. UNCHANGED <<count, holder, pc, want, mine>>
    BY DEF Clean, Idle
  <1>3. EntryStays' /\ Holds'
    BY <1>1, <1>2 DEF EntryStays, Holds
  <1>4. ASSUME NEW l \in Locks, NEW j \in Keys, locks'[j] = l
        PROVE  count'[l] = Cardinality(Refs(l)')
    <2>1. Refs(l)' = Refs(l)
      BY <1>2 DEF Refs
    <2>2. locks[j] = l
      BY <1>4 DEF Clean, Idle
    <2> QED
      BY <1>2, <2>1, <2>2 DEF Counted
  <1> QED
    BY <1>3, <1>4 DEF Counted

\* Every step of a caller or of Clean preserves the invariant.
LEMMA NextLock == LockInv /\ [Next]_vars => LockInv'
  <1> SUFFICES ASSUME LockInv, [Next]_vars PROVE LockInv'
    OBVIOUS
  <1>0. TypeOK'
    BY TypeStep
  <1> USE KeyLockAssumption, <1>0 DEF LockInv, TypeOK
  <1>1. ASSUME NEW p \in Procs, NEW k \in Keys, LockLookup(p, k)
        PROVE  LockInv'
    <2>1. CASE locks[k] # NoLock
      <3>1. /\ pc[p] = "idle" /\ pc' = [pc EXCEPT ![p] = "wait"]
            /\ want'[p] = k /\ \A q \in Procs \ {p} : want'[q] = want[q]
            /\ mine' = [mine EXCEPT ![p] = locks[k]]
            /\ count' = [count EXCEPT ![locks[k]] = @ + 1]
            /\ UNCHANGED <<locks, holder>>
        BY <1>1, <2>1 DEF LockLookup, Goto
      <3> HIDE DEF LockInv, TypeOK
      <3> QED
        BY <2>1, <3>1, JoinStep
    <2>2. CASE locks[k] = NoLock
      <3>1. /\ pc[p] = "idle" /\ pc' = [pc EXCEPT ![p] = "create"]
            /\ \A q \in Procs \ {p} : want'[q] = want[q]
            /\ UNCHANGED <<locks, holder, count, mine>>
        BY <1>1, <2>2 DEF LockLookup, Goto
      <3>2. \A l \in Locks : Refs(l)' = Refs(l)
        BY <3>1 DEF Refs
      <3>3. Counted'
        BY <3>1, <3>2 DEF Counted
      <3>4. EntryStays' /\ Holds'
        BY <3>1 DEF EntryStays, Holds
      <3> QED
        BY <3>3, <3>4
    <2> QED
      BY <2>1, <2>2
  <1>2. ASSUME NEW p \in Procs, LockCreate(p)
        PROVE  LockInv'
    <2>1. CASE locks[want[p]] # NoLock
      <3>1. /\ pc[p] = "create" /\ pc' = [pc EXCEPT ![p] = "wait"]
            /\ want' = want /\ want[p] \in Keys
            /\ mine' = [mine EXCEPT ![p] = locks[want[p]]]
            /\ count' = [count EXCEPT ![locks[want[p]]] = @ + 1]
            /\ UNCHANGED <<locks, holder>>
        BY <1>2, <2>1 DEF LockCreate, Goto
      <3> HIDE DEF LockInv, TypeOK
      <3> QED
        BY <2>1, <3>1, JoinStep
    <2>2. CASE locks[want[p]] = NoLock
      BY <1>2, <2>2, CreateStep
    <2> QED
      BY <2>1, <2>2
  <1>3. ASSUME NEW p \in Procs, Acquire(p)
        PROVE  LockInv'
    <2>1. /\ pc[p] = "wait" /\ pc' = [pc EXCEPT ![p] = "crit"]
          /\ holder[mine[p]] = Nobody /\ holder' = [holder EXCEPT ![mine[p]] = p]
          /\ UNCHANGED <<locks, count, want, mine>>
      BY <1>3 DEF Acquire, Goto
    <2>2. \A l \in Locks : Refs(l)' = Refs(l)
      BY <2>1 DEF Refs
    <2>3. Counted'
      BY <2>1, <2>2 DEF Counted
    <2>4. EntryStays' /\ Holds'
      BY <2>1 DEF EntryStays, Holds
    <2> QED
      BY <2>3, <2>4
  <1>4. ASSUME NEW p \in Procs, Release(p)
        PROVE  LockInv'
    <2>1. /\ pc[p] = "release" /\ pc' = [pc EXCEPT ![p] = "idle"]
          /\ holder' = [holder EXCEPT ![mine[p]] = Nobody]
          /\ mine' = [mine EXCEPT ![p] = NoLock]
          /\ UNCHANGED <<locks, count, want>>
      BY <1>4 DEF Release, Goto
    <2>2. \A l \in Locks : Refs(l)' = Refs(l)
      BY <2>1 DEF Refs
    <2>3. Counted'
      BY <2>1, <2>2 DEF Counted
    <2>4. EntryStays' /\ Holds'
      BY <2>1 DEF EntryStays, Holds
    <2> QED
      BY <2>3, <2>4
  <1>5. CASE UNCHANGED vars
    <2>1. \A l \in Locks : Refs(l)' = Refs(l)
      BY <1>5 DEF Refs, vars
    <2>2. Counted'
      BY <1>5, <2>1 DEF Counted, vars
    <2> QED
      BY <1>5, <2>2 DEF EntryStays, Holds, vars
  <1> HIDE DEF LockInv, TypeOK
  <1> QED
    BY <1>0, <1>1, <1>2, <1>3, <1>4, <1>5, UnlockStep, CleanStep DEF Next

\* A key's critical sections exclude each other and Unlock releases the lock
\* its own Lock took, for any processes, keys and schedule of Clean.
THEOREM KeyLockCorrect == Spec => [](TypeOK /\ MutualExclusion /\ UnlocksOwn)
  <1>1. LockInv => TypeOK /\ MutualExclusion /\ UnlocksOwn
    BY KeyLockAssumption
       DEF LockInv, TypeOK, EntryStays, Holds, MutualExclusion, UnlocksOwn
  <1> QED
    BY <1>1, InitLock, NextLock, PTL DEF Spec
=============================================================================
