------------------------------- MODULE KeyLock -------------------------------
(***************************************************************************)
(* A lock per key (pkg/keylock/keylock.go), used for topics, conversations, *)
(* user tokens and lists.  The inner locks are made on demand and counted;  *)
(* Clean throws the ones away that nobody counts.  The hard part is that    *)
(* Unlock uncounts the lock before it releases it.                          *)
(*                                                                         *)
(* A section under the global RWMutex is one action: readers only look up   *)
(* and add atomically, and writers exclude them.  Inner locks come from the *)
(* set Locks, and an inner lock that no map entry and no process refers to  *)
(* can be made again, as the garbage collector would reuse its memory.      *)
(***************************************************************************)
EXTENDS Integers, FiniteSets

CONSTANTS Procs, Keys, Locks, NoLock, Nobody

ASSUME KeyLockAssumption ==
    /\ NoLock \notin Locks
    /\ Nobody \notin Procs
    /\ IsFiniteSet(Procs)

VARIABLES
    locks,   \* KeyLock.locks: key -> inner lock, or NoLock
    count,   \* innerLock.count
    holder,  \* who holds the mutex of the inner lock
    pc,      \* where the process is in Lock and Unlock
    want,    \* the key the process locks
    mine     \* the inner lock the process has looked up

vars == <<locks, count, holder, pc, want, mine>>

\* "create": Lock found no inner lock; "wait": Lock has counted one and
\* waits for its mutex; "crit": between Lock and Unlock; "release": Unlock has
\* uncounted the inner lock and has still to unlock its mutex.
PCs == {"idle", "create", "wait", "crit", "release"}

TypeOK ==
    /\ locks \in [Keys -> Locks \cup {NoLock}]
    /\ count \in [Locks -> Nat]
    /\ holder \in [Locks -> Procs \cup {Nobody}]
    /\ pc \in [Procs -> PCs]
    /\ want \in [Procs -> Keys]
    /\ mine \in [Procs -> Locks \cup {NoLock}]

Init ==
    /\ locks = [k \in Keys |-> NoLock]
    /\ count = [l \in Locks |-> 0]
    /\ holder = [l \in Locks |-> Nobody]
    /\ pc = [p \in Procs |-> "idle"]
    /\ want \in [Procs -> Keys]
    /\ mine = [p \in Procs |-> NoLock]

Goto(p, l) == pc' = [pc EXCEPT ![p] = l]

\* The part of Lock under the read lock.
LockLookup(p, k) ==
    /\ pc[p] = "idle"
    /\ want' = [want EXCEPT ![p] = k]
    /\ \/ /\ locks[k] # NoLock
          /\ count' = [count EXCEPT ![locks[k]] = @ + 1]
          /\ mine' = [mine EXCEPT ![p] = locks[k]]
          /\ Goto(p, "wait")
       \/ /\ locks[k] = NoLock
          /\ Goto(p, "create")
          /\ UNCHANGED <<count, mine>>
    /\ UNCHANGED <<locks, holder>>

Unreferenced(l) ==
    /\ \A k \in Keys : locks[k] # l
    /\ \A p \in Procs : mine[p] # l

\* The part of Lock under the write lock: another process may have been first.
LockCreate(p) ==
    /\ pc[p] = "create"
    /\ \/ /\ locks[want[p]] # NoLock
          /\ count' = [count EXCEPT ![locks[want[p]]] = @ + 1]
          /\ mine' = [mine EXCEPT ![p] = locks[want[p]]]
          /\ UNCHANGED <<locks, holder>>
       \/ /\ locks[want[p]] = NoLock
          /\ \E l \in Locks :
                /\ Unreferenced(l)
                /\ locks' = [locks EXCEPT ![want[p]] = l]
                /\ count' = [count EXCEPT ![l] = 1]
                /\ holder' = [holder EXCEPT ![l] = Nobody]
                /\ mine' = [mine EXCEPT ![p] = l]
    /\ Goto(p, "wait")
    /\ UNCHANGED want

\* keyLock.Lock()
Acquire(p) ==
    /\ pc[p] = "wait"
    /\ holder[mine[p]] = Nobody
    /\ holder' = [holder EXCEPT ![mine[p]] = p]
    /\ Goto(p, "crit")
    /\ UNCHANGED <<locks, count, want, mine>>

\* Unlock looks the key up again; without an entry it unlocks nothing.
UnlockLookup(p) ==
    /\ pc[p] = "crit"
    /\ mine' = [mine EXCEPT ![p] = locks[want[p]]]
    /\ \/ /\ locks[want[p]] # NoLock
          /\ count' = [count EXCEPT ![locks[want[p]]] = @ - 1]
          /\ Goto(p, "release")
       \/ /\ locks[want[p]] = NoLock
          /\ Goto(p, "idle")
          /\ UNCHANGED count
    /\ UNCHANGED <<locks, holder, want>>

\* Faulty variant: the mutex of the inner lock is left locked.
ReleaseNothing(p) ==
    /\ pc[p] = "release"
    /\ mine' = [mine EXCEPT ![p] = NoLock]
    /\ Goto(p, "idle")
    /\ UNCHANGED <<locks, count, holder, want>>

\* keyLock.Unlock(): Go's mutex can be unlocked by anyone.
Release(p) ==
    /\ pc[p] = "release"
    /\ holder' = [holder EXCEPT ![mine[p]] = Nobody]
    /\ mine' = [mine EXCEPT ![p] = NoLock]
    /\ Goto(p, "idle")
    /\ UNCHANGED <<locks, count, want>>

\* Faulty variant: a lock with one reference is thrown away too.
Unused(k) == locks[k] # NoLock /\ count[locks[k]] <= 1

\* The inner lock of k is in the map and nobody counts it.
Idle(k) == locks[k] # NoLock /\ count[locks[k]] = 0

\* Clean, from the clean loop, under the write lock.
Clean ==
    /\ \E k \in Keys : Idle(k)
    /\ locks' = [k \in Keys |-> IF Idle(k) THEN NoLock ELSE locks[k]]
    /\ UNCHANGED <<count, holder, pc, want, mine>>

Next ==
    \/ \E p \in Procs : \/ \E k \in Keys : LockLookup(p, k)
                        \/ LockCreate(p)
                        \/ Acquire(p)
                        \/ UnlockLookup(p)
                        \/ Release(p)
    \/ Clean

Spec == Init /\ [][Next]_vars

\* A process that has begun Lock or Unlock goes on, critical sections end, and
\* sync.Mutex hands a lock to a waiter that has starved.
Fairness ==
    /\ \A p \in Procs : WF_vars(LockCreate(p))
    /\ \A p \in Procs : WF_vars(UnlockLookup(p)) /\ WF_vars(Release(p))
    /\ \A p \in Procs : SF_vars(Acquire(p))

FairSpec == Spec /\ Fairness

-----------------------------------------------------------------------------
\* Two processes are never both between Lock(k) and Unlock(k), even while
\* Clean removes the entry of a lock that is uncounted and not yet unlocked
\* and another process makes a new one (keylock.go:31-73).
MutualExclusion ==
    \A p, q \in Procs :
        pc[p] = "crit" /\ pc[q] = "crit" /\ want[p] = want[q] => p = q

\* Unlock releases the inner lock that its own Lock took: it never unlocks
\* a mutex held by another process or by nobody, which Go answers with a fatal
\* error, and it never returns without unlocking (keylock.go:52-62).
UnlocksOwn ==
    \A p \in Procs :
        /\ pc[p] = "release" => holder[mine[p]] = p
        /\ pc[p] = "crit" => locks[want[p]] # NoLock /\ holder[locks[want[p]]] = p

\* Every Lock returns: no waiter is left on an inner lock that has been
\* thrown away while it waited (keylock.go:31-73).
LockReturns == \A p \in Procs : pc[p] \in {"create", "wait"} ~> pc[p] = "crit"
=============================================================================
