--------------------------- MODULE PriorityQueue ---------------------------
(***************************************************************************)
(* What RetryQueue relies on of its priority queue: a set of items, each    *)
(* with a time; an item can be added or removed, and a shift at time t      *)
(* takes an item with the least time if that time is not after t.           *)
(***************************************************************************)
EXTENDS Naturals

CONSTANTS Items, Times, None

VARIABLES queued, pri, shifted

pqVars == <<queued, pri, shifted>>

PQInit ==
    /\ queued = {}
    /\ pri \in [Items -> Times]
    /\ shifted = None

Add(x, p) ==
    /\ x \notin queued
    /\ queued' = queued \cup {x}
    /\ pri' = [pri EXCEPT ![x] = p]
    /\ shifted' = None

Take(x) ==
    /\ x \in queued
    /\ queued' = queued \ {x}
    /\ UNCHANGED pri
    /\ shifted' = None

First == {x \in queued : \A y \in queued : pri[x] <= pri[y]}

Shift(t) ==
    /\ UNCHANGED pri
    /\ \/ \E x \in First :
             /\ pri[x] <= t
             /\ queued' = queued \ {x}
             /\ shifted' = x
       \/ /\ \A x \in queued : pri[x] > t
          /\ shifted' = None
          /\ UNCHANGED queued

PQNext ==
    \/ \E x \in Items, p \in Times : Add(x, p)
    \/ \E x \in Items : Take(x)
    \/ \E t \in Times : Shift(t)

PQSpec == PQInit /\ [][PQNext]_pqVars
=============================================================================
