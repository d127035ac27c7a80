----------------------------- MODULE InFlightPQ -----------------------------
(***************************************************************************)
(* The binary heap of messages in flight (internal/server/                  *)
(* in_flight_pqueue.go): an array ordered by pri in which every message     *)
(* knows its slot, so that it can be removed from the middle.               *)
(*                                                                         *)
(* A heap value is a record of the array (slots 0 .. n-1 of the code are    *)
(* 1 .. n here) and of Message.index of every message.  Messages are        *)
(* elements of Items.  The slice's capacity is kept, as Push and Pop        *)
(* reallocate by it.                                                        *)
(***************************************************************************)
EXTENDS Integers, Sequences, SequencesExt

CONSTANTS
    Items,       \* the messages
    Times,       \* the values of pri
    InitCap,     \* the capacity NewRetryQueue asks for (1024)
    ShrinkOver,  \* Pop shrinks a capacity above this one (25)
    None

ASSUME CapAssumption == InitCap \in Nat \ {0} /\ ShrinkOver \in Nat \ {0}

VARIABLES
    pq,      \* the array
    index,   \* Message.index
    pri,     \* Message.pri
    cap,     \* the capacity of the slice
    shifted  \* what the last operation took off by time, or None

vars == <<pq, index, pri, cap, shifted>>

Swap(h, i, j) ==
    LET a == [h.a EXCEPT ![i + 1] = h.a[j + 1], ![j + 1] = h.a[i + 1]]
    IN  [a  |-> a,
         ix |-> [[h.ix EXCEPT ![a[i + 1]] = i] EXCEPT ![a[j + 1]] = j]]

RECURSIVE up(_, _, _)
up(h, p, j) ==
    LET i == IF j = 0 THEN 0 ELSE (j - 1) \div 2 \* Go's (0 - 1) / 2 is 0
    IN  IF i = j \/ p[h.a[j + 1]] >= p[h.a[i + 1]]
        THEN h
        ELSE up(Swap(h, i, j), p, i)

\* Faulty variant: the right child is never looked at.
LeftChild(h, p, i, n) == 2 * i + 1

\* The child of slot i that down compares with: the right one on a tie.
Child(h, p, i, n) ==
    LET l == 2 * i + 1
    IN  IF l + 1 < n /\ p[h.a[l + 1]] >= p[h.a[l + 2]] THEN l + 1 ELSE l

RECURSIVE down(_, _, _, _)
down(h, p, i, n) ==
    LET j == Child(h, p, i, n)
    IN  IF 2 * i + 1 >= n \/ p[h.a[j + 1]] >= p[h.a[i + 1]]
        THEN h
        ELSE down(Swap(h, i, j), p, j, n)

\* Drop the last slot; its message is told that it has left the queue.
Cut(h) ==
    [a  |-> Front(h.a), ix |-> [h.ix EXCEPT ![Last(h.a)] = -1]]

HeapPush(h, p, x) ==
    LET n == Len(h.a)
    IN  up([a |-> Append(h.a, x), ix |-> [h.ix EXCEPT ![x] = n]], p, n)

HeapPop(h, p) ==
    LET n == Len(h.a)
    IN  Cut(down(Swap(h, 0, n - 1), p, 0, n - 1))

\* Faulty variant: the message moved into the hole is only sifted down.
RemoveDownOnly(h, p, i) ==
    LET n == Len(h.a)
    IN  Cut(IF n - 1 # i
            THEN down(Swap(h, i, n - 1), p, i, n - 1)
            ELSE h)

HeapRemove(h, p, i) ==
    LET n == Len(h.a)
    IN  Cut(IF n - 1 # i
            THEN up(down(Swap(h, i, n - 1), p, i, n - 1), p, i)
            ELSE h)

-----------------------------------------------------------------------------
Heap == [a |-> pq, ix |-> index]

Init ==
    /\ pq = <<>>
    /\ index = [x \in Items |-> 0]
    /\ pri \in [Items -> Times]
    /\ cap = InitCap
    /\ shifted = None

Become(h) == pq' = h.a /\ index' = h.ix

\* addToInFlightPQ: the message has a new pri and is not in the queue.
Push(x, p) ==
    /\ x \notin ToSet(pq)
    /\ pri' = [pri EXCEPT ![x] = p]
    /\ cap' = IF Len(pq) + 1 > cap THEN cap * 2 ELSE cap
    /\ Become(HeapPush(Heap, pri', x))
    /\ shifted' = None

\* removeFromInFlightPQ of a message that is in the queue.
RemoveItem(x) ==
    /\ x \in ToSet(pq)
    /\ Become(HeapRemove(Heap, pri, index[x]))
    /\ shifted' = None
    /\ UNCHANGED <<pri, cap>>

\* PeekAndShift, with Pop's shrinking of the slice.
PeekAndShift(t) ==
    /\ UNCHANGED pri
    /\ \/ /\ Len(pq) > 0
          /\ pri[pq[1]] <= t
          /\ Become(HeapPop(Heap, pri))
          /\ shifted' = pq[1]
          /\ cap' = IF Len(pq) < cap \div 2 /\ cap > ShrinkOver
                    THEN cap \div 2 ELSE cap
       \/ /\ Len(pq) > 0 => pri[pq[1]] > t
          /\ shifted' = None
          /\ UNCHANGED <<pq, index, cap>>

Next ==
    \/ \E x \in Items, p \in Times : Push(x, p)
    \/ \E x \in Items : RemoveItem(x)
    \/ \E t \in Times : PeekAndShift(t)

Spec == Init /\ [][Next]_vars

-----------------------------------------------------------------------------
\* After any mix of pushes, shifts and removals from the middle, no message
\* is due before its parent slot and every queued message's index names its
\* own slot, which removeFromInFlightPQ depends on; a message taken off by
\* time is told so, or finishMessage would remove another by its old index
\* (in_flight_pqueue.go:9-70).
HeapShape ==
    /\ \A j \in 2 .. Len(pq) : pri[pq[j \div 2]] <= pri[pq[j]]
    /\ \A i \in DOMAIN pq : index[pq[i]] = i - 1
    /\ shifted # None => index[shifted] = -1

\* The array implements the priority queue that RetryQueue assumes: a shift
\* takes a message with the least pri, and Remove(msg.index) takes msg.
ImplementsPQ ==
    INSTANCE PriorityQueue WITH queued <- ToSet(pq)

RefinesPQ == ImplementsPQ!PQSpec
=============================================================================
