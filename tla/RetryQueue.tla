----------------------------- MODULE RetryQueue -----------------------------
(***************************************************************************)
(* The retry queue of the IM server (internal/server/retry_queue.go) with   *)
(* the delivery workers and the acknowledgement handlers that share it      *)
(* (delivery_manager.go, processor.go).                                     *)
(*                                                                         *)
(* A persisted message is cloned once per receiving connection.  A clone is *)
(* put in the map inFlightMessages, under a key made of user, device and    *)
(* message id, and in the priority queue inFlightPQ, ordered by the time it *)
(* is to be sent again.  Each map and queue operation is a critical section *)
(* of its own, so every action below is one critical section: the           *)
(* interleavings between "in the map" and "in the queue" are all explored.  *)
(*                                                                         *)
(* Abstractions.  A clone is a value, its payload is left out.  The clones  *)
(* of NoPersist messages never reach the queue (delivery_manager.go:93) and *)
(* are left out.  The heap is the set of the clones it holds; module        *)
(* InFlightPQ shows that the array implements such a set.  Time is the set  *)
(* due of the clones whose pri has passed, and a scan remembers as horizon  *)
(* what was due when it read the clock.                                     *)
(***************************************************************************)
EXTENDS Naturals

CONSTANTS
    Clones,     \* the message clones, one per (message, receiving connection)
    Keys,       \* the in-flight keys (uid, deviceID, messageID)
    Key,        \* the key of each clone
    Devices,    \* the (uid, deviceID) pairs
    Device,     \* the device of each key
    Blank,      \* the devices whose deviceID is blank
    Scanners,   \* the scans of the queue that may run at the same time
    Ackers,     \* the goroutines that process RECVACK frames
    MaxCount,   \* opts.MessageRetry.MaxCount
    None        \* no clone

ASSUME ConstantsAssumption ==
    /\ Key \in [Clones -> Keys]
    /\ Device \in [Keys -> Devices]
    /\ Blank \subseteq Devices
    /\ MaxCount \in Nat
    /\ None \notin Clones

VARIABLES
    inFlightMessages, \* key -> the clone in flight, or None
    inFlightPQ,       \* the clones in the priority queue
    index,            \* Message.index: "zero" (never queued), "slot" or "gone" (-1)
    due,              \* the clones whose pri is in the past
    retryCount,       \* Message.retryCount
    stage,            \* where the worker that handles the clone is
    unsent,           \* dataOut calls still to be made for the clone
    scan,             \* the state of each scan
    ack,              \* the clone an ack handler has still to take off the queue
    received,         \* the keys of the packets that some client has received
    online,           \* the devices with a connection in the ConnManager
    acked,            \* history: the clones an acknowledgement took off the map
    crashed           \* a panic in a bare goroutine has ended the server

vars == <<inFlightMessages, inFlightPQ, index, due, retryCount, stage, unsent,
          scan, ack, received, online, acked, crashed>>

\* "new": deliveryMessages has not come to the clone; "map" and "heap":
\* startInFlightTimeout is before pushInFlightMessage, before addToInFlightPQ;
\* "idle": no worker handles it; "retry": a retry task is in the pool;
\* "done": retryDeliveryMsg has given the clone up.
Stages == {"new", "map", "heap", "idle", "retry", "done"}

NoScan == [at |-> "off", horizon |-> {}, msg |-> None, hit |-> None]

Scans == [at      : {"off", "shift", "finish", "remove"},
          horizon : SUBSET Clones,
          msg     : Clones \cup {None},
          hit     : Clones \cup {None}]

TypeOK ==
    /\ inFlightMessages \in [Keys -> Clones \cup {None}]
    /\ inFlightPQ \subseteq Clones
    /\ index \in [Clones -> {"zero", "slot", "gone"}]
    /\ due \subseteq Clones
    /\ retryCount \in [Clones -> 0..(MaxCount + 1)]
    /\ stage \in [Clones -> Stages]
    /\ unsent \in [Clones -> Nat]
    /\ scan \in [Scanners -> Scans]
    /\ ack \in [Ackers -> Clones \cup {None}]
    /\ received \subseteq Keys
    /\ online \subseteq Devices
    /\ acked \subseteq Clones
    /\ crashed \in BOOLEAN

Init ==
    /\ inFlightMessages = [k \in Keys |-> None]
    /\ inFlightPQ = {}
    /\ index = [c \in Clones |-> "zero"]
    /\ due = {}
    /\ retryCount = [c \in Clones |-> 0]
    /\ stage = [c \in Clones |-> "new"]
    /\ unsent = [c \in Clones |-> 0]
    /\ scan = [s \in Scanners |-> NoScan]
    /\ ack = [a \in Ackers |-> None]
    /\ received = {}
    /\ online = Devices
    /\ acked = {}
    /\ crashed = FALSE

-----------------------------------------------------------------------------
(* Delivery workers.                                                       *)

\* deliveryMessages reaches a connection of the receiver and clones the
\* message for it; startInFlightTimeout stamps pri.
Deliver(c) ==
    /\ ~crashed
    /\ stage[c] = "new"
    /\ Device[Key[c]] \in online
    /\ stage' = [stage EXCEPT ![c] = "map"]
    /\ UNCHANGED <<inFlightMessages, inFlightPQ, index, due, retryCount, unsent,
                   scan, ack, received, online, acked, crashed>>

\* Faulty variant: the packet is sent before the clone is in the queue.
PushAndSendEarly(c) ==
    /\ ~crashed
    /\ stage[c] = "map"
    /\ stage' = [stage EXCEPT ![c] = "heap"]
    /\ inFlightMessages' =
          [inFlightMessages EXCEPT ![Key[c]] = IF @ = None THEN c ELSE @]
    /\ unsent' = [unsent EXCEPT ![c] = @ + 1]
    /\ UNCHANGED <<inFlightPQ, index, due, retryCount, scan, ack,
                   received, online, acked, crashed>>

\* pushInFlightMessage: a key that is already there keeps its clone.
PushInFlightMessage(c) ==
    /\ ~crashed
    /\ stage[c] = "map"
    /\ stage' = [stage EXCEPT ![c] = "heap"]
    /\ inFlightMessages' =
          [inFlightMessages EXCEPT ![Key[c]] = IF @ = None THEN c ELSE @]
    /\ UNCHANGED <<inFlightPQ, index, due, retryCount, unsent, scan, ack,
                   received, online, acked, crashed>>

\* Faulty variant: a clone that has been queued before is not pushed again.
AddToInFlightPQOnce(c) ==
    /\ ~crashed
    /\ stage[c] = "heap"
    /\ stage' = [stage EXCEPT ![c] = "idle"]
    /\ inFlightPQ' = IF index[c] = "zero" THEN inFlightPQ \cup {c} ELSE inFlightPQ
    /\ index' = [index EXCEPT ![c] = IF @ = "zero" THEN "slot" ELSE @]
    /\ unsent' = [unsent EXCEPT ![c] = @ + 1]
    /\ UNCHANGED <<inFlightMessages, due, retryCount, scan, ack, received,
                   online, acked, crashed>>

\* addToInFlightPQ pushes the clone whatever the map says.
AddToInFlightPQ(c) ==
    /\ ~crashed
    /\ stage[c] = "heap"
    /\ stage' = [stage EXCEPT ![c] = "idle"]
    /\ inFlightPQ' = inFlightPQ \cup {c}
    /\ index' = [index EXCEPT ![c] = "slot"]
    /\ unsent' = [unsent EXCEPT ![c] = @ + 1]
    /\ UNCHANGED <<inFlightMessages, due, retryCount, scan, ack, received,
                   online, acked, crashed>>

\* The worker ends with dataOut: the client receives the packet, or does not
\* because the connection has gone or encrypting the payload failed.
DataOut(c) ==
    /\ ~crashed
    /\ unsent[c] > 0
    /\ unsent' = [unsent EXCEPT ![c] = @ - 1]
    /\ \/ /\ Device[Key[c]] \in online
          /\ received' = received \cup {Key[c]}
       \/ UNCHANGED received
    /\ UNCHANGED <<inFlightMessages, inFlightPQ, index, due, retryCount, stage,
                   scan, ack, online, acked, crashed>>

\* retryDeliveryMsg may send the clone again: it counts the attempt first.
MayRetry(c) ==
    /\ Device[Key[c]] \notin Blank
    /\ retryCount[c] + 1 <= MaxCount
    /\ Device[Key[c]] \in online

\* Faulty variant: the attempt is not counted.
RetryUncounted(c) ==
    /\ ~crashed
    /\ stage[c] = "retry"
    /\ \/ /\ ~MayRetry(c)
          /\ stage' = [stage EXCEPT ![c] = "done"]
          /\ UNCHANGED <<due, scan>>
       \/ /\ MayRetry(c)
          /\ stage' = [stage EXCEPT ![c] = "map"]
          /\ due' = due \ {c}
          /\ scan' = [s \in Scanners |->
                         [scan[s] EXCEPT !.horizon = @ \ {c}]]
    /\ UNCHANGED <<inFlightMessages, inFlightPQ, index, retryCount, unsent, ack,
                   received, online, acked, crashed>>

\* A retry task gives the clone up, or stamps it and starts it again.
RetryDeliveryMsg(c) ==
    /\ ~crashed
    /\ stage[c] = "retry"
    /\ retryCount' = [retryCount EXCEPT ![c] = @ + 1]
    /\ \/ /\ ~MayRetry(c)
          /\ stage' = [stage EXCEPT ![c] = "done"]
          /\ UNCHANGED <<due, scan>>
       \/ /\ MayRetry(c)
          /\ stage' = [stage EXCEPT ![c] = "map"]
          /\ due' = due \ {c}
          /\ scan' = [s \in Scanners |->
                         [scan[s] EXCEPT !.horizon = @ \ {c}]]
    /\ UNCHANGED <<inFlightMessages, inFlightPQ, index, unsent, ack, received,
                   online, acked, crashed>>

-----------------------------------------------------------------------------
(* removeFromInFlightPQ, shared by scans and acknowledgements.             *)

\* What may stand in slot 0 of the heap: a clone with the least pri.
Roots == IF inFlightPQ \cap due # {} THEN inFlightPQ \cap due ELSE inFlightPQ

Dequeue(c) ==
    /\ inFlightPQ' = inFlightPQ \ {c}
    /\ index' = [index EXCEPT ![c] = "gone"]

\* The clone is removed by its index: nothing is done for -1, and an index
\* that was never set is 0, the slot of whatever clone is first.
RemoveFromInFlightPQ(m) ==
    \/ /\ index[m] = "gone"
       /\ UNCHANGED <<inFlightPQ, index, crashed>>
    \/ /\ index[m] = "slot"
       /\ Dequeue(m)
       /\ UNCHANGED crashed
    \/ /\ index[m] = "zero"
       /\ \E r \in Roots : Dequeue(r)
       /\ UNCHANGED crashed
    \/ /\ index[m] = "zero"
       /\ inFlightPQ = {}
       /\ crashed' = TRUE
       /\ UNCHANGED <<inFlightPQ, index>>

-----------------------------------------------------------------------------
(* Scans: processInFlightQueue.  The timing wheel starts each tick in a     *)
(* goroutine of its own, so a slow scan overlaps the next one.              *)

ScanStart(s) ==
    /\ ~crashed
    /\ scan[s].at = "off"
    /\ scan' = [scan EXCEPT ![s] = [NoScan EXCEPT !.at = "shift",
                                                  !.horizon = due]]
    /\ UNCHANGED <<inFlightMessages, inFlightPQ, index, due, retryCount, stage,
                   unsent, ack, received, online, acked, crashed>>

\* Faulty variant: the first clone is looked at and stays in the queue.
ScanPeek(s) ==
    /\ ~crashed
    /\ scan[s].at = "shift"
    /\ \/ \E c \in inFlightPQ \cap scan[s].horizon :
             scan' = [scan EXCEPT ![s].at = "finish", ![s].msg = c]
       \/ /\ inFlightPQ \cap scan[s].horizon = {}
          /\ scan' = [scan EXCEPT ![s] = NoScan]
    /\ UNCHANGED <<inFlightMessages, inFlightPQ, index, due, retryCount, stage,
                   unsent, ack, received, online, acked, crashed>>

\* PeekAndShift takes the first clone if it was due when the scan began.
ScanShift(s) ==
    /\ ~crashed
    /\ scan[s].at = "shift"
    /\ \/ \E c \in inFlightPQ \cap scan[s].horizon :
             /\ Dequeue(c)
             /\ scan' = [scan EXCEPT ![s].at = "finish", ![s].msg = c]
       \/ /\ inFlightPQ \cap scan[s].horizon = {}
          /\ scan' = [scan EXCEPT ![s] = NoScan]
          /\ UNCHANGED <<inFlightPQ, index>>
    /\ UNCHANGED <<inFlightMessages, due, retryCount, stage, unsent, ack,
                   received, online, acked, crashed>>

\* Faulty variant: the error of popInFlightMessage is ignored.
ScanFinishAnyway(s) ==
    LET k == Key[scan[s].msg] IN
    /\ ~crashed
    /\ scan[s].at = "finish"
    /\ scan' = [scan EXCEPT ![s].at = "remove", ![s].hit = scan[s].msg]
    /\ inFlightMessages' = [inFlightMessages EXCEPT ![k] = None]
    /\ UNCHANGED <<inFlightPQ, index, due, retryCount, stage, unsent, ack,
                   received, online, acked, crashed>>

\* popInFlightMessage of the shifted clone's key; its error ends the scan.
ScanFinish(s) ==
    LET k == Key[scan[s].msg] IN
    /\ ~crashed
    /\ scan[s].at = "finish"
    /\ \/ /\ inFlightMessages[k] = None
          /\ scan' = [scan EXCEPT ![s] = NoScan]
          /\ UNCHANGED inFlightMessages
       \/ /\ inFlightMessages[k] # None
          /\ scan' = [scan EXCEPT ![s].at = "remove",
                                  ![s].hit = inFlightMessages[k]]
          /\ inFlightMessages' = [inFlightMessages EXCEPT ![k] = None]
    /\ UNCHANGED <<inFlightPQ, index, due, retryCount, stage, unsent, ack,
                   received, online, acked, crashed>>

\* The second half of finishMessage, then the retry goes to the pool.
ScanRemove(s) ==
    /\ ~crashed
    /\ scan[s].at = "remove"
    /\ RemoveFromInFlightPQ(scan[s].hit)
    /\ stage' = [stage EXCEPT ![scan[s].msg] = "retry"]
    /\ scan' = [scan EXCEPT ![s].at = "shift", ![s].msg = None, ![s].hit = None]
    /\ UNCHANGED <<inFlightMessages, due, retryCount, unsent, ack, received,
                   online, acked>>

-----------------------------------------------------------------------------
(* Acknowledgements: processRecvacks, finishMessage.                       *)

\* A client acknowledges a packet it has received, once per copy or more.
\* popInFlightMessage fails without effect when the key is not in flight.
AckPop(a, k) ==
    /\ ~crashed
    /\ ack[a] = None
    /\ k \in received
    /\ inFlightMessages[k] # None
    /\ ack' = [ack EXCEPT ![a] = inFlightMessages[k]]
    /\ acked' = acked \cup {inFlightMessages[k]}
    /\ inFlightMessages' = [inFlightMessages EXCEPT ![k] = None]
    /\ UNCHANGED <<inFlightPQ, index, due, retryCount, stage, unsent, scan,
                   received, online, crashed>>

AckRemove(a) ==
    /\ ~crashed
    /\ ack[a] # None
    /\ RemoveFromInFlightPQ(ack[a])
    /\ ack' = [ack EXCEPT ![a] = None]
    /\ UNCHANGED <<inFlightMessages, due, retryCount, stage, unsent, scan,
                   received, online, acked>>

-----------------------------------------------------------------------------
(* Time and connections.                                                   *)

Expire(c) ==
    /\ ~crashed
    /\ stage[c] # "new"
    /\ c \notin due
    /\ due' = due \cup {c}
    /\ UNCHANGED <<inFlightMessages, inFlightPQ, index, retryCount, stage,
                   unsent, scan, ack, received, online, acked, crashed>>

Connect(d) ==
    /\ ~crashed
    /\ d \notin online
    /\ online' = online \cup {d}
    /\ UNCHANGED <<inFlightMessages, inFlightPQ, index, due, retryCount, stage,
                   unsent, scan, ack, received, acked, crashed>>

Disconnect(d) ==
    /\ ~crashed
    /\ d \in online
    /\ online' = online \ {d}
    /\ UNCHANGED <<inFlightMessages, inFlightPQ, index, due, retryCount, stage,
                   unsent, scan, ack, received, acked, crashed>>

-----------------------------------------------------------------------------
Worker(c) ==
    \/ Deliver(c)
    \/ PushInFlightMessage(c)
    \/ AddToInFlightPQ(c)
    \/ DataOut(c)
    \/ RetryDeliveryMsg(c)

Scanner(s) == ScanStart(s) \/ ScanShift(s) \/ ScanFinish(s) \/ ScanRemove(s)

Next ==
    \/ \E c \in Clones : Worker(c) \/ Expire(c)
    \/ \E s \in Scanners : Scanner(s)
    \/ \E a \in Ackers : AckRemove(a) \/ \E k \in Keys : AckPop(a, k)
    \/ \E d \in Devices : Connect(d) \/ Disconnect(d)

Spec == Init /\ [][Next]_vars

\* The delivery pool runs what is submitted to it, a goroutine that holds or
\* waits for inFlightMutex goes on, the timing wheel starts scans for ever and
\* time passes.  Nothing is assumed of the clients: they may never answer.
Fairness ==
    /\ \A c \in Clones : WF_vars(PushInFlightMessage(c) \/ AddToInFlightPQ(c)
                                     \/ RetryDeliveryMsg(c))
    /\ \A c \in Clones : WF_vars(DataOut(c)) /\ WF_vars(Expire(c))
    /\ \A s \in Scanners : WF_vars(Scanner(s))
    /\ \A a \in Ackers : WF_vars(AckRemove(a))

FairSpec == Spec /\ Fairness

-----------------------------------------------------------------------------
(* Properties.                                                             *)

\* No two receiving connections share a user, a device id and a message.
KeyInjective == \A c1, c2 \in Clones : Key[c1] = Key[c2] => c1 = c2

Scanning(c) == \E s \in Scanners : scan[s].msg = c

\* At any time a clone is in the custody of one party at most: the heap, one
\* scan, or one worker.  Otherwise it would be retried twice at once, or be
\* twice in the heap with one Message.index for two slots.  It holds whatever
\* the keys are, although the heap and the map are updated in separate
\* critical sections (retry_queue.go:32-111, delivery_manager.go:138-171).
SingleCustody ==
    \A c \in Clones :
        /\ c \in inFlightPQ => stage[c] = "idle" /\ ~Scanning(c)
        /\ Scanning(c) => stage[c] = "idle"
        /\ \A s1, s2 \in Scanners :
               scan[s1].msg = c /\ scan[s2].msg = c => s1 = s2

\* A clone in the map of messages in flight will come to a scan: it is in the
\* heap, or its worker is about to put it there, or a scan has just taken it
\* off the heap and is about to take it off the map.  A clone in the map and
\* not in the heap would never be sent again and would never leave the map
\* (retry_queue.go:32-57, 85-94).
NoStranded ==
    \A k \in Keys : LET c == inFlightMessages[k] IN
        c # None => \/ c \in inFlightPQ
                    \/ stage[c] = "heap"
                    \/ \E s \in Scanners : scan[s].at = "finish" /\ scan[s].msg = c

\* Removing by a Message.index that was never set would take another message
\* off the heap, or panic on an empty heap and end the server: every clone
\* about to be removed has been queued (retry_queue.go:85-94,
\* in_flight_pqueue.go:45-56).
RemovesOwnSlot ==
    /\ ~crashed
    /\ \A a \in Ackers : ack[a] # None => index[ack[a]] # "zero"
    /\ \A s \in Scanners : scan[s].at = "remove" => scan[s].hit = scan[s].msg

\* Once an acknowledgement has taken a message off the map no retry of it is
\* started, however its handler interleaves with scans and with the worker
\* that is sending it again (retry_queue.go:74-111).
AckedNeverRetried ==
    [][\A c \in acked : retryCount'[c] = retryCount[c]]_vars

\* No worker or scan has anything left to do for the clone.
Settled(c) ==
    /\ inFlightMessages[Key[c]] # c
    /\ c \notin inFlightPQ
    /\ stage[c] \in {"idle", "done"}
    /\ ~Scanning(c)

\* Every message handed to the retry queue leaves it for good: it is
\* acknowledged, or given up after MaxCount retries or when the device has
\* gone (retry_queue.go:96-118, delivery_manager.go:146-171).
RetriesSettle == \A c \in Clones : <>[](stage[c] = "new" \/ Settled(c))
=============================================================================
