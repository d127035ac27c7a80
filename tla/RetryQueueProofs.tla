-------------------------- MODULE RetryQueueProofs --------------------------
(***************************************************************************)
(* Proofs about RetryQueue for every value of its constants.                *)
(***************************************************************************)
EXTENDS RetryQueue, TLAPS

\* What the custody argument rests on: a clone that is not given up has
\* retries left, Message.index says whether the clone is in the heap, and the
\* fields of a scan agree with its position.
CountOK == \A c \in Clones : stage[c] # "done" => retryCount[c] <= MaxCount

IndexOK == \A c \in Clones : index[c] = "slot" <=> c \in inFlightPQ

ScanOK ==
    \A s \in Scanners :
        /\ scan[s].at \in {"finish", "remove"} <=> scan[s].msg # None
        /\ scan[s].at = "remove" => scan[s].hit # None

CustodyInv == TypeOK /\ CountOK /\ IndexOK /\ ScanOK /\ SingleCustody

\* Nothing is queued, scanned or acknowledged at first.
LEMMA InitCustody == Init => CustodyInv
  <1> SUFFICES ASSUME Init PROVE CustodyInv
    OBVIOUS
  <1> USE ConstantsAssumption DEF Init, NoScan
  <1>1. TypeOK
    <2>1. scan \in [Scanners -> Scans]
      BY DEF Scans
    <2>2. retryCount \in [Clones -> 0..(MaxCount + 1)]
      OBVIOUS
    <2>3. inFlightMessages \in [Keys -> Clones \cup {None}]
      OBVIOUS
    <2>4. ack \in [Ackers -> Clones \cup {None}]
      OBVIOUS
    <2> QED
      BY <2>1, <2>2, <2>3, <2>4 DEF TypeOK, Stages
  <1>2. CountOK /\ IndexOK /\ ScanOK
    BY DEF CountOK, IndexOK, ScanOK
  <1>3. SingleCustody
    BY DEF SingleCustody, Scanning
  <1> QED
    BY <1>1, <1>2, <1>3 DEF CustodyInv

\* A delivery or retry worker moves its own clone only.
LEMMA WorkerCustody ==
  ASSUME CustodyInv, NEW c \in Clones, Worker(c) \/ Expire(c)
  PROVE  CustodyInv'
  <1> USE ConstantsAssumption
          DEF CustodyInv, TypeOK, CountOK, IndexOK, ScanOK, SingleCustody,
              Scanning, Scans, Stages
  <1>1. CASE Deliver(c)
    BY <1>1 DEF Deliver
  <1>2. CASE PushInFlightMessage(c)
    BY <1>2 DEF PushInFlightMessage
  <1>3. CASE AddToInFlightPQ(c)
    BY <1>3 DEF AddToInFlightPQ
  <1>4. CASE DataOut(c)
    BY <1>4 DEF DataOut
  <1>5. CASE RetryDeliveryMsg(c)
    BY <1>5 DEF RetryDeliveryMsg, MayRetry
  <1>6. CASE Expire(c)
    BY <1>6 DEF Expire
  <1> QED
    BY <1>1, <1>2, <1>3, <1>4, <1>5, <1>6 DEF Worker

\* What removeFromInFlightPQ does to the heap and to the indexes.
LEMMA RemoveEffect ==
  ASSUME TypeOK, IndexOK, NEW m \in Clones, RemoveFromInFlightPQ(m)
  PROVE  /\ inFlightPQ' \subseteq inFlightPQ
         /\ index' \in [Clones -> {"zero", "slot", "gone"}]
         /\ crashed' \in BOOLEAN
         /\ \A c \in Clones : index'[c] = "slot" <=> c \in inFlightPQ'
         /\ \A c \in Clones : index'[c] = "zero" <=> index[c] = "zero"
  <1> USE DEF TypeOK, IndexOK, Dequeue, Roots
  <1>1. CASE index[m] = "gone"
    BY <1>1 DEF RemoveFromInFlightPQ
  <1>2. CASE index[m] = "slot"
    BY <1>2 DEF RemoveFromInFlightPQ
  <1>3. CASE index[m] = "zero" /\ \E r \in Roots : Dequeue(r) /\ UNCHANGED crashed
    BY <1>3
  <1>4. CASE index[m] = "zero" /\ inFlightPQ = {} /\ crashed' = TRUE
                 /\ UNCHANGED <<inFlightPQ, index>>
    BY <1>4
  <1> QED
    BY <1>1, <1>2, <1>3, <1>4 DEF RemoveFromInFlightPQ

\* The field updates of a scan leave a scan record.
LEMMA ScanRecords ==
  ASSUME NEW r \in Scans, NEW a \in {"off", "shift", "finish", "remove"},
         NEW m \in Clones \cup {None}, NEW h \in Clones \cup {None}
  PROVE  /\ [r EXCEPT !.at = a, !.msg = m] \in Scans
         /\ [r EXCEPT !.at = a, !.hit = h] \in Scans
         /\ [r EXCEPT !.at = a, !.msg = m, !.hit = h] \in Scans
  <1>1. [r EXCEPT !.at = a, !.msg = m] \in Scans
    BY DEF Scans
  <1>2. [r EXCEPT !.at = a, !.hit = h] \in Scans
    BY DEF Scans
  <1>3. [r EXCEPT !.at = a, !.msg = m, !.hit = h] \in Scans
    BY DEF Scans
  <1> QED
    BY <1>1, <1>2, <1>3

\* Replacing one scanner's record keeps the type of scan.
LEMMA ScanUpdated ==
  ASSUME NEW f \in [Scanners -> Scans], NEW s \in Scanners, NEW r \in Scans
  PROVE  [f EXCEPT ![s] = r] \in [Scanners -> Scans]
  OBVIOUS

\* Every step of a scanner keeps every variable's type.
LEMMA ScannerType ==
  ASSUME CustodyInv, NEW s \in Scanners, Scanner(s)
  PROVE  TypeOK'
  <1> USE ConstantsAssumption DEF CustodyInv, TypeOK
  <1>1. CASE ScanStart(s)
    <2>1. [NoScan EXCEPT !.at = "shift", !.horizon = due] \in Scans
      BY DEF NoScan, Scans
    <2> QED
      BY <1>1, <2>1 DEF ScanStart
  <1>2. CASE ScanShift(s)
    <2>1. NoScan \in Scans
      BY DEF NoScan, Scans
    <2>2. ASSUME NEW c \in inFlightPQ
          PROVE  [scan[s] EXCEPT !.at = "finish", !.msg = c] \in Scans
      <3> HIDE DEF CustodyInv
      <3>1. scan[s] \in Scans /\ c \in Clones \cup {None}
        BY DEF CustodyInv
      <3> QED
        BY <3>1, ScanRecords
    <2>3. \/ scan' = [scan EXCEPT ![s] = NoScan]
          \/ \E c \in inFlightPQ :
                scan' = [scan EXCEPT ![s] = [scan[s] EXCEPT !.at = "finish",
                                                            !.msg = c]]
      BY <1>2 DEF ScanShift
    <2>4. scan' \in [Scanners -> Scans]
      <3>1. \E r \in Scans : scan' = [scan EXCEPT ![s] = r]
        BY <2>1, <2>2, <2>3, Zenon
      <3> QED
        BY <3>1, ScanUpdated
    <2>5. inFlightPQ' \subseteq Clones /\ index' \in [Clones -> {"zero", "slot", "gone"}]
      BY <1>2 DEF ScanShift, Dequeue
    <2>6. UNCHANGED <<inFlightMessages, due, retryCount, stage, unsent, ack,
                      received, online, acked, crashed>>
      BY <1>2 DEF ScanShift
    <2> QED
      BY <2>4, <2>5, <2>6
  <1>3. CASE ScanFinish(s)
    <2>1. scan[s].msg \in Clones
      BY <1>3 DEF ScanFinish, ScanOK, Scans
    <2>2. NoScan \in Scans
      BY DEF NoScan, Scans
    <2>5. scan[s] \in Scans /\ inFlightMessages[Key[scan[s].msg]] \in Clones \cup {None}
      BY <2>1
    <2>3. [scan[s] EXCEPT !.at = "remove",
                          !.hit = inFlightMessages[Key[scan[s].msg]]] \in Scans
      BY <2>5 DEF Scans
    <2>4. scan' \in [Scanners -> Scans]
      <3>1. \/ scan' = [scan EXCEPT ![s] = NoScan]
            \/ scan' = [scan EXCEPT ![s] =
                          [scan[s] EXCEPT !.at = "remove",
                                          !.hit = inFlightMessages[Key[scan[s].msg]]]]
        BY <1>3 DEF ScanFinish
      <3> QED
        BY <2>2, <2>3, <3>1
    <2> QED
      BY <1>3, <2>1, <2>4 DEF ScanFinish
  <1>4. CASE ScanRemove(s)
    <2>1. scan[s].hit \in Clones /\ scan[s].msg \in Clones
      BY <1>4 DEF ScanRemove, ScanOK, Scans
    <2>2. RemoveFromInFlightPQ(scan[s].hit)
      BY <1>4 DEF ScanRemove
    <2>3. [scan[s] EXCEPT !.at = "shift", !.msg = None, !.hit = None] \in Scans
      <3> HIDE DEF CustodyInv
      <3>1. scan[s] \in Scans
        BY DEF CustodyInv
      <3> QED
        BY <3>1, ScanRecords
    <2>4. scan' \in [Scanners -> Scans]
      BY <1>4, <2>3 DEF ScanRemove
    <2>5. /\ inFlightPQ' \subseteq Clones
          /\ index' \in [Clones -> {"zero", "slot", "gone"}]
          /\ crashed' \in BOOLEAN
      BY <2>1, <2>2, RemoveEffect
    <2>6. stage' \in [Clones -> Stages]
      BY <1>4, <2>1 DEF ScanRemove, Stages
    <2> QED
      BY <1>4, <2>4, <2>5, <2>6 DEF ScanRemove
  <1> QED
    BY <1>1, <1>2, <1>3, <1>4 DEF Scanner

\* How a scan's step changes the scan: only its own record, and by cases.
LEMMA ScanFields ==
  ASSUME CustodyInv, NEW s \in Scanners
  PROVE  /\ Scanner(s) => \A t \in Scanners \ {s} : scan'[t] = scan[t]
         /\ ScanStart(s) => scan'[s].at = "shift" /\ scan'[s].msg = None
         /\ ScanShift(s) =>
               \/ /\ scan'[s].at = "off" /\ scan'[s].msg = None
                  /\ UNCHANGED <<inFlightPQ, index>>
               \/ \E c \in inFlightPQ :
                     Dequeue(c) /\ scan'[s].at = "finish" /\ scan'[s].msg = c
         /\ ScanFinish(s) =>
               \/ /\ scan'[s].at = "off" /\ scan'[s].msg = None
                  /\ inFlightMessages[Key[scan[s].msg]] = None
                  /\ UNCHANGED inFlightMessages
               \/ /\ scan'[s].at = "remove" /\ scan'[s].msg = scan[s].msg
                  /\ scan'[s].hit = inFlightMessages[Key[scan[s].msg]]
                  /\ scan'[s].hit # None
                  /\ inFlightMessages' =
                        [inFlightMessages EXCEPT ![Key[scan[s].msg]] = None]
         /\ ScanRemove(s) => scan'[s].at = "shift" /\ scan'[s].msg = None
  <1> USE DEF CustodyInv, TypeOK, Scans, NoScan
  <1>1. Scanner(s) => \A t \in Scanners \ {s} : scan'[t] = scan[t]
    BY DEF Scanner, ScanStart, ScanShift, ScanFinish, ScanRemove
  <1>2. ScanStart(s) => scan'[s].at = "shift" /\ scan'[s].msg = None
    BY DEF ScanStart
  <1>3. ScanShift(s) =>
               \/ /\ scan'[s].at = "off" /\ scan'[s].msg = None
                  /\ UNCHANGED <<inFlightPQ, index>>
               \/ \E c \in inFlightPQ :
                     Dequeue(c) /\ scan'[s].at = "finish" /\ scan'[s].msg = c
    BY DEF ScanShift
  <1>4. ScanFinish(s) =>
               \/ /\ scan'[s].at = "off" /\ scan'[s].msg = None
                  /\ inFlightMessages[Key[scan[s].msg]] = None
                  /\ UNCHANGED inFlightMessages
               \/ /\ scan'[s].at = "remove" /\ scan'[s].msg = scan[s].msg
                  /\ scan'[s].hit = inFlightMessages[Key[scan[s].msg]]
                  /\ scan'[s].hit # None
                  /\ inFlightMessages' =
                        [inFlightMessages EXCEPT ![Key[scan[s].msg]] = None]
    BY DEF ScanFinish
  <1>5. ScanRemove(s) => scan'[s].at = "shift" /\ scan'[s].msg = None
    BY DEF ScanRemove
  <1> QED
    BY <1>1, <1>2, <1>3, <1>4, <1>5

\* A scan takes a clone off the heap before it holds it, and gives it to the
\* retry worker before it lets go of it.
LEMMA ScannerCustody ==
  ASSUME CustodyInv, NEW s \in Scanners, Scanner(s)
  PROVE  CustodyInv'
  <1>0. TypeOK' /\ \A t \in Scanners \ {s} : scan'[t] = scan[t]
    BY ScannerType, ScanFields
  <1> USE ConstantsAssumption, <1>0
          DEF CustodyInv, CountOK, IndexOK, ScanOK, SingleCustody, Scanning
  <1>1. CASE ScanStart(s)
    <2>1. scan'[s].at = "shift" /\ scan'[s].msg = None /\ scan[s].msg = None
      BY <1>1, ScanFields DEF ScanStart
    <2>2. UNCHANGED <<inFlightPQ, index, retryCount, stage>>
      BY <1>1 DEF ScanStart
    <2>3. CountOK' /\ IndexOK' /\ ScanOK'
      BY <2>1, <2>2
    <2>4. SingleCustody'
      BY <2>1, <2>2
    <2> QED
      BY <2>3, <2>4
  <1>2. CASE ScanShift(s)
    <2>1. CASE /\ scan'[s].at = "off" /\ scan'[s].msg = None
               /\ UNCHANGED <<inFlightPQ, index>>
      BY <1>2, <2>1 DEF ScanShift
    <2>2. ASSUME NEW c \in inFlightPQ,
                 Dequeue(c), scan'[s].at = "finish", scan'[s].msg = c
          PROVE  CustodyInv'
      <3>1. UNCHANGED <<retryCount, stage>> /\ scan[s].msg = None
        BY <1>2 DEF ScanShift
      <3>2. /\ inFlightPQ' = inFlightPQ \ {c}
            /\ \A d \in Clones : index'[d] = IF d = c THEN "gone" ELSE index[d]
            /\ c \in Clones
        BY <2>2 DEF Dequeue, TypeOK
      <3>6. CountOK'
        BY <3>1
      <3>7. ScanOK'
        BY <2>2, <3>2
      <3>3. CountOK' /\ ScanOK'
        BY <3>6, <3>7
      <3>4. IndexOK'
        BY <3>2
      <3>5. SingleCustody'
        BY <2>2, <3>1, <3>2
      <3> QED
        BY <3>3, <3>4, <3>5
    <2> QED
      BY <1>2, <2>1, <2>2, ScanFields
  <1>3. CASE ScanFinish(s)
    <2>1. UNCHANGED <<inFlightPQ, index, retryCount, stage>> /\ scan[s].at = "finish"
      BY <1>3 DEF ScanFinish
    <2>2. \/ scan'[s].at = "off" /\ scan'[s].msg = None
          \/ /\ scan'[s].at = "remove" /\ scan'[s].msg = scan[s].msg
             /\ scan'[s].hit # None
      BY <1>3, ScanFields
    <2>3. CountOK' /\ IndexOK'
      BY <2>1
    <2>4. ScanOK'
      BY <2>1, <2>2
    <2>5. SingleCustody'
      BY <2>1, <2>2
    <2> QED
      BY <2>3, <2>4, <2>5
  <1>4. CASE ScanRemove(s)
    <2>1. scan[s].hit \in Clones /\ scan[s].msg \in Clones
      BY <1>4 DEF ScanRemove, TypeOK, Scans
    <2>2. RemoveFromInFlightPQ(scan[s].hit)
      BY <1>4 DEF ScanRemove
    <2>3. inFlightPQ' \subseteq inFlightPQ /\ IndexOK'
      BY <2>1, <2>2, RemoveEffect
    <2>4. scan'[s].at = "shift" /\ scan'[s].msg = None
      BY <1>4, ScanFields
    <2>5. /\ stage' = [stage EXCEPT ![scan[s].msg] = "retry"]
          /\ stage \in [Clones -> Stages] /\ UNCHANGED retryCount
      BY <1>4 DEF ScanRemove, TypeOK
    <2>6. \A c \in Clones : c # scan[s].msg => stage'[c] = stage[c]
      BY <2>1, <2>5
    <2>7. CountOK' /\ ScanOK'
      BY <2>1, <2>4, <2>5, <2>6
    <2>8. SingleCustody'
      BY <2>1, <2>3, <2>4, <2>5, <2>6
    <2> QED
      BY <2>3, <2>7, <2>8
  <1> QED
    BY <1>1, <1>2, <1>3, <1>4 DEF Scanner

\* An acknowledgement takes entries off the map and the heap and adds none.
LEMMA AckCustody ==
  ASSUME CustodyInv, NEW a \in Ackers,
         AckRemove(a) \/ \E k \in Keys : AckPop(a, k)
  PROVE  CustodyInv'
  <1> USE ConstantsAssumption
          DEF CustodyInv, TypeOK, CountOK, IndexOK, ScanOK, SingleCustody,
              Scanning
  <1>1. CASE AckRemove(a)
    <2>1. ack[a] \in Clones /\ RemoveFromInFlightPQ(ack[a])
      BY <1>1 DEF AckRemove
    <2> QED
      BY <1>1, <2>1, RemoveEffect DEF AckRemove
  <1>2. ASSUME NEW k \in Keys, AckPop(a, k)
        PROVE  CustodyInv'
    BY <1>2 DEF AckPop
  <1> QED
    BY <1>1, <1>2

\* Every step of the server and of the clients preserves custody.
LEMMA NextCustody == CustodyInv /\ [Next]_vars => CustodyInv'
  <1> SUFFICES ASSUME CustodyInv, [Next]_vars
               PROVE  CustodyInv'
    OBVIOUS
  <1>1. ASSUME NEW d \in Devices, Connect(d) \/ Disconnect(d)
        PROVE  CustodyInv'
    BY <1>1 DEF Connect, Disconnect, CustodyInv, TypeOK, CountOK, IndexOK,
                ScanOK, SingleCustody, Scanning
  <1>2. CASE UNCHANGED vars
    BY <1>2 DEF vars, CustodyInv, TypeOK, CountOK, IndexOK, ScanOK,
                SingleCustody, Scanning
  <1> QED
    BY <1>1, <1>2, WorkerCustody, ScannerCustody, AckCustody DEF Next

\* The variables keep their types, in particular no clone is counted past
\* MaxCount + 1 attempts (retryDeliveryMsg), and a clone is in one custody at
\* most, whatever the clones, keys, scans and ack handlers are.
THEOREM CustodyCorrect == Spec => [](TypeOK /\ SingleCustody)
  <1>1. CustodyInv => TypeOK /\ SingleCustody
    BY DEF CustodyInv
  <1> QED
    BY <1>1, InitCustody, NextCustody, PTL DEF Spec

-----------------------------------------------------------------------------
(* When no two clones share a key.                                         *)

\* The map holds a clone under the clone's own key.
MapKeyed ==
    \A k \in Keys : inFlightMessages[k] # None => Key[inFlightMessages[k]] = k

\* A clone that was never queued was never sent either, so no client can
\* acknowledge it and meet its unset index.
FreshOK ==
    \A c \in Clones : index[c] = "zero" =>
        /\ stage[c] \in {"new", "map", "heap"}
        /\ Key[c] \notin received
        /\ unsent[c] = 0

\* An acknowledged clone has left the map for good.
AckedOK ==
    \A c \in acked :
        /\ inFlightMessages[Key[c]] # c
        /\ stage[c] \in {"heap", "idle"}
        /\ index[c] # "zero"
        /\ \A s \in Scanners : scan[s].at = "remove" => scan[s].msg # c

\* What ack handlers and scans still have to remove is not in the map.
PendingOK ==
    /\ \A a \in Ackers : ack[a] # None => ack[a] \in acked
    /\ \A s \in Scanners : scan[s].at = "remove" =>
           inFlightMessages[Key[scan[s].msg]] # scan[s].msg

FlightInv ==
    /\ CustodyInv
    /\ MapKeyed
    /\ NoStranded
    /\ FreshOK
    /\ AckedOK
    /\ PendingOK
    /\ RemovesOwnSlot

\* The map starts empty, and no clone has been queued.
LEMMA InitFlight == Init => FlightInv
  <1> SUFFICES ASSUME Init PROVE FlightInv
    OBVIOUS
  <1>1. CustodyInv
    BY InitCustody
  <1>2. MapKeyed /\ NoStranded /\ FreshOK /\ AckedOK
    BY DEF Init, MapKeyed, NoStranded, FreshOK, AckedOK
  <1>3. PendingOK /\ RemovesOwnSlot
    BY DEF Init, NoScan, PendingOK, RemovesOwnSlot
  <1> QED
    BY <1>1, <1>2, <1>3 DEF FlightInv

\* A worker adds its clone to the map and then to the heap; startInFlightTimeout
\* is under way in between.
LEMMA WorkerFlight ==
  ASSUME KeyInjective, FlightInv, NEW c \in Clones, Worker(c) \/ Expire(c)
  PROVE  FlightInv'
  <1>0. CustodyInv'
    BY WorkerCustody DEF FlightInv
  <1> USE ConstantsAssumption, <1>0
          DEF KeyInjective, FlightInv, CustodyInv, TypeOK, IndexOK, ScanOK,
              SingleCustody, Scanning, MapKeyed, NoStranded, FreshOK, AckedOK,
              PendingOK, RemovesOwnSlot
  <1>1. CASE Deliver(c)
    BY <1>1 DEF Deliver
  <1>2. CASE PushInFlightMessage(c)
    <2>1. CASE inFlightMessages[Key[c]] = None
      BY <1>2, <2>1 DEF PushInFlightMessage
    <2>2. CASE inFlightMessages[Key[c]] # None
      BY <1>2, <2>2 DEF PushInFlightMessage
    <2> QED
      BY <2>1, <2>2
  <1>3. CASE AddToInFlightPQ(c)
    BY <1>3 DEF AddToInFlightPQ
  <1>4. CASE DataOut(c)
    BY <1>4 DEF DataOut
  <1>5. CASE RetryDeliveryMsg(c)
    <2>1. /\ stage' \in [Clones -> Stages] /\ stage'[c] # "heap"
          /\ \A d \in Clones \ {c} : stage'[d] = stage[d]
      BY <1>5 DEF RetryDeliveryMsg
    <2>2. \A s \in Scanners : /\ scan'[s].at = scan[s].at
                              /\ scan'[s].msg = scan[s].msg
                              /\ scan'[s].hit = scan[s].hit
      BY <1>5 DEF RetryDeliveryMsg, Scans
    <2>3. UNCHANGED <<inFlightMessages, inFlightPQ, index, unsent, ack, received,
                      acked, crashed>>
      BY <1>5 DEF RetryDeliveryMsg
    <2>4. MapKeyed' /\ NoStranded'
      <3>1. MapKeyed'
        BY <1>5, <2>1, <2>2, <2>3 DEF RetryDeliveryMsg
      <3>2. NoStranded'
        BY <1>5, <2>1, <2>2, <2>3 DEF RetryDeliveryMsg
      <3> QED
        BY <3>1, <3>2
    <2>5. FreshOK' /\ AckedOK'
      <3>1. FreshOK'
        BY <1>5, <2>1, <2>2, <2>3 DEF RetryDeliveryMsg
      <3>2. AckedOK'
        BY <1>5, <2>1, <2>2, <2>3 DEF RetryDeliveryMsg
      <3> QED
        BY <3>1, <3>2
    <2>6. PendingOK' /\ RemovesOwnSlot'
      <3>1. PendingOK'
        BY <1>5, <2>2, <2>3
      <3>2. RemovesOwnSlot'
        BY <1>5, <2>2, <2>3
      <3> QED
        BY <3>1, <3>2
    <2> QED
      BY <2>4, <2>5, <2>6
  <1>6. CASE Expire(c)
    BY <1>6 DEF Expire
  <1> QED
    BY <1>1, <1>2, <1>3, <1>4, <1>5, <1>6 DEF Worker

\* A scan holds a clone of the map between the heap and the map, and retries
\* only a clone the map still held.
LEMMA ScannerFlight ==
  ASSUME KeyInjective, FlightInv, NEW s \in Scanners, Scanner(s)
  PROVE  FlightInv'
  <1>0. CustodyInv' /\ \A t \in Scanners \ {s} : scan'[t] = scan[t]
    BY ScannerCustody, ScanFields DEF FlightInv
  <1> USE ConstantsAssumption, <1>0
          DEF KeyInjective, FlightInv, CustodyInv, TypeOK, IndexOK, ScanOK,
              SingleCustody, Scanning, MapKeyed, NoStranded, FreshOK, AckedOK,
              PendingOK, RemovesOwnSlot
  <1>1. CASE ScanStart(s)
    <2>1. scan'[s].at = "shift" /\ scan'[s].msg = None /\ scan[s].msg = None
      BY <1>1, ScanFields DEF ScanStart
    <2>2. UNCHANGED <<inFlightMessages, inFlightPQ, index, stage, unsent, ack,
                      received, acked, crashed>>
      BY <1>1 DEF ScanStart
    <2>3. MapKeyed' /\ NoStranded' /\ FreshOK' /\ AckedOK'
      <3>1. MapKeyed'
        BY <2>1, <2>2
      <3>2. NoStranded'
        BY <2>1, <2>2
      <3>3. FreshOK'
        BY <2>1, <2>2
      <3>4. AckedOK'
        BY <2>1, <2>2
      <3> QED
        BY <3>1, <3>2, <3>3, <3>4
    <2>4. PendingOK' /\ RemovesOwnSlot'
      <3>1. PendingOK'
        BY <2>1, <2>2
      <3>2. RemovesOwnSlot'
        BY <2>1, <2>2
      <3> QED
        BY <3>1, <3>2
    <2> QED
      BY <2>3, <2>4
  <1>2. CASE ScanShift(s)
    <2>1. UNCHANGED <<inFlightMessages, stage, unsent, ack, received, acked,
                      crashed>> /\ scan[s].at = "shift" /\ scan[s].msg = None
      BY <1>2 DEF ScanShift
    <2>2. CASE /\ scan'[s].at = "off" /\ scan'[s].msg = None
               /\ UNCHANGED <<inFlightPQ, index>>
      <3>1. MapKeyed' /\ NoStranded' /\ FreshOK' /\ AckedOK'
        <4>1. MapKeyed'
          BY <2>1, <2>2
        <4>2. NoStranded'
          BY <2>1, <2>2, SMTT(30)
        <4>3. FreshOK'
          BY <2>1, <2>2
        <4>4. AckedOK'
          BY <2>1, <2>2, SMTT(30)
        <4> QED
          BY <4>1, <4>2, <4>3, <4>4
      <3>2. PendingOK' /\ RemovesOwnSlot'
        <4>1. PendingOK'
          BY <2>1, <2>2
        <4>2. RemovesOwnSlot'
          BY <2>1, <2>2
        <4> QED
          BY <4>1, <4>2
      <3> QED
        BY <3>1, <3>2
    <2>3. ASSUME NEW c \in inFlightPQ,
                 Dequeue(c), scan'[s].at = "finish", scan'[s].msg = c
          PROVE  FlightInv'
      <3>1. MapKeyed' /\ NoStranded'
        <4>1. MapKeyed'
          BY <2>1, <2>3 DEF Dequeue
        <4>2. NoStranded'
          <5> SUFFICES ASSUME NEW k \in Keys, inFlightMessages[k] # None
                       PROVE  \/ inFlightMessages[k] \in inFlightPQ'
                              \/ stage[inFlightMessages[k]] = "heap"
                              \/ \E t \in Scanners : /\ scan'[t].at = "finish"
                                                    /\ scan'[t].msg = inFlightMessages[k]
            BY <2>1
          <5>1. CASE inFlightMessages[k] = c
            BY <2>3, <5>1
          <5>2. CASE inFlightMessages[k] # c /\ inFlightMessages[k] \in inFlightPQ
            BY <2>3, <5>2 DEF Dequeue
          <5>3. ASSUME NEW t \in Scanners, scan[t].at = "finish",
                       scan[t].msg = inFlightMessages[k]
                PROVE  scan'[t].at = "finish" /\ scan'[t].msg = inFlightMessages[k]
            BY <2>1, <5>3
          <5> QED
            BY <5>1, <5>2, <5>3
        <4> QED
          BY <4>1, <4>2
      <3>2. FreshOK' /\ AckedOK'
        <4>1. FreshOK'
          BY <2>1, <2>3 DEF Dequeue
        <4>2. AckedOK'
          BY <2>1, <2>3, SMTT(30) DEF Dequeue
        <4> QED
          BY <4>1, <4>2
      <3>3. PendingOK' /\ RemovesOwnSlot'
        <4>1. PendingOK'
          BY <2>1, <2>3, SMTT(30) DEF Dequeue
        <4>2. RemovesOwnSlot'
          BY <2>1, <2>3, SMTT(30) DEF Dequeue
        <4> QED
          BY <4>1, <4>2
      <3> QED
        BY <3>1, <3>2, <3>3
    <2> QED
      BY <1>2, <2>2, <2>3, ScanFields
  <1>3. CASE ScanFinish(s)
    <2>1. UNCHANGED <<inFlightPQ, index, stage, unsent, ack, received, acked,
                      crashed>> /\ scan[s].at = "finish"
      BY <1>3 DEF ScanFinish
    <2>2. scan[s].msg \in Clones
      BY <2>1 DEF Scans
    <2>3. CASE /\ scan'[s].at = "off" /\ scan'[s].msg = None
               /\ inFlightMessages[Key[scan[s].msg]] = None
               /\ UNCHANGED inFlightMessages
      <3>1. MapKeyed' /\ NoStranded'
        <4>1. MapKeyed'
          BY <2>1, <2>2, <2>3
        <4>2. NoStranded'
          BY <2>1, <2>2, <2>3
        <4> QED
          BY <4>1, <4>2
      <3>2. FreshOK' /\ AckedOK'
        <4>1. FreshOK'
          BY <2>1, <2>2, <2>3
        <4>2. AckedOK'
          BY <2>1, <2>2, <2>3
        <4> QED
          BY <4>1, <4>2
      <3>3. PendingOK' /\ RemovesOwnSlot'
        <4>1. PendingOK'
          BY <2>1, <2>2, <2>3
        <4>2. RemovesOwnSlot'
          BY <2>1, <2>2, <2>3
        <4> QED
          BY <4>1, <4>2
      <3> QED
        BY <3>1, <3>2, <3>3
    <2>4. CASE /\ scan'[s].at = "remove" /\ scan'[s].msg = scan[s].msg
               /\ scan'[s].hit = inFlightMessages[Key[scan[s].msg]]
               /\ scan'[s].hit # None
               /\ inFlightMessages' =
                     [inFlightMessages EXCEPT ![Key[scan[s].msg]] = None]
      <3>0. inFlightMessages[Key[scan[s].msg]] = scan[s].msg
        BY <2>2, <2>4
      <3>1. MapKeyed' /\ NoStranded'
        <4>1. MapKeyed'
          BY <2>1, <2>2, <2>4, <3>0
        <4>2. NoStranded'
          BY <2>1, <2>2, <2>4, <3>0
        <4> QED
          BY <4>1, <4>2
      <3>2. FreshOK' /\ AckedOK'
        <4>1. FreshOK'
          BY <2>1, <2>2, <2>4, <3>0
        <4>2. AckedOK'
          BY <2>1, <2>2, <2>4, <3>0, SMTT(30)
        <4> QED
          BY <4>1, <4>2
      <3>3. PendingOK' /\ RemovesOwnSlot'
        <4>1. PendingOK'
          BY <2>1, <2>2, <2>4, <3>0
        <4>2. RemovesOwnSlot'
          BY <2>1, <2>2, <2>4, <3>0
        <4> QED
          BY <4>1, <4>2
      <3> QED
        BY <3>1, <3>2, <3>3
    <2> QED
      BY <1>3, <2>3, <2>4, ScanFields
  <1>4. CASE ScanRemove(s)
    <2>1. /\ scan'[s].at = "shift" /\ scan'[s].msg = None
          /\ scan[s].at = "remove" /\ scan[s].hit = scan[s].msg
      BY <1>4, ScanFields DEF ScanRemove
    <2>2. scan[s].msg \in Clones
      BY <2>1 DEF Scans
    <2>3. index[scan[s].msg] = "gone"
      BY <2>1, <2>2, SMTT(30)
    <2>4. UNCHANGED <<inFlightMessages, inFlightPQ, index, unsent, ack, received,
                      acked, crashed>>
      BY <1>4, <2>1, <2>3 DEF ScanRemove, RemoveFromInFlightPQ
    <2>5. stage' = [stage EXCEPT ![scan[s].msg] = "retry"]
      BY <1>4 DEF ScanRemove
    <2>6. MapKeyed' /\ NoStranded'
      <3>1. MapKeyed'
        BY <2>1, <2>2, <2>4, <2>5
      <3>2. NoStranded'
        BY <2>1, <2>2, <2>4, <2>5, SMTT(30)
      <3> QED
        BY <3>1, <3>2
    <2>7. FreshOK' /\ AckedOK'
      <3>1. FreshOK'
        BY <2>1, <2>2, <2>3, <2>4, <2>5
      <3>2. AckedOK'
        BY <2>1, <2>2, <2>3, <2>4, <2>5
      <3> QED
        BY <3>1, <3>2
    <2>8. PendingOK' /\ RemovesOwnSlot'
      <3>1. PendingOK'
        BY <2>1, <2>4, SMTT(30)
      <3>2. RemovesOwnSlot'
        BY <2>1, <2>4
      <3> QED
        BY <3>1, <3>2
    <2> QED
      BY <2>6, <2>7, <2>8
  <1> QED
    BY <1>1, <1>2, <1>3, <1>4 DEF Scanner

\* An acknowledgement takes the clone off the map before it touches the heap.
LEMMA AckFlight ==
  ASSUME KeyInjective, FlightInv, NEW a \in Ackers,
         AckRemove(a) \/ \E k \in Keys : AckPop(a, k)
  PROVE  FlightInv'
  <1>0. CustodyInv'
    BY AckCustody DEF FlightInv
  <1> USE ConstantsAssumption, <1>0
          DEF KeyInjective, FlightInv, CustodyInv, TypeOK, IndexOK, ScanOK,
              SingleCustody, Scanning, MapKeyed, NoStranded, FreshOK, AckedOK,
              PendingOK, RemovesOwnSlot
  <1>1. CASE AckRemove(a)
    <2>1. ack[a] \in acked /\ index[ack[a]] # "zero"
      BY <1>1 DEF AckRemove
    <2>2. CASE index[ack[a]] = "gone"
      BY <1>1, <2>1, <2>2 DEF AckRemove, RemoveFromInFlightPQ
    <2>3. CASE index[ack[a]] = "slot"
      BY <1>1, <2>1, <2>3 DEF AckRemove, RemoveFromInFlightPQ, Dequeue
    <2> QED
      BY <2>1, <2>2, <2>3
  <1>2. ASSUME NEW k \in Keys, AckPop(a, k)
        PROVE  FlightInv'
    <2>1. PICK c \in Clones : c = inFlightMessages[k] /\ Key[c] = k
      BY <1>2 DEF AckPop
    <2>2. index[c] # "zero" /\ stage[c] \in {"heap", "idle"}
      BY <1>2, <2>1 DEF AckPop
    <2>3. \A s \in Scanners : scan[s].at = "remove" => scan[s].msg # c
      BY <1>2, <2>1
    <2>4. MapKeyed' /\ NoStranded'
      <3>1. MapKeyed'
        BY <1>2, <2>1 DEF AckPop
      <3>2. NoStranded'
        BY <1>2, <2>1 DEF AckPop
      <3> QED
        BY <3>1, <3>2
    <2>5. FreshOK' /\ AckedOK'
      <3>1. FreshOK'
        BY <1>2, <2>1, <2>2, <2>3 DEF AckPop
      <3>2. AckedOK'
        BY <1>2, <2>1, <2>2, <2>3 DEF AckPop
      <3> QED
        BY <3>1, <3>2
    <2>6. PendingOK' /\ RemovesOwnSlot'
      <3>1. PendingOK'
        BY <1>2, <2>1, <2>2 DEF AckPop
      <3>2. RemovesOwnSlot'
        BY <1>2, <2>1, <2>2 DEF AckPop
      <3> QED
        BY <3>1, <3>2
    <2> QED
      BY <2>4, <2>5, <2>6
  <1> QED
    BY <1>1, <1>2

\* With one clone for each key, every step preserves the invariant.
LEMMA NextFlight == KeyInjective /\ FlightInv /\ [Next]_vars => FlightInv'
  <1> SUFFICES ASSUME KeyInjective, FlightInv, [Next]_vars
               PROVE  FlightInv'
    OBVIOUS
  <1> USE DEF FlightInv, MapKeyed, NoStranded, FreshOK, AckedOK, PendingOK,
              RemovesOwnSlot
  <1>0. CustodyInv'
    BY NextCustody
  <1>1. ASSUME NEW d \in Devices, Connect(d) \/ Disconnect(d)
        PROVE  FlightInv'
    BY <1>0, <1>1 DEF Connect, Disconnect
  <1>2. CASE UNCHANGED vars
    BY <1>0, <1>2 DEF vars
  <1> HIDE DEF FlightInv
  <1> QED
    BY <1>1, <1>2, WorkerFlight, ScannerFlight, AckFlight DEF Next

\* If no two receiving connections share a key, a message in flight always
\* comes to a scan, and nothing but a clone's own heap slot is ever removed
\* for it, whatever the number of clones, scans and ack handlers.
THEOREM FlightCorrect == KeyInjective => (Spec => [](NoStranded /\ RemovesOwnSlot))
  <1> SUFFICES ASSUME KeyInjective PROVE Spec => [](NoStranded /\ RemovesOwnSlot)
    OBVIOUS
  <1>1. FlightInv => NoStranded /\ RemovesOwnSlot
    BY DEF FlightInv
  <1>2. FlightInv /\ [Next]_vars => FlightInv'
    BY NextFlight
  <1> QED
    BY <1>1, <1>2, InitFlight, PTL DEF Spec

\* Under the same condition an acknowledged message is never retried.
THEOREM AckedCorrect == KeyInjective => (Spec => AckedNeverRetried)
  <1> SUFFICES ASSUME KeyInjective PROVE Spec => AckedNeverRetried
    OBVIOUS
  <1>1. FlightInv /\ [Next]_vars
           => [\A c \in acked : retryCount'[c] = retryCount[c]]_vars
    <2> SUFFICES ASSUME FlightInv, Next
                 PROVE  \A c \in acked : retryCount'[c] = retryCount[c]
      OBVIOUS
    <2> USE DEF FlightInv, CustodyInv, TypeOK
    <2>1. ASSUME NEW c \in Clones, Worker(c) \/ Expire(c)
          PROVE  \A d \in acked : retryCount'[d] = retryCount[d]
      BY <2>1 DEF Worker, Deliver, PushInFlightMessage, AddToInFlightPQ, DataOut,
                  RetryDeliveryMsg, Expire, AckedOK
    <2>2. ASSUME NEW s \in Scanners, Scanner(s)
          PROVE  UNCHANGED retryCount
      BY <2>2 DEF Scanner, ScanStart, ScanShift, ScanFinish, ScanRemove
    <2>3. ASSUME NEW a \in Ackers, AckRemove(a) \/ \E k \in Keys : AckPop(a, k)
          PROVE  UNCHANGED retryCount
      BY <2>3 DEF AckRemove, AckPop
    <2>4. ASSUME NEW d \in Devices, Connect(d) \/ Disconnect(d)
          PROVE  UNCHANGED retryCount
      BY <2>4 DEF Connect, Disconnect
    <2> HIDE DEF FlightInv
    <2> QED
      BY <2>1, <2>2, <2>3, <2>4 DEF Next
  <1>2. FlightInv /\ [Next]_vars => FlightInv'
    BY NextFlight
  <1> QED
    BY <1>1, <1>2, InitFlight, PTL DEF Spec, AckedNeverRetried
=============================================================================
