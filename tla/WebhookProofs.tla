--------------------------- MODULE WebhookProofs ---------------------------
(***************************************************************************)
(* For every number of messages, restarts and failing transactions, every   *)
(* size of a push and every limit of retries: messages reach the third      *)
(* party in order, and leave the notify queue only told or out of retries.  *)
(***************************************************************************)
EXTENDS Webhook, FiniteSetTheorems, TLAPS

\* The types of what notifyQueueLoop uses.
NotifyType ==
    /\ notifyQueue \subseteq Messages
    /\ appended \in 0 .. MaxMessages
    /\ errMessageIDMap \in [Messages -> 0 .. RetryMax - 1]
    /\ batch \subseteq Messages
    /\ notifyAt \in Places
    /\ told \subseteq Messages
    /\ fails \in [Messages -> 0 .. RetryMax]

\* The count in memory never runs ahead of the failures there were.
Counted ==
    /\ \A m \in Messages : errMessageIDMap[m] <= fails[m]
    /\ notifyAt = "error" => \A m \in batch : errMessageIDMap[m] + 1 <= fails[m]
    /\ notifyAt = "ok" => batch \subseteq told

\* The batch is the front of the queue, also after messages were appended.
FrontOfQueue ==
    /\ \A m \in notifyQueue \cup told : m <= appended
    /\ \A m \in batch : m <= appended
    /\ \A m \in batch, k \in notifyQueue \ batch : k > m

NotifyInv == NotifyType /\ Counted /\ FrontOfQueue /\ NotifiedInOrder

\* A message that GetMessagesOfNotifyQueue takes precedes every one it leaves
\* (filestore.go:553-574).
LEMMA FirstPrecede ==
    ASSUME NEW q \in SUBSET Messages,
           NEW m \in GetMessagesOfNotifyQueue(q),
           NEW k \in q \ GetMessagesOfNotifyQueue(q)
    PROVE  k > m
<1> DEFINE Below(x) == {y \in q : y < x}
<1>1. m \in Nat /\ k \in Nat /\ CountPerPush \in Nat
  BY WebhookAssumption DEF GetMessagesOfNotifyQueue, Messages
<1>2. IsFiniteSet(Below(m)) /\ IsFiniteSet(Below(k))
  <2>1. IsFiniteSet(Messages)
    BY WebhookAssumption, FS_Interval DEF Messages
  <2> QED  BY <2>1, FS_Subset
<1>3. Cardinality(Below(m)) \in Nat /\ Cardinality(Below(k)) \in Nat
  BY <1>2, FS_CardinalityType
<1>4. Cardinality(Below(m)) < CountPerPush /\ ~(Cardinality(Below(k)) < CountPerPush)
  BY DEF GetMessagesOfNotifyQueue
<1>5. ASSUME ~(k > m) PROVE FALSE
  <2>0. q \subseteq Nat
    BY WebhookAssumption DEF Messages
  <2>1. Below(k) \subseteq Below(m)
    <3> SUFFICES ASSUME NEW y \in q, y < k PROVE y < m
      OBVIOUS
    <3> QED  BY <1>1, <1>5, <2>0
  <2>2. Cardinality(Below(k)) <= Cardinality(Below(m))
    BY <2>1, <1>2, FS_Subset
  <2> HIDE DEF Below
  <2> QED  BY <2>2, <1>1, <1>3, <1>4
<1> QED  BY <1>5

\* The initial queue is empty.
LEMMA InitNotify == Init => NotifyInv
BY WebhookAssumption
   DEF Init, NotifyInv, NotifyType, Counted, FrontOfQueue, NotifiedInOrder,
       Messages, Places

\* Every step of the server preserves the invariant.
LEMMA NextNotify == NotifyInv /\ [Next]_vars => NotifyInv'
<1> SUFFICES ASSUME NotifyInv, [Next]_vars PROVE NotifyInv'
  OBVIOUS
<1> USE WebhookAssumption
<1>0. RetryMax \in Nat \ {0} /\ MaxMessages \in Nat
  OBVIOUS
<1>1. ASSUME NEW n \in 1 .. 2, AppendMessageOfNotifyQueue(n) PROVE NotifyInv'
  <2>1. /\ appended \in Nat /\ appended' = appended + n /\ appended' <= MaxMessages
        /\ notifyQueue' = notifyQueue \cup (appended + 1 .. appended + n)
        /\ UNCHANGED <<errMessageIDMap, batch, notifyAt, told, fails>>
    BY <1>0, <1>1 DEF AppendMessageOfNotifyQueue, NotifyInv, NotifyType
  <2>2. \A m \in notifyQueue' : m \in notifyQueue \/ (m \in Nat /\ m > appended /\ m <= appended')
    <3>1. appended \in Nat /\ n \in Nat /\ appended' = appended + n
      BY <2>1
    <3>2. \A m \in appended + 1 .. appended + n :
             m \in Nat /\ m > appended /\ m <= appended'
      BY <3>1
    <3>3. notifyQueue' = notifyQueue \cup (appended + 1 .. appended + n)
      BY <2>1
    <3> QED  BY <3>2, <3>3, Zenon
  <2>3. NotifyType' /\ Counted'
    BY <1>0, <2>1, <2>2, SMTT(30) DEF NotifyInv, NotifyType, Counted, Messages
  <2>4. FrontOfQueue'
    <3>1. \A m \in batch \cup told \cup notifyQueue : m \in Nat /\ m <= appended
      BY <1>0 DEF NotifyInv, NotifyType, FrontOfQueue, Messages
    <3> QED  BY <2>1, <2>2, <3>1 DEF NotifyInv, FrontOfQueue
  <2>5. NotifiedInOrder'
    <3>1. \A m \in told : m \in Nat /\ m <= appended
      BY <1>0 DEF NotifyInv, NotifyType, FrontOfQueue, Messages
    <3> QED  BY <2>1, <2>2, <3>1 DEF NotifyInv, NotifiedInOrder
  <2> QED  BY <2>3, <2>4, <2>5 DEF NotifyInv
<1>2. CASE NotifyGet
  <2>1. batch' \subseteq notifyQueue /\ \A m \in batch', k \in notifyQueue \ batch' : k > m
    BY <1>2, FirstPrecede
       DEF NotifyGet, GetMessagesOfNotifyQueue, NotifyInv, NotifyType
  <2> QED
    BY <1>2, <2>1
       DEF NotifyGet, NotifyInv, NotifyType, Counted, FrontOfQueue,
           NotifiedInOrder, Places
<1>3. CASE NotifySend
  <2>1. fails' \in [Messages -> 0 .. RetryMax]
        /\ \A m \in Messages : errMessageIDMap[m] <= fails'[m]
    BY <1>0, <1>3 DEF NotifySend, CountFor, NotifyInv, NotifyType, Counted
  <2>2. notifyAt' = "error" => \A m \in batch : errMessageIDMap[m] + 1 <= fails'[m]
    BY <1>0, <1>3 DEF NotifySend, CountFor, NotifyInv, NotifyType, Counted
  <2>3. told' \in {told, told \cup batch}
        /\ notifyAt' \in {"ok", "error"}
        /\ (notifyAt' = "ok" => batch \subseteq told')
        /\ UNCHANGED <<notifyQueue, appended, errMessageIDMap, batch>>
    BY <1>3 DEF NotifySend
  <2>4. NotifyType' /\ Counted' /\ FrontOfQueue'
    BY <2>1, <2>2, <2>3
       DEF NotifyInv, NotifyType, Counted, FrontOfQueue, Places
  <2>5. NotifiedInOrder'
    BY <2>3 DEF NotifyInv, FrontOfQueue, NotifiedInOrder
  <2> QED  BY <2>4, <2>5 DEF NotifyInv
<1>4. ASSUME NEW ms \in SUBSET Messages, RemoveMessagesOfNotifyQueue(ms)
      PROVE  notifyQueue' \subseteq notifyQueue
  BY <1>4 DEF RemoveMessagesOfNotifyQueue
<1>5. CASE NotifyFailed
  <2>1. notifyQueue' \subseteq notifyQueue
    BY <1>4, <1>5 DEF NotifyFailed, FailedTooOften, NotifyInv, NotifyType
  <2>2. /\ errMessageIDMap' \in [Messages -> 0 .. RetryMax - 1]
        /\ \A m \in Messages : errMessageIDMap'[m] <= fails[m]
    BY <1>0, <1>5
       DEF NotifyFailed, FailedTooOften, NotifyInv, NotifyType, Counted
  <2> QED
    BY <1>5, <2>1, <2>2
       DEF NotifyFailed, NotifyInv, NotifyType, Counted, FrontOfQueue,
           NotifiedInOrder, Places
<1>6. CASE NotifyDone
  <2>1. notifyQueue' \subseteq notifyQueue
    BY <1>4, <1>6 DEF NotifyDone, NotifyInv, NotifyType
  <2>2. /\ errMessageIDMap' \in [Messages -> 0 .. RetryMax - 1]
        /\ \A m \in Messages : errMessageIDMap'[m] <= fails[m]
    BY <1>0, <1>6 DEF NotifyDone, NotifyInv, NotifyType, Counted
  <2> QED
    BY <1>6, <2>1, <2>2
       DEF NotifyDone, NotifyInv, NotifyType, Counted, FrontOfQueue,
           NotifiedInOrder, Places
<1>7. CASE Crash
  BY <1>0, <1>7
     DEF Crash, NotifyInv, NotifyType, Counted, FrontOfQueue, NotifiedInOrder,
         Places
<1>8. CASE UNCHANGED notifyVars
  BY <1>8 DEF notifyVars, NotifyInv, NotifyType, Counted, FrontOfQueue, NotifiedInOrder
<1>9. AppendStatus \/ StatusLoop => UNCHANGED notifyVars
  BY DEF AppendStatus, StatusLoop, StatusGet, StatusSend, StatusFailed, StatusDone
<1> QED
  BY <1>1, <1>2, <1>3, <1>5, <1>6, <1>7, <1>8, <1>9 DEF Next, NotifyLoop, vars

\* Messages reach the third party in the order they were queued, whatever
\* fails (webbhook.go:204-270, filestore.go:509-574).
THEOREM OrderCorrect == Spec => []NotifiedInOrder
<1>1. NotifyInv => NotifiedInOrder
  BY DEF NotifyInv
<1> QED  BY <1>1, InitNotify, NextNotify, PTL DEF Spec

\* A message leaves the notify queue told or out of retries
\* (webbhook.go:229-264).
THEOREM DueCorrect == Spec => RemovedOnlyWhenDue
<1> DEFINE Due == \A m \in notifyQueue \ notifyQueue' : m \in told \/ fails[m] >= RetryMax
<1>1. NotifyInv /\ [Next]_vars => [Due]_vars
  <2> SUFFICES ASSUME NotifyInv, Next PROVE Due
    BY DEF vars
  <2>1. CASE NotifyFailed
    <3>1. notifyQueue \ notifyQueue' \subseteq FailedTooOften(batch)
      BY <2>1 DEF NotifyFailed, RemoveMessagesOfNotifyQueue
    <3>2. \A m \in FailedTooOften(batch) : fails[m] >= RetryMax
      BY <2>1, WebhookAssumption
         DEF NotifyFailed, FailedTooOften, NotifyInv, NotifyType, Counted
    <3> QED  BY <3>1, <3>2
  <2>2. CASE NotifyDone
    BY <2>2 DEF NotifyDone, RemoveMessagesOfNotifyQueue, NotifyInv, Counted
  <2>3. CASE Crash \/ AppendStatus \/ StatusLoop \/ NotifyGet \/ NotifySend
             \/ \E n \in 1 .. 2 : AppendMessageOfNotifyQueue(n)
    <3>1. notifyQueue \subseteq notifyQueue'
      BY <2>3
         DEF Crash, AppendStatus, StatusLoop, StatusGet, StatusSend, StatusFailed,
             StatusDone, NotifyGet, NotifySend, AppendMessageOfNotifyQueue, notifyVars
    <3> QED  BY <3>1
  <2> QED  BY <2>1, <2>2, <2>3 DEF Next, NotifyLoop
<1>2. [][NotifyInv /\ [Next]_vars]_vars => RemovedOnlyWhenDue
  BY <1>1, PTL DEF RemovedOnlyWhenDue
<1> QED  BY <1>2, InitNotify, NextNotify, PTL DEF Spec
=============================================================================
