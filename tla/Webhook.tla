------------------------------ MODULE Webhook ------------------------------
(***************************************************************************)
(* Telling a third party of messages and of users coming and going          *)
(* (internal/server/webbhook.go, and the notify queue of                    *)
(* pkg/okstore/filestore.go).  Two loops push over HTTP or gRPC:            *)
(* notifyQueueLoop takes messages from a persistent queue and counts the    *)
(* failures of each; loopOnlineStatus takes statuses from a list in memory, *)
(* which grows while a push is under way, and has one count of failures.    *)
(*                                                                         *)
(* Messages and statuses are numbers, in the order they were made.  The     *)
(* notify queue is a bucket of the key-value store, its keys ascending.  A  *)
(* failed push may have reached the third party or not: the answer may be   *)
(* late (timeouts of 5 and 10 seconds) or say that it failed.               *)
(***************************************************************************)
EXTENDS Naturals, Sequences, FiniteSets, SequencesExt

CONSTANTS
    CountPerPush,   \* opts.Webhook.MsgNotifyEventCountPerPush
    RetryMax,       \* opts.Webhook.MsgNotifyEventRetryMaxCount
    MaxMessages,    \* bound: messages
    MaxStatuses,    \* bound: online and offline statuses
    MaxCrashes,     \* bound: restarts of the server
    MaxStoreErrors  \* bound: failing transactions

ASSUME WebhookAssumption ==
    /\ {CountPerPush, RetryMax} \subseteq Nat \ {0}
    /\ {MaxMessages, MaxStatuses, MaxCrashes, MaxStoreErrors} \subseteq Nat

VARIABLES
    notifyQueue,   \* the bucket: the messages that wait
    appended,      \* the number of messages made
    errMessageIDMap, \* failures by message
    batch,         \* the messages of the push under way
    notifyAt,      \* where notifyQueueLoop is
    statusList,    \* onlinestatusList
    pushed,        \* the number of statuses made
    opLen,         \* the length of the batch of statuses
    errCount,      \* failures in loopOnlineStatus
    statusAt,      \* where loopOnlineStatus is
    told, seen,    \* history: the messages and statuses that arrived
    fails, tries,  \* history: failed pushes of each message and each status
    crashes, storeErrors

notifyVars == <<notifyQueue, appended, errMessageIDMap, batch, notifyAt, told, fails>>
statusVars == <<statusList, pushed, opLen, errCount, statusAt, seen, tries>>
vars == <<notifyVars, statusVars, crashes, storeErrors>>

Messages == 1 .. MaxMessages
Statuses == 1 .. MaxStatuses

\* "get": before reading the queue or the list; "send": before the request;
\* "ok" and "error": the request has ended so.
Places == {"get", "send", "ok", "error"}

TypeOK ==
    /\ notifyQueue \subseteq Messages
    /\ appended \in 0 .. MaxMessages
    /\ errMessageIDMap \in [Messages -> 0 .. RetryMax - 1]
    /\ batch \subseteq Messages
    /\ {notifyAt, statusAt} \subseteq Places
    /\ statusList \in Seq(Statuses)
    /\ pushed \in 0 .. MaxStatuses
    /\ opLen \in 0 .. Len(statusList)
    /\ errCount \in 0 .. RetryMax - 1
    /\ told \subseteq Messages /\ seen \subseteq Statuses
    /\ fails \in [Messages -> 0 .. RetryMax]
    /\ tries \in [Statuses -> 0 .. RetryMax]
    /\ crashes \in Nat /\ storeErrors \in Nat

Init ==
    /\ notifyQueue = {} /\ appended = 0 /\ batch = {} /\ notifyAt = "get"
    /\ errMessageIDMap = [m \in Messages |-> 0]
    /\ statusList = <<>> /\ pushed = 0 /\ opLen = 0 /\ errCount = 0
    /\ statusAt = "get"
    /\ told = {} /\ fails = [m \in Messages |-> 0]
    /\ seen = {} /\ tries = [x \in Statuses |-> 0]
    /\ crashes = 0 /\ storeErrors = 0

\* A history of failures counts no further than RetryMax.
CountFor(items, history) ==
    [x \in DOMAIN history |->
        IF x \in items /\ history[x] < RetryMax THEN history[x] + 1
                                                ELSE history[x]]

-----------------------------------------------------------------------------
(* Messages.                                                               *)

\* storeChannelMessagesToNotifyQueue and the send API append what was sent, all
\* of a call in one transaction.
AppendMessageOfNotifyQueue(n) ==
    /\ appended + n <= MaxMessages
    /\ notifyQueue' = notifyQueue \cup (appended + 1 .. appended + n)
    /\ appended' = appended + n
    /\ UNCHANGED <<errMessageIDMap, batch, notifyAt, told, fails, statusVars,
                   crashes, storeErrors>>

\* Faulty variant: the newest messages are taken.
NewestMessages(q) ==
    {m \in q : Cardinality({k \in q : k > m}) < CountPerPush}

\* GetMessagesOfNotifyQueue: the first of the bucket.
GetMessagesOfNotifyQueue(q) ==
    {m \in q : Cardinality({k \in q : k < m}) < CountPerPush}

NotifyGet ==
    /\ notifyAt = "get"
    /\ notifyQueue # {}
    /\ batch' = GetMessagesOfNotifyQueue(notifyQueue)
    /\ notifyAt' = "send"
    /\ UNCHANGED <<notifyQueue, appended, errMessageIDMap, told, fails,
                   statusVars, crashes, storeErrors>>

NotifySend ==
    /\ notifyAt = "send"
    /\ \/ /\ notifyAt' = "ok"
          /\ told' = told \cup batch
          /\ UNCHANGED fails
       \/ /\ notifyAt' = "error"
          /\ told' \in {told, told \cup batch}
          /\ fails' = CountFor(batch, fails)
    /\ UNCHANGED <<notifyQueue, appended, errMessageIDMap, batch, statusVars,
                   crashes, storeErrors>>

\* RemoveMessagesOfNotifyQueue is one transaction.
RemoveMessagesOfNotifyQueue(ms) ==
    \/ /\ notifyQueue' = notifyQueue \ ms
       /\ UNCHANGED storeErrors
    \/ /\ ms # {}
       /\ storeErrors < MaxStoreErrors
       /\ storeErrors' = storeErrors + 1
       /\ UNCHANGED notifyQueue

\* Faulty variant: one message at its limit takes the whole batch with it.
FailedAll(ms) ==
    IF \E m \in ms : errMessageIDMap[m] + 1 >= RetryMax THEN ms ELSE {}

\* The messages of the batch that have now failed too often.
FailedTooOften(ms) == {m \in ms : errMessageIDMap[m] + 1 >= RetryMax}

\* Faulty variant: the map is made anew for every push.
NotifyForgets ==
    /\ notifyAt = "error"
    /\ RemoveMessagesOfNotifyQueue(FailedTooOften(batch))
    /\ batch' = {}
    /\ notifyAt' = "get"
    /\ UNCHANGED <<appended, errMessageIDMap, told, fails, statusVars, crashes>>

\* The push failed: each message counts for itself; the ones at the limit are
\* dropped, and their counts too, whether removing them worked or not.
NotifyFailed ==
    /\ notifyAt = "error"
    /\ errMessageIDMap' =
          [m \in Messages |->
              IF m \notin batch THEN errMessageIDMap[m]
              ELSE IF m \in FailedTooOften(batch) THEN 0
              ELSE errMessageIDMap[m] + 1]
    /\ RemoveMessagesOfNotifyQueue(FailedTooOften(batch))
    /\ batch' = {}
    /\ notifyAt' = "get"
    /\ UNCHANGED <<appended, told, fails, statusVars, crashes>>

\* The push worked: the batch is forgotten and removed.
NotifyDone ==
    /\ notifyAt = "ok"
    /\ errMessageIDMap' = [m \in Messages |-> IF m \in batch THEN 0
                                              ELSE errMessageIDMap[m]]
    /\ RemoveMessagesOfNotifyQueue(batch)
    /\ batch' = {}
    /\ notifyAt' = "get"
    /\ UNCHANGED <<appended, told, fails, statusVars, crashes>>

-----------------------------------------------------------------------------
(* Online statuses.                                                        *)

\* Online and Offline, from processAuth and processClose.
AppendStatus ==
    /\ pushed < MaxStatuses
    /\ statusList' = Append(statusList, pushed + 1)
    /\ pushed' = pushed + 1
    /\ UNCHANGED <<opLen, errCount, statusAt, seen, tries, notifyVars, crashes,
                   storeErrors>>

\* A batch that failed keeps its length, although the list has grown.
StatusGet ==
    /\ statusAt = "get"
    /\ opLen = 0 => statusList # <<>>
    /\ opLen' = IF opLen = 0 THEN Len(statusList) ELSE opLen
    /\ statusAt' = "send"
    /\ UNCHANGED <<statusList, pushed, errCount, seen, tries, notifyVars,
                   crashes, storeErrors>>

StatusBatch == ToSet(SubSeq(statusList, 1, opLen))

StatusSend ==
    /\ statusAt = "send"
    /\ \/ /\ statusAt' = "ok"
          /\ seen' = seen \cup StatusBatch
          /\ UNCHANGED tries
       \/ /\ statusAt' = "error"
          /\ seen' \in {seen, seen \cup StatusBatch}
          /\ tries' = CountFor(StatusBatch, tries)
    /\ UNCHANGED <<statusList, pushed, opLen, errCount, notifyVars, crashes,
                   storeErrors>>

\* Faulty variant: the whole list is thrown away.
CutAll ==
    /\ statusList' = <<>>
    /\ opLen' = 0

\* The batch is cut off the front of the list.
CutStatuses ==
    /\ statusList' = SubSeq(statusList, opLen + 1, Len(statusList))
    /\ opLen' = 0

StatusFailed ==
    /\ statusAt = "error"
    /\ statusAt' = "get"
    /\ \/ /\ errCount + 1 >= RetryMax
          /\ errCount' = 0
          /\ CutStatuses
       \/ /\ errCount + 1 < RetryMax
          /\ errCount' = errCount + 1
          /\ UNCHANGED <<statusList, opLen>>
    /\ UNCHANGED <<pushed, seen, tries, notifyVars, crashes, storeErrors>>

\* The count of failures is left as it is.
StatusDone ==
    /\ statusAt = "ok"
    /\ statusAt' = "get"
    /\ CutStatuses
    /\ UNCHANGED <<errCount, pushed, seen, tries, notifyVars, crashes,
                   storeErrors>>

-----------------------------------------------------------------------------
\* The server ends and starts again: the queue is on disk, the list of
\* statuses and all counts are not.
Crash ==
    /\ crashes < MaxCrashes
    /\ crashes' = crashes + 1
    /\ batch' = {} /\ notifyAt' = "get"
    /\ errMessageIDMap' = [m \in Messages |-> 0]
    /\ statusList' = <<>> /\ opLen' = 0 /\ errCount' = 0 /\ statusAt' = "get"
    /\ UNCHANGED <<notifyQueue, appended, told, fails, pushed, seen, tries,
                   storeErrors>>

NotifyLoop == NotifyGet \/ NotifySend \/ NotifyFailed \/ NotifyDone
StatusLoop == StatusGet \/ StatusSend \/ StatusFailed \/ StatusDone

Next ==
    \/ \E n \in 1 .. 2 : AppendMessageOfNotifyQueue(n)
    \/ AppendStatus
    \/ NotifyLoop
    \/ StatusLoop
    \/ Crash

Spec == Init /\ [][Next]_vars

\* Each loop is a goroutine that goes on for ever: a push ends by its
\* timeouts, the ticker ticks and the pauses after errors end.  Nothing is
\* assumed of the third party, which may refuse every push.
Fairness == WF_vars(NotifyLoop) /\ WF_vars(StatusLoop)

FairSpec == Spec /\ Fairness

-----------------------------------------------------------------------------
(* Properties.                                                             *)

\* A message leaves the notify queue only when it has reached the third party
\* or when RetryMax pushes of it have failed: it does not share the failures of
\* older messages of its batch, and a restart or a failing transaction
\* between the push and the removal loses none (webbhook.go:229-264,
\* options.go:91).
RemovedOnlyWhenDue ==
    [][\A m \in notifyQueue \ notifyQueue' :
           m \in told \/ fails[m] >= RetryMax]_vars

\* No message reaches the third party while an older one that it was never
\* told of still waits, through failures, drops and restarts
\* (filestore.go:553-574, webbhook.go:204-270).
NotifiedInOrder ==
    \A m \in told, k \in notifyQueue \ told : k > m

\* A status that came while a push was under way is not thrown away with the
\* batch: it leaves the list only if it arrived or was in a push that failed.
\* A restart forgets the list (webbhook.go:334-389).
StatusNotLost ==
    [][statusList' # statusList /\ crashes' = crashes =>
          \A x \in ToSet(statusList) \ ToSet(statusList') :
              x \in seen \/ tries[x] > 0]_vars

\* Neither queue is held up, even if the third party fails for ever: every
\* message leaves the notify queue and the statuses are told or dropped
\* (webbhook.go:229-250, 366-381).
QueuesDrain ==
    /\ \A m \in Messages : m \in notifyQueue ~> m \notin notifyQueue
    /\ []<>(statusList = <<>>)
=============================================================================
