------------------------------ MODULE Messages ------------------------------
(***************************************************************************)
(* The way of a message through the server: SEND packets of connections    *)
(* (internal/server/processor.go) and requests of the message API          *)
(* (api_message.go) are judged, stored, queued for the webhook, put into   *)
(* the queues of their recipients (channel.go) and delivered; recipients   *)
(* acknowledge what came through their queue, which moves its cursor       *)
(* (processor.go, pkg/okstore/filestore.go).  Streams holds the store's    *)
(* side of messages that come in items.                                    *)
(*                                                                         *)
(* Goroutines of the frame pool each take a run of SEND packets of one     *)
(* connection, handlers of the API one request each.  Any step to the      *)
(* store may fail; what the steps before it did stays.                     *)
(*                                                                         *)
(* Abstractions.  Permissions and subscriber lists are those of Channels:  *)
(* here a channel refuses or has its subscribers, in a group all users.  A *)
(* log is the sequence of its messages (TopicLog has its files), the       *)
(* webhook's queue a set (Webhook has its order).  Every recipient has a   *)
(* connection, and a delivered message is one the recipient may            *)
(* acknowledge at any time: RetryQueue and Connections have the rest.      *)
(* Messages without a sender and temporary channels are left out.          *)
(***************************************************************************)
EXTENDS Streams, Filter

CONSTANTS
  Users, Group,
  Hash,       \* okutil.HashCrc32 of a name
  Frames,     \* goroutines of the frame pool
  Handlers,   \* handlers of the HTTP server
  Ackers,     \* goroutines that move cursors
  WebhookOn,
  MaxSends,   \* bound: packets and requests
  Mixed(_),   \* bound: the messages that are explored together
  MaxBatch,   \* bound: packets in a run
  Readers,    \* bound: users who acknowledge
  MaxAcks     \* bound: acknowledgements

Names == Users \cup {Group}

\* Faulty variant: the two ends have topics of their own.
GetFakeChannelIDWithOrdered(from, to) == <<from, to>>

\* The topic of a person channel.
GetFakeChannelIDWith(from, to) == IF Hash[from] > Hash[to] THEN <<from, to>> ELSE <<to, from>>

ASSUME MessageConstants ==
  /\ Procs = Frames \cup Handlers /\ Frames \cap Handlers = {}
  /\ Group \notin Users
  /\ \A m, n \in Names : {<<n>>, GetFakeChannelIDWith(m, n)} \subseteq Topics \cup {<<n, n>>}
  /\ WebhookOn \in BOOLEAN
  /\ Readers \subseteq Users
  /\ {MaxSends, MaxBatch, MaxAcks} \subseteq Nat
  /\ \A n \in Names : Hash[n] \in Nat
  \* The names of two users who write to each other hash to different numbers.
  /\ \A m, n \in Names : m # n => Hash[m] # Hash[n]

VARIABLES
  msg,        \* the messages, in the order they came
  job,        \* what each goroutine does
  log,        \* log of each topic: messages at their numbers, 0 where an append failed
  queue,      \* the same for the queue of each user
  notify,     \* webhook queue
  replies,    \* answers to each message
  started,    \* the start message of the stream, None before there is one
  delivered,  \* history: RECV packets that were sent
  cursor,     \* cursor of each queue, None before there is one
  moving,     \* UpdateMessageOfUserCursorIfNeed of each goroutine
  acked,      \* history: highest number acknowledged to each queue
  acks        \* acknowledgements so far

msgVars == <<msg, job, log, queue, notify, replies, started, delivered>>
cursorVars == <<cursor, moving, acked, acks>>
vars == <<msgVars, cursorVars, streamVars>>

\* bad: the signature or the payload does not decode; command: SyncOnce and NoPersist.
PacketKinds == {"plain", "noPersist", "syncOnce", "bad", "ing"}
RequestKinds == {"plain", "noPersist", "syncOnce", "command", "start", "ing", "end"}
NoPersist(m) == m.kind \in {"noPersist", "command"}
SyncOnce(m) == m.kind \in {"syncOnce", "command"}
StreamIng(m) == m.kind = "ing"

\* GetPersonChannel: the subscribers of a person channel are its two ends.
Subscribers(m) == IF m.to = Group THEN Users ELSE {m.from, m.to}

FakeChannelID(from, to) == IF to = Group THEN <<to>> ELSE GetFakeChannelIDWith(from, to)

\* Faulty variant: connections take the topic of the channel, as the API does.
StreamTopicOfChannel(m) == FakeChannelID(m.from, m.to)

\* The topic that takes stream items: connections name it after both ends in groups too.
StreamTopic(m) ==
  IF m.api THEN FakeChannelID(m.from, m.to) ELSE GetFakeChannelIDWith(m.from, m.to)

Idle == [pc |-> "idle", rest |-> <<>>, msgs |-> <<>>, items |-> <<>>, subs |-> {}, seqs |-> {}, acks |-> <<>>]

Init ==
  /\ StreamInit
  /\ msg = <<>>
  /\ job = [p \in Procs |-> Idle]
  /\ log = [t \in Topics |-> <<>>]
  /\ queue = [u \in Users |-> <<>>]
  /\ notify = {}
  /\ replies = <<>>
  /\ started = None
  /\ delivered = {}
  /\ cursor = [u \in Users |-> None]
  /\ moving = [k \in Ackers |-> None]
  /\ acked = [u \in Users |-> 0]
  /\ acks = 0

\* Sendacks for the messages ids, with the numbers they have in ms, or with none.
getSendackPacket(ids, ms, reason) ==
  [k \in DOMAIN ids |-> [id |-> ids[k], reason |-> reason, seq |-> ms[ids[k]].seq]]
getSendackPacketWithSendPacket(ids, reason) ==
  [k \in DOMAIN ids |-> [id |-> ids[k], reason |-> reason, seq |-> 0]]
Respond(rs) ==
  replies' = [i \in DOMAIN replies |-> replies[i] \o Only(rs, {r \in ToSet(rs) : r.id = i})]

\* What may be sent: stream items only to the channel of a stream that was started.
Sendable(from, to, kind) ==
  /\ from # to
  /\ kind = "start" => started = None
  /\ kind \in {"ing", "end"} => started # None
  /\ kind = "ing" => FakeChannelID(from, to) = FakeChannelID(msg[started].from, msg[started].to)
  /\ kind = "end" => to = msg[started].to

New(from, to, kind, api) == [from |-> from, to |-> to, kind |-> kind, api |-> api, seq |-> 0]

Receive(p, ms, pc) ==
  /\ Mixed(msg \o ms)
  /\ \A k \in DOMAIN ms : Sendable(ms[k].from, ms[k].to, ms[k].kind)
  /\ msg' = msg \o ms
  /\ replies' = replies \o [k \in DOMAIN ms |-> <<>>]
  /\ job' = [job EXCEPT ![p] = [Idle EXCEPT !.pc = pc, !.rest = [k \in DOMAIN ms |-> Len(msg) + k]]]
  /\ UNCHANGED <<log, queue, notify, delivered, cursorVars, streamVars>>

\* processMsgs: a run of packets of one connection.
Packets(u) == {New(u, to, kind, FALSE) : to \in Names, kind \in PacketKinds}
processMsgs(p, u, n) ==
  /\ job[p].pc = "idle" /\ Len(msg) + n <= MaxSends
  /\ \E ms \in [1 .. n -> Packets(u)] : Receive(p, ms, "split")
  /\ UNCHANGED started

\* /message/send, /message/sendbatch for each recipient, /streammessage/start and end.
sendRequest(p, u, to, kind) ==
  /\ job[p].pc = "idle" /\ Len(msg) < MaxSends
  /\ Receive(p, <<New(u, to, kind, TRUE)>>, IF kind = "end" THEN "end" ELSE "split")
  /\ started' = IF kind = "start" THEN Len(msg) + 1 ELSE started

Goto(p, j) == job' = [job EXCEPT ![p] = j]

\* The signature matches and the payload decrypts.
checkAndDecodePayload(m) == m.kind # "bad"

Items == {i \in DOMAIN msg : StreamIng(msg[i])}
Accepted(j, ids) == [j EXCEPT !.msgs = ids, !.items = Only(ids, Items),
                              !.pc = IF ids = <<>> THEN "split" ELSE "store"]

\* Packets are split by channel and the channels taken in any order: a Go map.  The
\* channel is looked up, the sender's permission asked, and each packet decoded.  One
\* that does not decode is answered at once, the others when the run is done.
prcocessChannelMessages(p, to) ==
  LET channel == {i \in DOMAIN msg : msg[i].to = to}
      j == [job[p] EXCEPT !.rest = Only(@, DOMAIN msg \ channel)]
      mine == Only(job[p].rest, channel)
      once == Only(mine, {i \in channel : SyncOnce(msg[i])})
      bad == Only(mine, {i \in channel : ~SyncOnce(msg[i]) /\ ~checkAndDecodePayload(msg[i])})
      good == Only(mine, {i \in channel : ~SyncOnce(msg[i]) /\ checkAndDecodePayload(msg[i])})
  IN /\ j.pc = "split" /\ mine # <<>>
     /\ \/ /\ Works
           /\ Goto(p, [Accepted(j, good) EXCEPT !.acks = @ \o
                        getSendackPacketWithSendPacket(once, "NotSupportHeader")])
           /\ Respond(getSendackPacketWithSendPacket(bad, "PayloadDecodeError"))
        \/ /\ Fails
           /\ \E reason \in {"SystemError", "Refused"} :
                Goto(p, [j EXCEPT !.acks = @ \o getSendackPacketWithSendPacket(mine, reason)])
           /\ UNCHANGED replies
     /\ UNCHANGED <<msg, log, queue, notify, started, delivered, cursorVars,
                    file, meta, cached, stream, call>>

\* A request of the API needs no permission, only a channel that is found and, for
\* SyncOnce, not too large.
sendMessageToChannel(p) ==
  LET j == [job[p] EXCEPT !.rest = <<>>]
      ids == job[p].rest
  IN /\ j.pc = "split" /\ ids # <<>>
     /\ \/ Works /\ Goto(p, Accepted(j, ids))
        \/ Fails /\ Goto(p, [j EXCEPT !.acks = getSendackPacketWithSendPacket(ids, "Refused")])
     /\ UNCHANGED <<msg, log, queue, notify, replies, started, delivered, cursorVars,
                    file, meta, cached, stream, call>>

\* Faulty variant: only the error is returned.
GiveUpSilently(j, ms) == [j EXCEPT !.pc = "split", !.msgs = <<>>, !.items = <<>>, !.subs = {}, !.seqs = {}]

\* The channel's messages are given up: what was done for them stays.
GiveUp(j, ms) == [j EXCEPT !.pc = "split", !.msgs = <<>>, !.items = <<>>, !.subs = {}, !.seqs = {},
                           !.acks = @ \o getSendackPacket(j.msgs, ms, "SystemError")]

\* Items are appended to their streams, one after the other ...
AppendStreamItem(p) ==
  LET j == job[p]
      i == Head(j.items)
  IN /\ j.pc = "store" /\ j.items # <<>>
     /\ \/ /\ call[p].pc = "none"
           /\ getStream(p, "append", StreamTopic(msg[i]), i, "none")
           /\ UNCHANGED job
        \/ /\ call[p].pc = "done"
           /\ call' = [call EXCEPT ![p] = NoCall]
           /\ Goto(p, IF call[p].val = "ok" THEN [j EXCEPT !.items = Tail(@)] ELSE GiveUp(j, msg))
           /\ UNCHANGED <<file, meta, cached, stream, trouble>>
     /\ UNCHANGED <<msg, log, queue, notify, replies, started, delivered, cursorVars>>

Stored == {i \in DOMAIN msg : ~NoPersist(msg[i]) /\ ~SyncOnce(msg[i]) /\ ~StreamIng(msg[i])}
\* Appending ids gives the k-th the number n + k, whether the write works or not.
Numbered(ids, n) ==
  [i \in DOMAIN msg |-> [msg[i] EXCEPT !.seq = IF Contains(ids, i) THEN n + (CHOOSE k \in DOMAIN ids : ids[k] = i) ELSE @]]

\* ... and the other messages to the channel's log, in one call.
storeChannelMessagesIfNeed(p) ==
  LET j == job[p]
      ids == Only(j.msgs, Stored)
      t == FakeChannelID(msg[j.msgs[1]].from, msg[j.msgs[1]].to)
      next == [j EXCEPT !.pc = "notify"]
  IN /\ j.pc = "store" /\ j.items = <<>>
     /\ IF ids = <<>> THEN Works /\ Goto(p, next) /\ UNCHANGED <<msg, log>>
        ELSE /\ msg' = Numbered(ids, Len(log[t]))
             /\ \/ Works /\ log' = [log EXCEPT ![t] = @ \o ids] /\ Goto(p, next)
                \/ /\ Fails
                   /\ log' = [log EXCEPT ![t] = @ \o [k \in DOMAIN ids |-> 0]]
                   /\ Goto(p, GiveUp(j, msg'))
     /\ UNCHANGED <<queue, notify, replies, started, delivered, cursorVars,
                    file, meta, cached, stream, call>>

\* The webhook's queue: no stream items, and nothing that is both SyncOnce and NoPersist.
storeChannelMessagesToNotifyQueue(p) ==
  LET j == job[p]
      ids == {i \in ToSet(j.msgs) : ~StreamIng(msg[i]) /\ ~(NoPersist(msg[i]) /\ SyncOnce(msg[i]))}
  IN /\ j.pc = "notify"
     /\ \/ /\ Works
           /\ notify' = IF WebhookOn THEN notify \cup ids ELSE notify
           /\ Goto(p, [j EXCEPT !.pc = "put", !.subs = Subscribers(msg[j.msgs[1]])])
        \/ /\ WebhookOn /\ ids # {} /\ Fails
           /\ notify' = notify
           /\ Goto(p, GiveUp(j, msg))
     /\ UNCHANGED <<msg, log, queue, replies, started, delivered, cursorVars,
                    file, meta, cached, stream, call>>

Queued == {i \in DOMAIN msg : ~NoPersist(msg[i]) /\ SyncOnce(msg[i])}

\* Channel.Put: for one subscriber after the other, the messages that go through
\* queues; seqs is messageSeqMap.
storeMessageToUserQueueIfNeed(p, u) ==
  LET j == job[p]
      ids == Only(j.msgs, Queued)
      n == Len(queue[u])
  IN /\ j.pc = "put" /\ u \in j.subs /\ ids # <<>>
     /\ \/ /\ Works
           /\ queue' = [queue EXCEPT ![u] = @ \o ids]
           /\ Goto(p, [j EXCEPT !.subs = @ \ {u},
                                !.seqs = @ \cup {<<u, ids[k], n + k>> : k \in DOMAIN ids}])
        \/ /\ Fails
           /\ queue' = [queue EXCEPT ![u] = @ \o [k \in DOMAIN ids |-> 0]]
           /\ Goto(p, GiveUp(j, msg))
     /\ UNCHANGED <<msg, log, notify, replies, started, delivered, cursorVars,
                    file, meta, cached, stream, call>>

\* Faulty variant: messageSeqMap is keyed by the message alone.
RecvPacketAnyQueue(i, u, seqs) ==
  LET m == msg[i]
      queued == {x \in seqs : x[2] = i}
  IN [id |-> i, uid |-> u,
      channel |-> IF m.to = u THEN m.from ELSE m.to,
      seq |-> IF SyncOnce(m) /\ ~NoPersist(m) /\ queued # {} THEN (CHOOSE x \in queued : TRUE)[3]
              ELSE m.seq]

\* The RECV packet for u: in a person channel u sees the sender as the channel, and a
\* message that went through queues bears its number in the queue of u.
RecvPacket(i, u, seqs) ==
  LET m == msg[i]
      queued == {x \in seqs : x[1] = u /\ x[2] = i}
  IN [id |-> i, uid |-> u,
      channel |-> IF m.to = u THEN m.from ELSE m.to,
      seq |-> IF SyncOnce(m) /\ ~NoPersist(m) /\ queued # {} THEN (CHOOSE x \in queued : TRUE)[3]
              ELSE m.seq]

\* The messages are delivered and their success is to be answered; a stream that starts
\* has its meta data still to save.
deliveryMessages(p) ==
  LET j == job[p]
      ids == ToSet(j.msgs)
      done == [j EXCEPT !.pc = IF msg[j.msgs[1]].kind = "start" THEN "meta" ELSE "split",
                        !.msgs = <<>>, !.subs = {}, !.seqs = {},
                        !.acks = @ \o getSendackPacket(j.msgs, msg, "Success")]
  IN /\ j.pc = "put"
     /\ ids \cap Queued # {} => j.subs = {}
     /\ delivered' = delivered \cup {RecvPacket(i, u, j.seqs) : i \in ids, u \in Subscribers(msg[j.msgs[1]])}
     /\ Goto(p, done)
     /\ UNCHANGED <<msg, log, queue, notify, replies, started, cursorVars, streamVars>>

\* streamMessageStart, after its message: the meta data goes by the name of the channel
\* in the request, also in a person channel.
SaveStreamMeta(p) ==
  LET j == job[p]
  IN /\ j.pc = "meta"
     /\ \/ /\ call[p].pc = "none"
           /\ getStream(p, "save", <<msg[started].to>>, 0, "start")
           /\ UNCHANGED job
        \/ /\ call[p].pc = "done"
           /\ call' = [call EXCEPT ![p] = NoCall]
           /\ Goto(p, [j EXCEPT !.pc = "split",
                                !.acks = IF call[p].val = "ok" THEN @
                                         ELSE getSendackPacketWithSendPacket(<<started>>, "SystemError")])
           /\ UNCHANGED <<file, meta, cached, stream, trouble>>
     /\ UNCHANGED <<msg, log, queue, notify, replies, started, delivered, cursorVars>>

\* All channels of the run are done: the sendacks leave together.
response(p) ==
  /\ job[p].pc = "split" /\ job[p].rest = <<>>
  /\ Respond(job[p].acks)
  /\ Goto(p, Idle)
  /\ UNCHANGED <<msg, log, queue, notify, started, delivered, cursorVars, streamVars>>

\* /streammessage/end: the meta data is read, and saved with another flag if there is any.
streamMessageEnd(p) ==
  LET j == job[p]
      c == call[p]
      found == c.op = "read" /\ c.val \in {"start", "end"}
      ended == c.op = "save" /\ c.val = "ok"
  IN /\ j.pc = "end"
     /\ \/ /\ c.pc = "none"
           /\ getStream(p, "read", <<msg[started].to>>, 0, "none")
           /\ UNCHANGED job
        \/ /\ c.pc = "done" /\ found
           /\ getStream(p, "save", <<msg[started].to>>, 0, "end")
           /\ UNCHANGED job
        \/ /\ c.pc = "done" /\ ~found
           /\ call' = [call EXCEPT ![p] = NoCall]
           /\ Goto(p, [Idle EXCEPT !.pc = "split",
                !.acks = getSendackPacketWithSendPacket(j.rest, IF ended THEN "Success" ELSE "SystemError")])
           /\ UNCHANGED <<file, meta, cached, stream, trouble>>
     /\ UNCHANGED <<msg, log, queue, notify, replies, started, delivered, cursorVars>>

-----------------------------------------------------------------------------
\* UpdateMessageOfUserCursorIfNeed reads the last number of the queue ...
MoveCursor(k, u, n) ==
  /\ moving[k] = None /\ queue[u] # <<>>
  /\ acks < MaxAcks /\ acks' = acks + 1
  /\ moving' = [moving EXCEPT ![k] = [uid |-> u, seq |-> n, last |-> Len(queue[u])]]
  /\ acked' = [acked EXCEPT ![u] = IF n > @ THEN n ELSE @]
  /\ UNCHANGED <<cursor, msgVars, streamVars>>

\* Faulty variant: an acknowledgement below the end is the one raised.
UpdateMessageOfUserCursorIfNeedToEnd(k) ==
  LET v == moving[k]
      offset == IF v.seq < v.last THEN v.last ELSE v.seq
      old == cursor[v.uid]
  IN /\ v # None
     /\ cursor' = IF old # None /\ offset <= old /\ old < v.last THEN cursor
                  ELSE [cursor EXCEPT ![v.uid] = offset]
     /\ moving' = [moving EXCEPT ![k] = None]
     /\ UNCHANGED <<acked, acks, msgVars, streamVars>>

\* ... and then writes the cursor, in a transaction of the key-value store.  An older
\* acknowledgement is ignored, unless the cursor is at the end of the queue.
UpdateMessageOfUserCursorIfNeed(k) ==
  LET v == moving[k]
      offset == IF v.seq > v.last THEN v.last ELSE v.seq
      old == cursor[v.uid]
  IN /\ v # None
     /\ cursor' = IF old # None /\ offset <= old /\ old < v.last THEN cursor
                  ELSE [cursor EXCEPT ![v.uid] = offset]
     /\ moving' = [moving EXCEPT ![k] = None]
     /\ UNCHANGED <<acked, acks, msgVars, streamVars>>

\* A master device acknowledges a message that came through the queue.
processRecvacks(k) ==
  \E d \in delivered : /\ d.uid \in Readers
                       /\ d.id \in Queued
                       /\ MoveCursor(k, d.uid, d.seq)

\* /message/syncack, with any number but 0; all above the queue's are alike.
syncack(k, u, n) == MoveCursor(k, u, n)

\* /message/sync: from the cursor, or from a lower number the client gives.
GetMessageOfUserCursor(u) == IF cursor[u] = None THEN 0 ELSE cursor[u]
syncFrom(u, n) == 1 + (IF n > 0 /\ n < GetMessageOfUserCursor(u) THEN n ELSE GetMessageOfUserCursor(u))
SyncMessageOfUser(u, n) == {k \in DOMAIN queue[u] : k >= syncFrom(u, n)}

\* With a message that names a stream come its items, from the topic of both ends.
StreamsOf(m) == readItems(GetFakeChannelIDWith(m.from, m.to))

-----------------------------------------------------------------------------
Next ==
  \/ \E p \in Frames, u \in Users, n \in 1 .. MaxBatch : processMsgs(p, u, n)
  \/ \E p \in Handlers, u \in Users, to \in Names, kind \in RequestKinds : sendRequest(p, u, to, kind)
  \/ \E p \in Frames, to \in Names : prcocessChannelMessages(p, to)
  \/ \E p \in Handlers : sendMessageToChannel(p)
  \/ \E p \in Procs :
       \/ AppendStreamItem(p)
       \/ storeChannelMessagesIfNeed(p)
       \/ storeChannelMessagesToNotifyQueue(p)
       \/ \E u \in Users : storeMessageToUserQueueIfNeed(p, u)
       \/ deliveryMessages(p)
       \/ SaveStreamMeta(p)
       \/ streamMessageEnd(p)
       \/ response(p)
  \/ \E k \in Ackers :
       \/ processRecvacks(k)
       \/ \E u \in Readers : \E n \in 1 .. Len(queue[u]) + 1 : syncack(k, u, n)
       \/ UpdateMessageOfUserCursorIfNeed(k)
  \/ StreamStep /\ UNCHANGED <<msgVars, cursorVars>>

Spec == Init /\ [][Next]_vars

-----------------------------------------------------------------------------
Waiting(i) == \E p \in Procs : Contains(job[p].rest \o job[p].msgs, i)
                               \/ \E r \in ToSet(job[p].acks) : r.id = i

(* Every packet and request is answered exactly once, whatever fails on the way
   and whatever else is in its run: it is being worked on until then
   (processor.go:250-407, api_message.go:200-304). *)
AnsweredOnce == \A i \in DOMAIN msg : Len(replies[i]) + (IF Waiting(i) THEN 1 ELSE 0) = 1

Somewhere(i) ==
  \/ \E t \in Topics : Contains(log[t], i) \/ \E x \in ToSet(file[t]) : x.id = i
  \/ \E u \in Users : Contains(queue[u], i)
  \/ i \in notify
  \/ \E d \in delivered : d.id = i

(* A sendack tells the truth to both ends.  After Success the message stands in the
   log its recipient reads, at the number the sendack bears, or in the queue of
   every recipient, and the webhook will hear of it.  After a refusal it is nowhere.
   (SystemError promises nothing: earlier steps stay done.) *)
AckTruth ==
  \A i \in DOMAIN msg : \A r \in ToSet(replies[i]) :
    LET m == msg[i]
        t == IF m.to = Group THEN <<Group>> ELSE GetFakeChannelIDWith(m.to, m.from)
    IN /\ r.reason = "Success" =>
            /\ m.kind \in {"plain", "start"} => r.seq \in DOMAIN log[t] /\ log[t][r.seq] = i
            /\ m.kind = "syncOnce" => \A u \in Subscribers(m) : Contains(queue[u], i)
            /\ WebhookOn /\ m.kind \notin {"ing", "command", "end"} => i \in notify
       /\ r.reason \in {"Refused", "NotSupportHeader", "PayloadDecodeError"} => ~Somewhere(i)

(* A recipient finds a delivered message where the RECV packet says it is: in the log
   of the channel the packet names, seen from the recipient, or in the recipient's own
   queue, at the packet's number (delivery_manager.go:78-95, channel.go:486-523). *)
DeliveredWhereSaid ==
  \A d \in delivered :
    LET m == msg[d.id]
        t == FakeChannelID(d.uid, d.channel)
    IN /\ m.kind \in {"plain", "start"} => d.seq \in DOMAIN log[t] /\ log[t][d.seq] = d.id
       /\ m.kind = "syncOnce" => d.seq \in DOMAIN queue[d.uid] /\ queue[d.uid][d.seq] = d.id

(* Whatever order acknowledgements come in, and however they overlap with new messages,
   the next sync returns every message of the queue above all that was acknowledged
   (filestore.go:274-297, api_message.go:46-71). *)
SyncReturnsUnacked ==
  \A u \in Users, n \in 0 .. MaxSends :
    \A k \in DOMAIN queue[u] : k > acked[u] => k \in SyncMessageOfUser(u, n)

(* An item of a stream that was acknowledged is read back with the message that
   started the stream, once, whoever of the two users of a person channel sent it and
   by which way; in a group, if the connection of the one who started it did.
   (Two items may bear the same number.)  model.go:301-312 is the reader. *)
StreamReadBack ==
  \A i \in DOMAIN msg :
    LET m == msg[i]
        read == StreamsOf(msg[started])
    IN /\ StreamIng(m) /\ \E r \in ToSet(replies[i]) : r.reason = "Success"
       /\ m.to = Group => ~m.api /\ m.from = msg[started].from
       => Cardinality({k \in DOMAIN read : read[k].id = i}) = 1
=============================================================================
