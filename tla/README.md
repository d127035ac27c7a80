# A formal model of the IM server

This directory holds TLA+ modules for the instant-messaging server in this repository (Go): how
bytes become frames, how TLS handshakes survive an event loop, how connections log in and are
closed, how messages are judged, stored, numbered, delivered, retried and told to a third party, and
how channels and conversations are cached. TLC checks the modules on small instances; for the retry
queue, the webhook, the key lock, the connection registry, the conversations, the channels, the
topic log and the send path TLAPS proves the main safety properties for every instance.
`PROJECT.json` lists the runs, the faulty variants that show that each property can fail, the
source lines of every definition and the hazards of the code.

    tlc -workers 2 -config RetryQueue.cfg MCRetryQueue     # one run
    tlapm RetryQueueProofs.tla                             # the proofs of one module

## The system

Clients keep TCP or WebSocket connections, with TLS or without. Bytes that arrive pass `oknet`
(reactors, ring buffers, `crypto/tls`), `dispatch` (decoding with `pkg/proto`), the connection
context (a list of frames) and `processor`, which runs equal frames in goroutines. A SEND frame is
checked for permission against its channel, stored in the log of the channel, appended to the notify
queue, put into the queues of its recipients and handed to the delivery manager, which sends it
to every connection of every subscriber and puts a copy in the retry queue until the client
acknowledges it. Requests of the HTTP API change channels and send messages the same way.
Conversations (unread counts) are computed beside that and saved at intervals.

| part | state | operations | how it interacts | what makes it correct |
|---|---|---|---|---|
| wire protocol (`pkg/proto`) | none | encode, size, decode, split | used by dispatch and the client | decode inverts encode in every version; sizes are true |
| network engine (`pkg/oknet`, `pkg/ring`) | ring buffers, descriptor table, timers, pool of objects | read, write, flush, accept, close | reactors and timers | bytes in order, nothing left behind, no leaked descriptor |
| TLS (`oknet/crypto/tls`) | handshake status, keys, half-read records, tickets | read event, handshake functions, key update | called again from its start by every read event | both ends agree, no stall, data once and in order, certificates demanded |
| connections (`conn_manager.go`, `processor.go`) | user to ids, id to descriptor, timers of kicked connections | authenticate, kick, close, notices | reactors, timing wheel | an id leads to its own connection; one master per device flag; notices agree |
| connection context (`conn_context.go`) | frames waiting, in-flight count, read switch | put, pop, finish | reactor and frame goroutines | no frame lost, reading goes on |
| channels, permissions (`channel*.go`, `api_channel.go`) | lists in the store, lists in cached objects | API calls, load, evict, permission, recipients | HTTP handlers and frame goroutines | the cached channel is the stored one; messages are judged by it |
| data channels (`processor.go`, `conn_context.go`, `api_monitor.go`) | users of a cached object, subscriptions of each connection | subscribe, unsubscribe, publish | frame goroutines, API, monitor | a connection that subscribed is reached |
| send path (`processor.go`, `api_message.go`) | logs, user queues, cursors, notify queue | send, store, notify, queue, deliver, acknowledge, sync | frame goroutines, HTTP handlers | one true answer each; found where delivery says; sync returns what was not acknowledged |
| streams (`stream.go`) | item and meta files, cached objects with counters | start, append, end, read | called by the send path | acknowledged items are read back once |
| retry queue (`retry_queue.go`), delivery manager | map of messages in flight, heap by time, retry counts | push, scan, acknowledge, retry | worker pool, timing wheel and frame goroutines share one mutex, taken per step | nothing stranded, nothing retried after its acknowledgement, every retry ends |
| in-flight heap (`in_flight_pqueue.go`) | array, `Message.index`, capacity | Push, Pop, Remove, PeekAndShift | under the mutex of the retry queue | it is a priority queue, and indices name slots |
| key lock (`pkg/keylock`) | map of counted locks | Lock, Unlock, Clean | used by slots, conversations, store lists | exclusion per key, own lock unlocked, every Lock returns |
| topic log (`pkg/okstore`: topic, segment, slot) | segment files, list of bases, last number; segment cache shared by all topics | append, roll, read, open, evict | called by the send path and by the sync API | numbers unique and increasing, nothing acknowledged lost, reads complete |
| webhook (`webbhook.go`, notify queue in `filestore.go`) | persistent queue with failure counts, list of statuses in memory | append, push, drop | send path appends, two loops push to the third party | at least once, in order, dropped only after the retries, never stuck |
| conversations (`conversation.go`, `queue.go`) | cache per user, marks of changed users, queue | compute, set unread, delete, synchronise, flush, stop | calcLoop, saveloop, API goroutines over channels | changes reach the store, Stop ends |

Hard behaviours: locks released between two halves of an operation; two copies of one thing
(object and store, id and descriptor) changed one after the other; a handshake that is called again
from its start; timers that run in goroutines of their own; caches that close files under a user;
restarts between a write and its bookkeeping; objects and descriptors that are reused; loops that
wait for each other.

## Modules

| module | models | state and actions |
|---|---|---|
| `Wire` | `pkg/proto` | pure operators. A frame is its type, its header flags and a function from fields to values; the three lists of fields the code keeps per packet are three lists here. Bytes are numbers |
| `RingBuffer` | `pkg/ring`, `oknet/ring_buffer.go` | pure operators on [buf, r, w, size, isEmpty]; `Junk` stands for bytes never written |
| `FrameStream`, `MCFrameStream` | `dispatch.go`, `oknet/conn.go`, `reactor_sub.go`, `processAuth`, the client's `sendConnect` and `readLoop` | composes the two: `ClientSend`, `ServerRead` (the reactor's read and `dataIn`, up to `AddConn` for a CONNECT), `processAuth` (the CONNACK), `Push` (a frame of another goroutine), `flush`, `ReadConnack` (the client's `DecodePacketWithConn`), `ClientRead`; the kernel cuts the bytes |
| `TLSRecord` | record layer, key schedule, tickets | symbolic cryptography: a secret is the tuple of what it is derived from, a record opens with the key and number it was sealed with, a transcript is a sequence of names |
| `TLSServer` | `handshake_server.go`, `handshake_server_tls13.go`, `conn.go`, `oknet/conn.go` | one action per handshake function; `s.at` is the function the current call comes to next, `s.status` is `handshakeStatus`; a read event may end within a record |
| `TLSClient`, `TLS`, `MCTLS` | `handshake_client*.go` | the package's blocking client; several connections one after the other, with the session cache in between |
| `Connections`, `MCConnections` | `conn_manager.go`, `processor.go`, `oknet` | `conn` are pooled objects, `socket` which connection a descriptor belongs to for the system, `table` the engine's table, `userConnMap` and `connMap` the registry. A login is `AuthLookup`, `AuthKick`, `AuthSet`, ...; closing is split at every access to a shared table. `faults` records which of the races the code does not guard have happened |
| `Channels`, `MCChannels` | `channel.go`, `channel_manager.go`, `api_channel.go`, `filestore.go` | one channel of any type but data, and a topic's parent; a request goes through `GetChannel`, four loads, `Insert`, and its changes of store and object as separate steps, and ends where a call of the store fails (`StoreFails`). What a channel says is taken apart into *bits* (a user on a list, the ban); `touched` are the bits others could change during a goroutine's request, `loose` those of the cached object that nothing ties to the store |
| `DataChannels` | data channels in `processor.go` (`processSub`), `conn_context.go`, `channel_manager.go`, `api_monitor.go` | the users of channel objects, the cached object, the connections with a subscription; each access of a map is a step; `disturbed` and `sure` say which subscriptions met a step that may undo them |
| `Streams` | `stream.go`, the stream part of `topic.go` | Stream objects with counter and open files; the calls of a goroutine to the store, split at look-up, insertion, numbering and write |
| `Messages`, `MCMessages` | `processor.go`, `api_message.go`, `delivery_manager.go`, cursors of `filestore.go` | extends `Streams`; each goroutine has a run of packets or a request and goes through the steps in the code's order, any of which may fail; acknowledgements move the cursor in two steps |
| `RetryQueue`, `MCRetryQueue` | `retry_queue.go`, delivery and ack handlers | one action per critical section. A *clone* is a message copy for one connection; `stage` is where its worker is, `scan` the local variables of each scan, `ack` the clone an ack handler has taken off the map. `index` is `zero` (never queued), `slot` or `gone` (-1) |
| `PriorityQueue` | what the retry queue relies on | a set of items with times |
| `InFlightPQ`, `MCInFlightPQ` | `in_flight_pqueue.go` | the array with 0-based slots, sifting as recursive operators, capacity as `Push` and `Pop` change it; implements `PriorityQueue` |
| `KeyLock` | `keylock.go` | Lock in three steps (read-locked lookup, write-locked creation, acquisition), Unlock in two, `Clean`; an inner lock that nothing refers to can be made again |
| `TopicLog` | `topic.go`, `segment.go`, the caches | a file is the sequence of its numbers; an append is two steps, numbering (with the roll) and the write, so that eviction and crashes fall between; `segLast` is `segment.lastMsgSeq`, read when the segment is opened; implements `MessageLog` |
| `MessageLog` | what senders and readers rely on | what is stored, what readers find, what was returned; a restart may hide messages and a roll may bring them back |
| `Webhook` | `webbhook.go`, notify queue | the two loops, each split at the request; a failed request may have arrived |
| `Conversation`, `MCConversation` | `conversation.go`, `queue.go`, the conversation calls of the API and the store | conversations are objects (`obj`) that the cache, a flush and a goroutine may share; `calc`, `call` and `flush` are the local variables of calcLoop, of each API goroutine and of each `FlushConversations`; the cache of a user is fetched (`CalcTake`, `CallTake`) and added to in two steps, between which the nightly job may drop it (`lost`); `silent` are changes that `syncUserConversation` made and marked for nobody |
| `Filter` | loops that keep some elements of a list | `Only`, a recursive function in place of `SelectSeq`, which the prover does not know; used by `Connections` and `Messages` |
| `RetryQueueProofs`, `KeyLockProofs`, `WebhookProofs`, `ConnectionsProofs`, `ConversationProofs`, `ChannelsProofs`, `TopicLogProofs`, `MessagesProofs` | | theorems |

Operators called "faulty variant" are the plausible bugs that the properties are tested
with; no action uses them.

Each module abstracts what its neighbours model. `Messages` has logs as sequences (`TopicLog`, shown
to implement `MessageLog`), the notify queue as a set (`Webhook`), a channel that refuses a message
or has its subscribers (`Channels`) and delivery without retries (`RetryQueue`); `RetryQueue` has a set of online devices (`Connections`) and a heap
that is a set (`InFlightPQ`, whose refinement of `PriorityQueue` justifies it).

Abstractions. Payloads, encryption of messages, logging and metrics are left out. Sizes of segments
are counted in messages; the sparse index of a segment and the bytes of a torn write, which `check`
cuts off when the segment is opened, are left out; what was written survives (the process
crashes, not the machine). In `RetryQueue` time is the set `due`, and a clone is sent at any time
after it was queued, while the code sends the copies of a batch together: the model has more
behaviours. In `Conversation` a conversation is its unread count and its last message number; expiry
may be answered either way whenever it is asked, a full cache may drop any conversation at any time,
and of other users only the marks exist. Two goroutines that have both fetched a cache the nightly job
drops afterwards could still see each other's conversation in it; in the model both find nothing
there. In `TLSServer` every client follows the protocol, every record of it holds one
handshake message, and what a call writes is out at its end and lost if it fails; TLS before 1.2,
ALPN, OCSP and SCT, renegotiation and the verification of certificates are left out. Since no client
cheats, the runs say nothing about whether the server would notice one: its check of certificates is
modelled, and no property is about it. In
`FrameStream` the client waits for the CONNACK before it sends: `dataIn` throws away what follows a
CONNECT in the same read. Strings have up to two bytes, and 120 in one packet. In `Messages` the names of users hash to different numbers
(`MessageConstants`): with equal hashes `GetFakeChannelIDWith` depends on the direction, as its TODO
says.

## Runs

| run | shows | bounds |
|---|---|---|
| `frame_stream` | `InOrder`, `NothingLeft` | four versions, every packet with and without its optional fields and one of 120 bytes, reads of 7 and 64 bytes, first buffers of 8 bytes so that they grow and wrap; a frame of another goroutine at any time after `AddConn`; 604,000 states |
| `tls` | `Agreement`, `DataInOrder`, `NoStall`, `FailsOnlyWhen` | five servers (certificates not asked, asked, required; one curve; TLS 1.2 without tickets), nine clients, two connections each, tickets that expire and rotate, two data records, one key update; a read ends before or after any header |
| `connections` | `RegistryExact`, `MasterAlone`, `StatusAgrees`, `IdleCovered` | three objects and descriptors, a master and a slave device of one user, one reactor, one timer goroutine, three ids: a descriptor is reused, a login kicks an older one, a timer meets a login; 3.9 million states |
| `channels` | `CacheAgrees`, `JudgedByStore`, `SubscribersReached` | either a channel of any type but data: two goroutines, two users and two requests, or one user, a group channel, two requests and a message; one failing call of the store, five objects (one more than the pointers there can be). Or a data channel: two connections of one user and one of another, three packets, requests or publications in two goroutines, four objects: a channel is dropped and made again beside a subscription, a user leaves with another connection left; 1.9 million states |
| `messages` | `AnsweredOnce`, `AckTruth`, `DeliveredWhereSaid`, `SyncReturnsUnacked`, `StreamReadBack` | two users and a group, two frame goroutines, two handlers, three messages, runs of two, two acknowledgements, one failure or eviction; 567,000 states |
| `retry_queue` | `NoStranded`, `RemovesOwnSlot`, `AckedNeverRetried`, `RetriesSettle` | two clones of two devices, one with a blank id, two scans, two ack handlers, one retry: every pair of steps of two actors overlaps; 170,000 states |
| `retry_shared` | `SingleCustody` with a shared key; here the wrong slot can be removed and the server can panic | as above, one device; 614,000 states |
| `inflight_pq` | `HeapShape`, refinement of `PriorityQueue` | six messages (removal from one subtree that must sift up needs six), three times, small capacities so that both reallocations happen |
| `keylock` | `MutualExclusion`, `LockReturns` | three processes, two keys, four inner locks |
| `topic_log` | `AckedStored`, `ReadsBack`, `SeqIncreasing`, refinement of `MessageLog` | two goroutines, batches of up to two, segments of two, seven appends: two rolls, two restarts and two evictions around them; 586,000 states |
| `webhook` | `NotifiedInOrder`, `RemovedOnlyWhenDue`, `StatusNotLost`, `QueuesDrain` | three messages in pushes of two, two statuses, limit two, one restart, one failing transaction; 650,000 states |
| `conversation` | `UnsavedMarked`, `CountKept`, `ChangesSaved`, `StopReturns` | one user, one channel, two messages (the second may be older), one call of any kind, one failure of the store, other users' marks, or Stop: each pair of calcLoop, call, flush, nightly job and eviction overlaps; six objects, one more than the pointers there can be; 417,000 states |

Symmetry is used for messages, objects, goroutines and users that are alike; no run with symmetry
checks liveness. Deadlock is on for `RetryQueue`, `InFlightPQ` and `KeyLock` and off elsewhere,
because bounds on requests, messages and restarts run out (in `retry_shared`: because the server may
have crashed).

Constraints. `MCConnections!ClosedOnce` stops at states of which every property
says nothing. `MCChannels` puts `Channels` and `DataChannels` side by side, of which one runs, as their
channels have nothing in common; `scope` chooses, and `InScope` cuts what lies beyond the choice. Three
requests that all change the channel are left to the proof of `CacheCorrect`. `MCConversation!StopAlone` keeps Stop apart from
API calls and failures, to bound the states. `MCMessages!Urgent` takes steps that touch nothing
shared at once, and `MCMixed` chooses which kinds of messages meet.

Several properties hold under a condition that names a race the code does not guard:
`Connections` (`faults`: two goroutines close one object; logins and closes of one user overlap; a
descriptor is handed out again under its closer), `Channels` (`loose`, `touched`: two requests that
change one bit overlap, one overlaps the load of the object, or one ends at an error of the store
between store and object), `DataChannels` (`disturbed`: while a connection subscribes, others create
or drop the channel, or take the user away), `FrameStream` (the CONNACK was overtaken), `TopicLog` (`Apart`: after a restart and an eviction files may repeat
numbers, because an append that failed leaves a gap, and a file with one message is taken to hold the
one after its base, `segment.go:208-213`; and `SeqIncreasing` until a restart), `Conversation` (until Stop
flushes; and but for `silent`, until a mark of the user is taken). The exceptions are per bit, per
conversation or per connection where the code allows it: what one request leaves
open says nothing about the other lists and users. What happens in those cases is described below.
`MasterAlone` and `StatusAgrees` say nothing of two overlapping logins, in which they are known not to
hold; what they do show is that nothing else leaves two masters or a wrong count. `SyncReturnsUnacked`
does not depend on the cut of an acknowledgement beyond the queue (`filestore.go:277-280`), and no read
of `ReadsBack` comes to a base that is also the number of a stored message, as the append that rolls
always fails. `NoStall` and `FailsOnlyWhen` list the cases
that the TLS server does not manage; outside them they hold for every cut of the records.

Fairness. `RetryQueue`: a worker that has a task goes on, the pool runs what it was given, scans
are started for ever, and time passes; clients may never answer, connections come and go as they
like. `KeyLock`: a process inside Lock or Unlock goes on, critical sections end, and acquisition is
strongly fair, since Go's mutex hands itself to a waiter that starved for a millisecond. `Webhook`:
both loops go on, as every request has a timeout and every pause ends; the third party may refuse
for ever. `Conversation`: the goroutines go on, and a case of saveloop's select that is ready time and
again is taken (strong fairness), since Go chooses among ready cases at random. The other modules
check safety only; that nothing waits for ever is stated there as an invariant of quiet states
(`NothingLeft`, `NoStall`).

## What the code does that its texts or readers would not expect

Topic log. After a roll and a restart a topic numbers messages again from its first segment,
although `pkg/proto/recv.go:24` calls MessageSeq unique and increasing: the segments are listed
in `topicDir` and stored in `topicDir/logs` (`topic.go:329`, `segment.go:39`; `ListedSegments`). The
append that rolls writes to the segment that the roll has closed (`topic.go:91-95`) and fails,
although `topic_test.go:37` demands no error (`AppendRoll`).

Webhook. The failure count of the online-status loop survives a success, so a later batch is
dropped before it has failed as often as the log line says (`webbhook.go:365-386`).

Conversations. Stop ends saveloop first; calcLoop then blocks in `setNeedSave`, and Stop waits for
ever for a queue that nobody empties (`conversation.go:84-95`). `StopReturns` shows this to be the
only way Stop hangs. Stop's flush may overlap with saveloop's, and the older may write last. Changes
that the nightly job, a full cache or a failing store drops before they are saved are lost, and a
deletion and a flush of one user overwrite each other (`filestore.go:443-507`).
`syncUserConversation` sets the count and the last number of the cached conversation of a large
channel without a lock, and marks nobody (`api_conversation.go:229-236`): the change is saved with the
next one of the user, or never. What calcLoop or a call adds to the cache of a user is lost if the
nightly job has dropped that cache since it was fetched (`conversation.go:112-114, 429-431`).

Connections. `Close` tests `closed` without a lock (`oknet/conn.go:289`); the descriptor is closed
before it leaves the engine's table, so a new connection may be removed in its place; the timers of
kicked connections capture the loop variable (`processor.go:171`), so that all of them close the
last one. `IdleCovered` shows that those left open still end by their idle timer.

Channels. A load that overlaps a change leaves the old list in the cache. A store error between the
calls of one request leaves the store changed and the cached channel as it was, until the same list is
changed again or the channel is evicted (`api_channel.go:97-110, 348-384, 506-519`). A connection that
subscribes to a data channel while its last user leaves may end in an object that is no longer cached
(`processor.go:604-613`), and one that is closed keeps its user in the object. The ban of a person
channel and temporary subscribers live in the object only and go with its eviction. System users
are not saved while the stored list is empty (`filestore.go:299-325`).

Frames. The connection is found by other goroutines from `AddConn` on, before its CONNACK is written
(`processor.go:212-234`): a RECV may come first, which makes the client give up (`client.go:680-687`) and
the server none the wiser. `Decoder.Binary` reads a length as a signed 16-bit number: of a string of
32768 bytes or more the check of the end passes and the slice panics (`decoder.go:163-173`).

Messages. A packet answered with a system error may have been stored and queued. An acknowledgement
moves the cursor back when the cursor is at the end of the queue (`filestore.go:290`), which costs a
repetition and no message (`SyncReturnsUnacked`). Items of a group's stream that come through the
API are stored under another topic than the one read (`api_message.go:206`, `model.go:301`). Two
Stream objects of one stream may number items alike; eviction of one truncates its meta file when
it is opened again (`stream.go:169`).

TLS. A resumption in TLS 1.2 never completes (`handshake_server.go:810`); a record cut after its
header in the data phase leaves an error that stays (`conn.go:796`); a HelloRetryRequest always
fails (`handshake_server_tls13.go:483`); a client certificate flight that arrives in two reads fails, since
the status is set at the first cut (`handshake_server_tls13.go:902`) and the rest is then read as the
Finished, which is compared with a `hs.clientFinished` that was never computed (985); `handOffset` is
not set back when `hand` is (`conn.go:1220-1224`), so that two messages in one record stall a TLS 1.2
flight and end a TLS 1.3 connection at its first data (`conn.go:1495`);
replies on TCP connections leave unencrypted (`dispatch.go:157`, `oknet/conn.go:798`).

## Proofs

For any number of processes, keys, messages, objects and restarts, from the assumptions named in the
modules. Those are the types of the constants and what the encoding of the model needs: `None` and
`NoJob` are no object and no job, sets of goroutines and objects are finite, the acceptor is neither
a reactor nor a timer, and where objects are allocated there are more of them than pointers
(`Cardinality(Objs) > Cardinality(Threads) + 2` in `Channels`, more than goroutines and topics together
in `Streams`), as memory does not run out.
`KeyInjective` is assumed where stated.

* `RetryQueueProofs`. `CustodyCorrect`: a clone is in the heap, with one scan or with one
  worker, also with shared keys. The invariant adds which scan states have a clone. `FlightCorrect`
  and `AckedCorrect` assume `KeyInjective`, that no two connections share user, device and message:
  nothing is stranded, removals by index take the clone that is meant, and no retry starts after an
  acknowledgement. Their invariant ties each clone in the map, with an ack handler or with a scan to
  its stage and index, and an acknowledged clone to neither map nor retry; `NoStranded` alone is not
  inductive, since it does not say which worker will queue the clone.
* `KeyLockProofs`. `KeyLockCorrect`: the type invariant, exclusion, and unlocking of one's own
  lock. The invariant is that an inner lock's count is the number of processes that
  refer to it and have not uncounted it, which is why `Clean` removes only locks with no holder but
  one that is releasing. It rests on lemmas about the cardinality of that set of processes.
* `WebhookProofs`. `OrderCorrect` and `DueCorrect`: the batch is always the front of the queue
  (a lemma on "the first n of a set"), and the count in memory never exceeds the failures there
  were.
* `ConnectionsProofs`. `RegistryCorrect` and `IdleCorrect`, as long as no object is closed by two
  goroutines at once. The invariant (`ConnInv`) says who may hold an object: one outside the pool is
  open or has exactly one closer, an open one owns the descriptor it names, and a closer takes the id
  out of the registry before it gives the object back. `MasterCorrect` and `StatusCorrect` need a second
  invariant, `LoginInv`, in three layers: what always holds of the lists (`Lists`); what holds while
  logins and closes of one user do not overlap (`Calm`: an id is registered nowhere before `AddConn`, and
  every registered rival of a master that logs in is still among its `olds`); and what holds while no
  descriptor is handed out under its closer either (`Clean`: the table leads to every object until its
  closer takes it out, so a count finds every registered id, and a user whose last notice has
  another count has somebody who will count again).
* `ConversationProofs`. `SavesCorrect` and `CountsCorrect`. The invariant is about pointers: an object
  is one conversation whoever points to it; whatever was added or changed since saveloop took its
  pointers has somebody who waits to mark it, or is `silent`; and a count that calcLoop has read is still the one
  cached, or the one stored.
* `ChannelsProofs`. `CacheCorrect` and `JudgementCorrect`. The invariant (`ChanInv`) has three parts.
  `Typed`: a request holds an object exactly where it should, an object being loaded is its owner's
  alone, and a goroutine has overlapped whatever the others are at. `Knowledge`: of a bit that nobody
  else could change a request knows how far it has come: what it has already changed in the store, and
  what the object it loads, or a message is judged by, says. `Agreement`: the cached object says of every
  bit that is neither open nor being changed what the store says, and of a bit that one request alone
  is changing what that request expects. The property
  alone is not inductive, as it says nothing of a request half done. `Makes` and `Advance` say once what a step
  of one goroutine must establish; the lemma of each action shows that it does.
* `TopicLogProofs`. `FilesCorrect`, `AcksCorrect`, `NumbersCorrect`, `ReadsCorrect` and
  `LogImplemented`. The invariant ties the numbers that an append has taken and not yet written to the
  last number and the last file, and says of the files what each kind of trouble leaves true: without
  an eviction they have no gap, without a restart those above the last number are empty. That every
  file is sorted (`FileSorted`) is part of it. Reads rest on a second invariant about the list of bases
  (`ReadInv`): bases increase, a file has nothing above the next base, and what this topic object
  acknowledged is in a listed file; from it, lemmas on the file that a number falls into and on
  what stands behind it show that the loop over segments returns the least members of what is left.
  `LogImplemented` is the refinement: each step of the segments is one of `MessageLog` or leaves it
  alone. A write is behind all that is listed by the same invariants; of a start and a roll it needs
  that file 0 is listed and that, without a restart, the file a roll begins is empty.
* `MessagesProofs`. `MessageAnsweredOnce`, `MessageAckTruth`, `MessageDeliveredWhereSaid`,
  `MessageSyncReturnsUnacked` and `MessageStreamReadBack`, from names that hash to different numbers and goroutines that serve
  either connections or requests. The invariant follows a run through its steps: who has each
  unanswered message (one goroutine, once), what is held at which step, and what was done by then for
  each message in work, so that the answer made from it is true. Every action is a `Step`: one
  goroutine goes on and the others keep their promises, because logs and queues only grow. What
  filtering returns (`OnlyKeeps`, here and in `ConnectionsProofs`) is proved by induction over a set of
  natural numbers, through its least member, which needs no operator as a parameter. The invariant for
  streams (`ItemInv`) says that a file has an item once and no item of another stream, that the items
  of a run are those yet to be written, and that whatever will be answered with success is filed; the
  objects at work exist, and one is left to allocate, by a count of those that are referred to. That
  reading finds an item once, equal numbers included, is a lemma about sorting as a permutation.

Only model-checked: the liveness properties (fairness is out of the prover's reach); the heap (its
sifting is recursive); what decoding and encoding compute for every input; and so far `TLS`,
`FrameStream` and `DataChannels`.

## Not modelled

`conn_context.go`: the frame list is changed under a read lock, a data race whose outcomes would
have to be modelled at the level of slices and counters; `Messages` lets goroutines take packets in
any runs instead. WebSocket framing (`oknet/websocket.go`). Eviction of topic objects from their
slot and the sparse index of a segment. The data source, monitoring, tokens and the demo server keep
no state of their own or only pass it on. `pkg/socket`, `pkg/pse` and the pollers wrap system calls,
`pkg/grpcpool` is adapted third-party code, the client's reconnecting and its flusher are test
equipment, certificate verification and cipher primitives are library code.

## Plan

1. A proof of the agreement of `TLS`.
2. The logs of `Messages` as instances of `MessageLog`.
3. The connection context with its read lock, WebSocket framing.
4. A proof of `SubscribersReached`; several handshake messages in one record.
