---------------------------- MODULE Conversation ----------------------------
(***************************************************************************)
(* The recent conversations of every user (internal/server/conversation.go *)
(* and queue.go, with the conversation calls of pkg/okstore/filestore.go): *)
(* calcLoop computes them from the messages, API goroutines set, delete    *)
(* and synchronise them, saveloop saves the users that were marked, the    *)
(* nightly job drops old ones from the caches, and Stop saves what is left. *)
(*                                                                         *)
(* Conversations are objects behind pointers: the cache, a flush and a     *)
(* goroutine may share one.  Whether a conversation has expired may be     *)
(* answered either way whenever it is asked.  A read of the store that     *)
(* fails and a write that fails are counted in errors.                     *)
(*                                                                         *)
(* The nightly job also drops the cache itself of a user, once it is       *)
(* empty.  A goroutine that has fetched it before finds nothing in it, as  *)
(* it would have when it was dropped, and what it adds to it is lost.  Two *)
(* goroutines that meet in such a cache are left out.                      *)
(***************************************************************************)
EXTENDS Integers, Sequences, FiniteSets

CONSTANTS Users, Channels,
          Subscribers,     \* the users whose conversations a channel updates
          Senders,         \* who sends messages: users or anyone else
          Objs,            \* *okstore.Conversation
          Callers,         \* API goroutines
          SyncOnce,
          MaxMessages, MaxCalls, MaxErrors,   \* bounds of the model
          None

ASSUME ConversationAssumption ==
    /\ SyncOnce \in Nat \ {0}
    /\ {MaxMessages, MaxCalls, MaxErrors} \subseteq Nat
    /\ Subscribers \in [Channels -> SUBSET Users]
    /\ None \notin Users \cup Channels \cup Objs
    /\ None \notin [unread : Nat, seq : Nat] /\ None \notin [Channels -> Objs \cup {None}]
    /\ \A S \in {Users, Channels, Callers, Objs} : IsFiniteSet(S)
    \* An allocation finds an object that nothing points to: calcLoop and each API
    \* goroutine hold one at most, a cache and a flush one per channel.
    /\ Cardinality(Objs) > 1 + Cardinality(Callers) + Cardinality(Users \X Channels)
                             + 2 * Cardinality(Channels)

VARIABLES
    queue,      \* messages for calcLoop
    pushed,     \* how many there have been
    calc,       \* the local variables of calcLoop
    call,       \* the local variables of each API goroutine
    calls,      \* how many calls there have been
    obj,        \* the conversations behind the pointers
    cache,      \* userConversationMapBuckets
    stored,     \* the database
    marked,     \* needSaveConversationMap
    noSaveCount,
    saving,     \* whether saveloop runs
    flush,      \* the local variables of FlushConversations, by goroutine
    stop,       \* where Stop is
    errors,     \* how often the store has failed
    counted,    \* history: messages that calcLoop has counted as unread
    waived,     \* history: conversations a call was about, or dropped unsaved
    silent,     \* history: conversations changed by a call that marks nobody, since
                \* saveloop last took a mark of the user
    erased      \* history: users with a deletion

inbox == <<queue, pushed>>
calling == <<call, calls>>
data == <<obj, cache, stored>>
saver == <<marked, noSaveCount, saving, flush>>
history == <<counted, waived, silent, erased>>
vars == <<inbox, calc, calling, data, saver, stop, errors, history>>

Convs == [unread : Nat, seq : Nat]

Blank == [unread |-> 0, seq |-> 0]

\* A message, with the subscribers it is unread for: message.RedDot &&
\* message.FromUID != subscriber.
Messages == [chan : Channels, seq : Nat, unreadFor : SUBSET Users]

NoCalc == [at |-> "pop", msg |-> None, todo |-> {}, u |-> None, obj |-> None, n |-> 0,
           lost |-> FALSE]

NoCall == [at |-> "idle", u |-> None, c |-> None, unread |-> 0, seq |-> 0,
           obj |-> None, lost |-> FALSE, read |-> None]

NoFlush == [at |-> "off", todo |-> {}, u |-> None, snap |-> None, old |-> None]

Flushers == {"saveloop", "Stop"}

Optional(S) == S \cup {None}

TypeOK ==
    /\ queue \in Seq(Messages)
    /\ calc.at \in {"pop", "lookup", "load", "read", "apply", "take", "add", "mark"}
    /\ calc.obj \in Optional(Objs)
    /\ \A k \in Callers :
          /\ call[k].at \in {"idle", "find", "fetch", "write", "take", "add",
                             "put", "mark", "remove", "delRead", "delWrite", "sync"}
          /\ call[k].obj \in Optional(Objs)
    /\ \A o \in Objs : obj[o] \in Convs
    /\ \A u \in Users :
          /\ cache[u] \in [Channels -> Optional(Objs)]
          /\ \A c \in Channels : stored[u][c] = None \/ stored[u][c] \in Convs
    /\ marked \subseteq Users
    /\ noSaveCount \in 0 .. SyncOnce - 1
    /\ \A f \in Flushers : flush[f].at \in {"off", "next", "write", "unmark", "expire"}
    /\ stop \in {"no", "wait", "flush", "done"}

Init ==
    /\ queue = <<>> /\ pushed = 0
    /\ calc = NoCalc
    /\ call = [k \in Callers |-> NoCall] /\ calls = 0
    /\ obj = [o \in Objs |-> Blank]
    /\ cache = [u \in Users |-> [c \in Channels |-> None]]
    /\ stored = [u \in Users |-> [c \in Channels |-> None]]
    /\ marked = {} /\ noSaveCount = 0
    /\ saving = TRUE
    /\ flush = [f \in Flushers |-> NoFlush]
    /\ stop = "no"
    /\ errors = 0
    /\ counted = [u \in Users |-> [c \in Channels |-> 0]]
    /\ waived = {} /\ silent = {} /\ erased = {}

-----------------------------------------------------------------------------
(* Objects, the cache and the store.                                       *)

Pointed(o) ==
    \/ o = calc.obj
    \/ \E k \in Callers : o = call[k].obj
    \/ \E u \in Users, c \in Channels : o = cache[u][c]
    \/ \E f \in Flushers : flush[f].snap # None /\ \E c \in Channels : o = flush[f].snap[c]

\* An object that nothing points to, for a new allocation.
Fresh == CHOOSE o \in Objs : ~Pointed(o)

\* The objects become v; the collector takes those that nothing points to now.
Keep(v) == obj' = [o \in Objs |-> IF Pointed(o)' THEN v[o] ELSE Blank]

\* A cached conversation that the store does not have as it is.
Unsaved(u, c) == cache[u][c] # None /\ obj[cache[u][c]] # stored[u][c]

\* conversationCache.Add
CacheAdd(u, c, o) == cache' = [cache EXCEPT ![u][c] = o]

\* conversationCache.Remove, of some channels.
CacheRemove(u, chans) ==
    /\ cache' = [cache EXCEPT ![u] = [c \in Channels |-> IF c \in chans THEN None ELSE @[c]]]
    /\ waived' = waived \cup {<<u, c>> : c \in {d \in chans : Unsaved(u, d)}}

StoreFails == errors < MaxErrors /\ errors' = errors + 1

StoreWorks == UNCHANGED errors

-----------------------------------------------------------------------------
(* PushMessage and calcLoop.                                               *)

PushMessage ==
    /\ pushed < MaxMessages
    /\ \E c \in Channels, q \in {1, pushed + 1}, redDot \in BOOLEAN :
          \E from \in Senders :
             queue' = Append(queue, [chan |-> c, seq |-> q,
                                     unreadFor |-> IF redDot THEN Subscribers[c] \ {from}
                                                   ELSE {}])
    /\ pushed' = pushed + 1
    /\ UNCHANGED <<calc, calling, data, saver, stop, errors, history>>

\* queue.Pop, and the loop over the subscribers.
CalcPop ==
    /\ calc.at = "pop" /\ queue # <<>>
    /\ calc' = [NoCalc EXCEPT !.at = "lookup", !.msg = Head(queue),
                              !.todo = Subscribers[Head(queue).chan]]
    /\ queue' = Tail(queue)
    /\ UNCHANGED <<pushed, calling, data, saver, stop, errors, history>>

\* The state of calcLoop once it is done with a subscriber.
NextSubscriber ==
    IF calc.todo = {} THEN NoCalc
    ELSE [NoCalc EXCEPT !.at = "lookup", !.msg = calc.msg, !.todo = calc.todo]

Counts == calc.u \in calc.msg.unreadFor

CountIt ==
    counted' = [counted EXCEPT ![calc.u][calc.msg.chan] = IF Counts THEN @ + 1 ELSE @]

CalcLookup ==
    /\ calc.at = "lookup"
    /\ \E u \in calc.todo : LET o == cache[u][calc.msg.chan] IN
          calc' = [calc EXCEPT !.at = IF o = None THEN "load" ELSE "read",
                               !.todo = @ \ {u}, !.u = u, !.obj = o]
    /\ UNCHANGED <<inbox, calling, data, saver, stop, errors, history>>

\* The conversation is read from the store, or made if there is none or the
\* store fails.
CalcLoad ==
    LET c == calc.msg.chan
        kept == stored[calc.u][c]
        o == Fresh
    IN
    /\ calc.at = "load"
    /\ \/ /\ StoreWorks /\ kept # None
          /\ obj' = [obj EXCEPT ![o] = kept]
          /\ calc' = [calc EXCEPT !.at = "read", !.obj = o]
          /\ UNCHANGED <<counted, waived>>
       \/ /\ \/ StoreWorks /\ kept = None /\ UNCHANGED waived
             \/ StoreFails /\ waived' = waived \cup {<<calc.u, c>>}
          /\ obj' = [obj EXCEPT ![o] = [unread |-> IF Counts THEN 1 ELSE 0,
                                        seq |-> calc.msg.seq]]
          /\ calc' = [calc EXCEPT !.at = "take", !.obj = o]
          /\ CountIt
    /\ UNCHANGED <<inbox, calling, cache, stored, saver, stop, silent, erased>>

\* conversation.UnreadCount++ reads the count and writes it in two steps, with
\* no lock.
CalcRead ==
    /\ calc.at = "read"
    /\ calc' = [calc EXCEPT !.at = "apply", !.n = obj[calc.obj].unread]
    /\ UNCHANGED <<inbox, calling, data, saver, stop, errors, history>>

ApplyTo(next) ==
    LET o == calc.obj
        newer == obj[o].seq < calc.msg.seq
    IN
    /\ calc.at = "apply"
    /\ CountIt
    /\ calc' = IF Counts \/ newer THEN next ELSE NextSubscriber
    /\ UNCHANGED <<inbox, calling, cache, stored, saver, stop, errors, waived, silent, erased>>
    /\ Keep([obj EXCEPT ![o] = [unread |-> IF Counts THEN calc.n + 1 ELSE @.unread,
                                seq |-> IF newer THEN calc.msg.seq ELSE @.seq]])

\* Faulty variant: a conversation that was cached is not added again.
CalcApplyNoAdd == ApplyTo([calc EXCEPT !.at = "mark", !.obj = None, !.n = 0])

CalcApply == ApplyTo([calc EXCEPT !.at = "take", !.n = 0])

\* AddOrUpdateConversation, up to setNeedSave: it fetches the cache of the user
CalcTake ==
    /\ calc.at = "take"
    /\ calc' = [calc EXCEPT !.at = "add"]
    /\ UNCHANGED <<inbox, calling, data, saver, stop, errors, history>>

\* ... and adds to it, for nothing if the nightly job has dropped that one since.
CalcAdd ==
    /\ calc.at = "add"
    /\ IF calc.lost THEN UNCHANGED cache ELSE CacheAdd(calc.u, calc.msg.chan, calc.obj)
    /\ calc' = [calc EXCEPT !.at = "mark", !.obj = None, !.lost = FALSE]
    /\ UNCHANGED <<inbox, calling, stored, saver, stop, errors, history>>
    /\ Keep(obj)

Calc == CalcPop \/ CalcLookup \/ CalcLoad \/ CalcRead \/ CalcApply \/ CalcTake \/ CalcAdd

-----------------------------------------------------------------------------
(* API goroutines: setting and clearing the unread count, deletion, and    *)
(* synchronisation.                                                        *)

SetCall(k, next) == call' = [call EXCEPT ![k] = next]

\* clearConversationUnread and setConversationUnread.  GetConversation says
\* whether there is a conversation, cached or stored; with none, as it seems,
\* and a message number, one is made and added.  Otherwise
\* SetConversationUnread is called.
CallSet(k) ==
    /\ call[k].at = "idle" /\ calls < MaxCalls
    /\ \E c \in Channels, n \in 0 .. 1, q \in {0, MaxMessages} :
       \E u \in Subscribers[c] :
          LET l == [NoCall EXCEPT !.u = u, !.c = c, !.unread = n, !.seq = q]
              o == Fresh
              Make == /\ obj' = [obj EXCEPT ![o] = [unread |-> 0, seq |-> q]]
                      /\ SetCall(k, [l EXCEPT !.at = "take", !.obj = o])
              Find == SetCall(k, [l EXCEPT !.at = "find"]) /\ UNCHANGED obj
          IN
          /\ \/ /\ cache[u][c] # None \/ stored[u][c] # None
                /\ StoreWorks /\ Find
             \/ /\ cache[u][c] = None
                /\ StoreFails \/ (StoreWorks /\ stored[u][c] = None)
                /\ IF q > 0 /\ n = 0 THEN Make ELSE Find
          /\ waived' = waived \cup {<<u, c>>}
    /\ calls' = calls + 1
    /\ UNCHANGED <<inbox, calc, cache, stored, saver, stop, counted, silent, erased>>

\* SetConversationUnread looks in the cache, and keeps a pointer to it.
CallFind(k) ==
    LET o == cache[call[k].u][call[k].c] IN
    /\ call[k].at = "find"
    /\ SetCall(k, [call[k] EXCEPT !.at = IF o = None THEN "fetch" ELSE "write", !.obj = o])
    /\ UNCHANGED <<inbox, calc, calls, data, saver, stop, errors, history>>

\* The conversation that the request turns v into.
Changed(v, l) == [unread |-> l.unread, seq |-> IF l.seq > 0 THEN l.seq ELSE v.seq]

\* ... in place when it is cached,
CallWrite(k) ==
    LET l == call[k] IN
    /\ l.at = "write"
    /\ SetCall(k, [l EXCEPT !.at = "mark", !.obj = None])
    /\ UNCHANGED <<inbox, calc, calls, cache, stored, saver, stop, errors, history>>
    /\ Keep([obj EXCEPT ![l.obj] = Changed(@, l)])

\* ... or in a copy from the store, if it has one.
CallFetch(k) ==
    LET l == call[k]  kept == stored[l.u][l.c]  o == Fresh IN
    /\ l.at = "fetch"
    /\ \/ /\ StoreFails \/ (StoreWorks /\ kept = None)
          /\ SetCall(k, NoCall)
          /\ UNCHANGED obj
       \/ /\ StoreWorks /\ kept # None
          /\ obj' = [obj EXCEPT ![o] = Changed(kept, l)]
          /\ SetCall(k, [l EXCEPT !.at = "put", !.obj = o])
    /\ UNCHANGED <<inbox, calc, calls, cache, stored, saver, stop, history>>

\* AddOrUpdateConversation fetches the cache of the user.
CallTake(k) ==
    /\ call[k].at = "take"
    /\ SetCall(k, [call[k] EXCEPT !.at = "add"])
    /\ UNCHANGED <<inbox, calc, calls, data, saver, stop, errors, history>>

\* The object goes into the cache fetched before, by SetConversationUnread ("put")
\* when it looked for the conversation; it is lost if that one has been dropped.
CallAdd(k) ==
    LET l == call[k] IN
    /\ l.at \in {"add", "put"}
    /\ IF l.lost THEN UNCHANGED cache ELSE CacheAdd(l.u, l.c, l.obj)
    /\ SetCall(k, [l EXCEPT !.at = "mark", !.obj = None, !.lost = FALSE])
    /\ UNCHANGED <<inbox, calc, calls, stored, saver, stop, errors, history>>
    /\ Keep(obj)

\* DeleteConversation: the cache first, then the store, which reads all the
\* conversations of the user in one transaction and writes them in another.
CallDelete(k) ==
    /\ call[k].at = "idle" /\ calls < MaxCalls
    /\ \E c \in Channels : \E u \in Subscribers[c] :
          /\ SetCall(k, [NoCall EXCEPT !.at = "remove", !.u = u, !.c = c])
          /\ waived' = waived \cup {<<u, c>>}
          /\ erased' = erased \cup {u}
    /\ calls' = calls + 1
    /\ UNCHANGED <<inbox, calc, data, saver, stop, errors, counted, silent>>

CallRemove(k) ==
    /\ call[k].at = "remove"
    /\ cache' = [cache EXCEPT ![call[k].u][call[k].c] = None]
    /\ SetCall(k, [call[k] EXCEPT !.at = "delRead"])
    /\ UNCHANGED <<inbox, calc, calls, stored, saver, stop, errors, history>>
    /\ Keep(obj)

CallDelRead(k) ==
    /\ call[k].at = "delRead"
    /\ \/ StoreFails /\ SetCall(k, NoCall)
       \/ /\ StoreWorks
          /\ SetCall(k, [call[k] EXCEPT !.at = "delWrite", !.read = stored[call[k].u]])
    /\ UNCHANGED <<inbox, calc, calls, data, saver, stop, history>>

CallDelWrite(k) ==
    LET l == call[k] IN
    /\ l.at = "delWrite"
    /\ \/ StoreFails /\ UNCHANGED stored
       \/ StoreWorks /\ stored' = [stored EXCEPT ![l.u] = [l.read EXCEPT ![l.c] = None]]
    /\ SetCall(k, NoCall)
    /\ UNCHANGED <<inbox, calc, calls, obj, cache, saver, stop, history>>

\* syncUserConversation for a large channel: GetConversations reads what is
\* stored, and answers with the cached object where there is one.  A call that
\* finds none, or that the store fails, changes nothing and is left out.
CallSync(k) ==
    /\ call[k].at = "idle" /\ calls < MaxCalls
    /\ \E c \in Channels : \E u \in Subscribers[c] :
          /\ cache[u][c] # None
          /\ SetCall(k, [NoCall EXCEPT !.at = "sync", !.u = u, !.c = c, !.obj = cache[u][c]])
          /\ waived' = waived \cup {<<u, c>>}
    /\ calls' = calls + 1
    /\ UNCHANGED <<inbox, calc, data, saver, stop, errors, counted, silent, erased>>

\* The object gets the number q of the last message of the channel, and no
\* unread ones: with no lock, and nobody is marked.  The channel may be empty.
CallSyncWrite(k) ==
    LET l == call[k] IN
    /\ l.at = "sync"
    /\ SetCall(k, NoCall)
    /\ UNCHANGED <<inbox, calc, calls, cache, stored, saver, stop, counted, waived, erased>>
    /\ \/ /\ StoreWorks
          /\ silent' = silent \cup {<<l.u, l.c>>}
          /\ \E q \in 1 .. MaxMessages :
                Keep([obj EXCEPT ![l.obj] = [unread |-> 0, seq |-> q]])
       \/ /\ StoreFails \/ StoreWorks
          /\ UNCHANGED silent
          /\ Keep(obj)

Call(k) ==
    \/ CallFind(k) \/ CallWrite(k) \/ CallFetch(k) \/ CallTake(k) \/ CallAdd(k)
    \/ CallRemove(k) \/ CallDelRead(k) \/ CallDelWrite(k) \/ CallSyncWrite(k)

-----------------------------------------------------------------------------
(* FlushConversations, run by saveloop and by Stop.                        *)

\* The users to save are the marked ones.
Flushing(f) ==
    flush' = [flush EXCEPT ![f] = IF marked' = {} THEN NoFlush
                                  ELSE [NoFlush EXCEPT !.at = "next", !.todo = marked']]

\* The state of a flush once it is done with a user.
NextUser(f) ==
    IF flush[f].todo = {} THEN NoFlush
    ELSE [NoFlush EXCEPT !.at = "next", !.todo = flush[f].todo]

SetFlush(f, next) == flush' = [flush EXCEPT ![f] = next]

\* flushUserConversations takes the cached pointers; AddOrUpdateConversations
\* reads what the store has, in a transaction of its own.
FlushRead(f) ==
    /\ flush[f].at = "next"
    /\ \E u \in flush[f].todo :
          \/ /\ StoreWorks
             /\ SetFlush(f, [at |-> "write", todo |-> flush[f].todo \ {u}, u |-> u,
                             snap |-> cache[u], old |-> stored[u]])
          \/ /\ StoreFails
             /\ SetFlush(f, IF flush[f].todo = {u} THEN NoFlush
                            ELSE [flush[f] EXCEPT !.todo = @ \ {u}])
    /\ UNCHANGED <<inbox, calc, calling, data, marked, noSaveCount, saving, stop,
                   history>>

\* getNewConversations: what is cached replaces what was stored, the rest stays.
Merged(f) ==
    [c \in Channels |-> IF flush[f].snap[c] = None THEN flush[f].old[c]
                        ELSE obj[flush[f].snap[c]]]

WriteElse(f, failed) ==
    /\ flush[f].at = "write"
    /\ \/ /\ StoreWorks
          /\ stored' = [stored EXCEPT ![flush[f].u] = Merged(f)]
          /\ SetFlush(f, [flush[f] EXCEPT !.at = "unmark", !.old = None])
       \/ /\ StoreFails
          /\ SetFlush(f, failed)
          /\ UNCHANGED stored
    /\ UNCHANGED <<inbox, calc, calling, cache, marked, noSaveCount, saving, stop,
                   history>>
    /\ Keep(obj)

\* Faulty variant: the user is unmarked although the store failed.
FlushWriteUnmark(f) == WriteElse(f, [flush[f] EXCEPT !.at = "unmark", !.old = None])

FlushWrite(f) == WriteElse(f, NextUser(f))

FlushUnmark(f) ==
    /\ flush[f].at = "unmark"
    /\ marked' = marked \ {flush[f].u}
    /\ SetFlush(f, [flush[f] EXCEPT !.at = "expire"])
    /\ UNCHANGED <<inbox, calc, calling, data, noSaveCount, saving, stop, errors,
                   history>>

\* The cached conversations that have expired leave the cache.  A call may
\* have changed one since it was written.
FlushExpire(f) ==
    LET u == flush[f].u IN
    /\ flush[f].at = "expire"
    /\ \E old \in SUBSET {c \in Channels : flush[f].snap[c] # None} : CacheRemove(u, old)
    /\ SetFlush(f, NextUser(f))
    /\ UNCHANGED <<inbox, calc, calling, stored, marked, noSaveCount, saving, stop,
                   errors, counted, silent, erased>>
    /\ Keep(obj)

Flush(f) == FlushRead(f) \/ FlushWrite(f) \/ FlushUnmark(f) \/ FlushExpire(f)

-----------------------------------------------------------------------------
(* saveloop, the nightly job and Stop.                                     *)

\* saveloop waits in its select.
Selecting == saving /\ flush["saveloop"].at = "off"

\* The loop flushes once the count of newly marked users reaches SyncOnce.
Count(n) ==
    IF noSaveCount + n >= SyncOnce
    THEN noSaveCount' = 0 /\ Flushing("saveloop")
    ELSE noSaveCount' = noSaveCount + n /\ UNCHANGED flush

\* needSaveChan has no buffer: setNeedSave(u) waits for saveloop to receive.
Receive(u) ==
    /\ Selecting
    /\ marked' = marked \cup {u}
    /\ Count(IF u \in marked THEN 0 ELSE 1)
    /\ silent' = {p \in silent : p[1] # u}

CalcMark ==
    /\ calc.at = "mark"
    /\ Receive(calc.u)
    /\ calc' = NextSubscriber
    /\ UNCHANGED <<inbox, calling, data, saving, stop, errors, counted, waived, erased>>

CallMark(k) ==
    /\ call[k].at = "mark"
    /\ Receive(call[k].u)
    /\ SetCall(k, NoCall)
    /\ UNCHANGED <<inbox, calc, calls, data, saving, stop, errors, counted, waived, erased>>

\* A user outside the model is marked.  The flush of such users is left out.
OtherMark ==
    /\ Selecting
    /\ UNCHANGED marked
    /\ Count(1)
    /\ UNCHANGED <<inbox, calc, calling, data, saving, stop, errors, history>>

TickAt(least) ==
    /\ Selecting /\ noSaveCount >= least
    /\ noSaveCount' = 0
    /\ UNCHANGED marked
    /\ Flushing("saveloop")
    /\ UNCHANGED <<inbox, calc, calling, data, saving, stop, errors, history>>

\* Faulty variant: noSaveCount > 1.
TickLate == TickAt(2)

\* The ticker of SyncInterval: noSaveCount > 0.
Tick == TickAt(1)

SaveloopReturn ==
    /\ Selecting /\ stop # "no"
    /\ saving' = FALSE
    /\ UNCHANGED <<inbox, calc, calling, data, marked, noSaveCount, flush, stop, errors,
                   history>>

\* An entry leaves the cache, saved or not: clearExpireConversations removes the
\* expired ones one by one, and a full cache drops its oldest entry for one of a
\* conversation outside the model.
Evict(u, c) ==
    /\ cache[u][c] # None
    /\ CacheRemove(u, {c})
    /\ UNCHANGED <<inbox, calc, calling, stored, saver, stop, errors, counted, silent, erased>>
    /\ Keep(obj)

\* clearExpireConversations drops the cache of a user that it has found empty,
\* with what was added to it since.  Whoever has fetched it adds to it in vain.
ClearExpireConversations(u) ==
    LET InCalc == calc.u = u /\ calc.at = "add"
        InCall(k) == call[k].u = u /\ call[k].at \in {"fetch", "put", "add"}
    IN
    /\ cache' = [cache EXCEPT ![u] = [c \in Channels |-> None]]
    /\ waived' = waived \cup {<<u, c>> : c \in {d \in Channels : Unsaved(u, d)}}
                         \cup (IF InCalc THEN {<<u, calc.msg.chan>>} ELSE {})
    /\ calc' = IF InCalc THEN [calc EXCEPT !.lost = TRUE] ELSE calc
    /\ call' = [k \in Callers |-> IF InCall(k) THEN [call[k] EXCEPT !.lost = TRUE]
                                   ELSE call[k]]
    /\ UNCHANGED <<inbox, calls, stored, saver, stop, errors, counted, silent, erased>>
    /\ Keep(obj)

StopBegin ==
    /\ stop = "no"
    /\ stop' = "wait"
    /\ UNCHANGED <<inbox, calc, calling, data, saver, errors, history>>

StopWaitFor(done) ==
    /\ stop = "wait" /\ done
    /\ stop' = "flush"
    /\ UNCHANGED marked
    /\ Flushing("Stop")
    /\ UNCHANGED <<inbox, calc, calling, data, noSaveCount, saving, errors, history>>

\* Faulty variant: Stop waits for saveloop to have saved as well.
StopWaitSaved == StopWaitFor(queue = <<>> /\ noSaveCount = 0)

\* queue.Wait ends when the queue is empty.
StopWait == StopWaitFor(queue = <<>>)

StopReturn ==
    /\ stop = "flush" /\ flush["Stop"].at = "off"
    /\ stop' = "done"
    /\ UNCHANGED <<inbox, calc, calling, data, saver, errors, history>>

Stop ==
    StopBegin \/ SaveloopReturn \/ StopWait \/ Flush("Stop") \/ StopReturn

Next ==
    \/ PushMessage \/ Calc \/ CalcMark
    \/ \E k \in Callers :
          CallSet(k) \/ CallDelete(k) \/ CallSync(k) \/ Call(k) \/ CallMark(k)
    \/ Flush("saveloop") \/ Tick \/ OtherMark
    \/ \E u \in Users : ClearExpireConversations(u) \/ \E c \in Channels : Evict(u, c)
    \/ Stop

\* The goroutines go on; saveloop's select takes any case that is ready, at
\* random, so a case that is ready time and again is taken.  Nothing makes
\* Stop begin, or the process end when it has returned.
Fairness ==
    /\ WF_vars(Calc) /\ SF_vars(CalcMark)
    /\ \A k \in Callers : WF_vars(Call(k)) /\ SF_vars(CallMark(k))
    /\ WF_vars(Flush("saveloop")) /\ SF_vars(Tick)
    /\ SF_vars(SaveloopReturn)
    /\ WF_vars(StopWait) /\ WF_vars(Flush("Stop")) /\ WF_vars(StopReturn)

Spec == Init /\ [][Next]_vars /\ Fairness

-----------------------------------------------------------------------------
(* Properties.                                                             *)

\* Only saveloop saves.  The flush of Stop may overlap with it, and the older of
\* two flushes may write last.
Saving == stop \in {"no", "wait"}

\* A goroutine has changed a conversation of u and will mark u.
MarkComing(u) ==
    \/ calc.u = u /\ calc.at \in {"take", "add", "mark"}
    \/ \E k \in Callers : call[k].u = u /\ call[k].at = "mark"

\* Until Stop flushes, a cached conversation that differs from the stored
\* one belongs to a user who is marked or about to be, so that a flush will
\* save it: no order of changes, flushes, failures and expiry leaves a change
\* in the cache that nobody will save (conversation.go:183-209, 280-314,
\* 421-434), but the change that syncUserConversation makes and marks nobody
\* for (api_conversation.go:229-236), until a mark of the user is taken.  A user
\* with a deletion is left out, whose two transactions can undo a flush
\* (filestore.go:485-507).
UnsavedMarked ==
    Saving => \A u \in Users \ erased, c \in Channels :
        Unsaved(u, c) => u \in marked \/ MarkComing(u) \/ <<u, c>> \in silent

\* What GetConversation answers.
Unread(u, c) ==
    CASE cache[u][c] # None -> obj[cache[u][c]].unread
      [] cache[u][c] = None /\ stored[u][c] # None -> stored[u][c].unread
      [] OTHER -> 0

\* Until Stop flushes, the unread count is the number of messages counted,
\* whatever flushes and expiry do between two messages: it is lost only when a
\* call sets, deletes or synchronises it, or the nightly job, a full cache or a
\* failing store drops what was not saved (conversation.go:306-312, 374-434).
CountKept ==
    Saving => \A u \in Users \ erased, c \in Channels :
        \/ <<u, c>> \in waived
        \/ calc.at \in {"take", "add"} /\ calc.u = u /\ calc.msg.chan = c
        \/ Unread(u, c) = counted[u][c]

\* A change is saved in the end, unless the store has failed, after which it may
\* wait for the next mark, or the server is stopped (conversation.go:137-168,
\* 269-314).  One that syncUserConversation has made is not, until a mark of the
\* user is taken.
ChangesSaved ==
    \A u \in Users, c \in Channels :
        (Unsaved(u, c) /\ u \notin erased /\ <<u, c>> \notin silent)
            ~> (~Unsaved(u, c) \/ u \in erased \/ errors > 0 \/ stop # "no")

\* calcLoop waits to mark a user, and saveloop, which alone would take it, has
\* ended.
CalcStuck == calc.at = "mark" /\ ~saving

\* Stop returns, unless it ended saveloop before calcLoop had marked the user
\* it was at: the queue is then never emptied.  That is the only way in which
\* "Wait for the queue to complete" waits for ever (conversation.go:85-94).
StopReturns == stop = "wait" ~> (stop = "done" \/ CalcStuck)
====
