------------------------------ MODULE Channels ------------------------------
(***************************************************************************)
(* Channels (internal/server/channel.go, channel_manager.go), the requests *)
(* that change them (api_channel.go, api_user.go), the lists of the store  *)
(* (pkg/okstore/filestore.go), and what a message from a client needs of   *)
(* its channel: permission and recipients (processor.go).                  *)
(*                                                                         *)
(* A channel lives twice: as lists in the store, each read and written in  *)
(* a transaction of its own, and as an object in a cache, which requests   *)
(* load, keep a pointer to and change without any lock around the two.     *)
(* Any call of the store may fail, and ends its request where it is.       *)
(*                                                                         *)
(* One channel is followed, of any type but data (DataChannels), and for a *)
(* topic its parent.  The other channels show only as traffic that evicts  *)
(* this one from the LRU cache.  Of a channel's information the model      *)
(* keeps Ban.                                                              *)
(*                                                                         *)
(* What a cached channel says is taken apart into bits: whether a user is  *)
(* on a list, and whether the channel is banned.  Two history variables    *)
(* say of which bits nothing can be promised.                              *)
(***************************************************************************)
EXTENDS Naturals, FiniteSets

CONSTANTS
  Types,            \* channel types explored
  Uids,
  Members,          \* the two users of a fake person channel; the visitor of a service channel
  Threads,          \* goroutines: HTTP handlers and frame workers
  Objs,             \* Channel objects
  CreateIfNoExist,  \* options.Channel.CreateIfNoExist
  MaxRequests,      \* bound: requests begun
  MaxBatch,         \* bound: users in one request
  MaxFailures,      \* bound: store calls that fail
  None

ASSUME ChannelConstants ==
  /\ Types \subseteq {"person", "group", "topic", "info", "service"}
  /\ Members \subseteq Uids
  /\ None \notin Objs
  /\ CreateIfNoExist \in BOOLEAN
  /\ MaxRequests \in Nat /\ MaxBatch \in Nat /\ MaxFailures \in Nat
  \* An allocation finds an object that nothing points to: two caches and every
  \* goroutine hold one at most.
  /\ IsFiniteSet(Threads) /\ IsFiniteSet(Objs)
  /\ Cardinality(Objs) > Cardinality(Threads) + 2

VARIABLES
  kind,        \* type of the channel followed
  store,       \* im.db: information and lists of the channel ("it") and its parent
  obj,         \* Channel objects, None where there is none
  cache,       \* channelCache
  system,      \* SystemUIDManager: in memory, and saved
  req,         \* the request of each goroutine
  begun,       \* requests begun so far
  failed,      \* store calls that failed so far
  touched,     \* history: bits that others could change since a goroutine's request began
  loose        \* history: bits of the cached object that nothing ties to the store

vars == <<kind, store, obj, cache, system, req, begun, failed, touched, loose>>

Ids == {"it", "parent"}
Lists == {"subs", "deny", "allow"}

\* Requests: of the channel API, one per list, ...
ListOf(op) == CASE op \in {"denyAdd", "denySet", "denyRemove"} -> "deny"
                [] op \in {"allowAdd", "allowSet", "allowRemove"} -> "allow"
                [] OTHER -> "subs"
Adds == {"denyAdd", "allowAdd"}
Sets == {"denySet", "allowSet"}
Removes == {"denyRemove", "allowRemove"}
Temps == {"tmpAdd", "tmpReset", "tmpRemove"}
ListOps == Adds \cup Sets \cup Removes
Infos == {"create", "ban", "unban", "delete"}
Subs == {"subAdd", "subReset", "subRemove"}

\* ... and the ones a channel of each type takes: person channels are not
\* created and have no subscribers to add.
Operations ==
  IF kind = "person" THEN ListOps \cup {"ban", "unban", "delete", "subRemove", "send"}
  ELSE ListOps \cup Infos \cup Subs \cup Temps \cup {"send"}

\* The bits of a channel, and whether c, stored or cached, has one.
Ban == <<"info", None>>
Bits == (Lists \X Uids) \cup {Ban}
Has(c, bit) == IF bit = Ban THEN c.info = "ban" ELSE bit[2] \in c[bit[1]]

\* The bits that a request may change in the store or in an object.
Touches(r) ==
  CASE r.op \in Adds \cup Removes -> {ListOf(r.op)} \X r.uids
    [] r.op \in Sets -> {ListOf(r.op)} \X Uids
    [] r.op \in {"ban", "unban", "delete"} -> {Ban}
    [] r.op = "create" -> {Ban} \cup ({"subs"} \X Uids)
    [] r.op \in {"subAdd", "subRemove"} -> {"subs"} \X r.uids
    [] r.op = "subReset" -> {"subs"} \X Uids
    [] OTHER -> {}

\* The users who belong to the channel by its name.  They are added when the channel
\* is loaded; removing subscribers takes them from the object until the next load.
Named == IF kind \in {"person", "service"} THEN Members ELSE {}

Idle == [op |-> "none", pc |-> "idle", uids |-> {}, obj |-> None, exist |-> {}]

Empty(ch) == [ch |-> ch, info |-> "none", subs |-> {}, tmp |-> {}, deny |-> {}, allow |-> {}]

\* The channel and its parent exist, without subscribers; no system account.
Init ==
  /\ kind \in Types
  /\ store = [ch \in Ids |-> [info |-> IF kind = "person" THEN "none" ELSE "open",
                              subs |-> {}, deny |-> {}, allow |-> {}]]
  /\ obj = [o \in Objs |-> None]
  /\ cache = [ch \in Ids |-> None]
  /\ system = [cached |-> {}, stored |-> {}]
  /\ req = [t \in Threads |-> Idle]
  /\ begun = 0 /\ failed = 0
  /\ touched = [t \in Threads |-> {}] /\ loose = {}

\* An object nobody points to: what NewChannel allocates.  Others are collected.
Held == {cache[ch] : ch \in Ids} \cup {req[t].obj : t \in Threads}
Fresh == CHOOSE o \in Objs \ Held : TRUE
Collect(objs, c, rs) ==
  [o \in Objs |-> IF o \in {c[ch] : ch \in Ids} \cup {rs[t].obj : t \in Threads} THEN objs[o] ELSE None]

\* Since its request began goroutine s has overlapped every request that can
\* change one of these bits, or, for a message, found it loose in the cache.
Touched(s, found) ==
  IF req'[s].pc = "idle" THEN {}
  ELSE touched[s] \cup found \cup UNION {Touches(req'[u]) : u \in Threads \ {s}}

\* What the cached object says loosely after a step of goroutine t: what could change
\* while t loaded the object it puts there; what an ending request of t, and one that it
\* overlapped, both change; what t leaves half changed.  What t changes in the
\* cached object without such an overlap is mended.
Loose(t, mended, left) ==
  IF cache'["it"] = None THEN {}
  ELSE IF cache'["it"] # cache["it"] THEN touched[t]
  ELSE (loose \ mended) \cup left
         \cup (IF req'[t].pc = "idle" THEN Touches(req[t]) \cap touched[t] ELSE {})

\* A step of goroutine t: its request becomes r, the objects os, the cache c.
StepWith(t, r, os, c, mended, left, found) ==
  /\ req' = [req EXCEPT ![t] = r]
  /\ cache' = c
  /\ obj' = Collect(os, c, req')
  /\ touched' = [s \in Threads |-> Touched(s, IF s = t THEN found ELSE {})]
  /\ loose' = Loose(t, mended, left)
  /\ UNCHANGED kind

Step(t, r, os, c) == StepWith(t, r, os, c, {}, {}, {})

Goto(t, pc) == [req[t] EXCEPT !.pc = pc]
End(t) == Step(t, Idle, obj, cache)

\* The request ends when it has changed these bits of its object.
Done(t, os, bits) == StepWith(t, Idle, os, cache, IF req[t].obj = cache["it"] THEN bits ELSE {}, {}, {})

KeepStore == UNCHANGED <<store, system, begun, failed>>
Stored(f, v) ==
  /\ store' = [store EXCEPT !["it"][f] = v]
  /\ UNCHANGED <<system, begun, failed>>

-----------------------------------------------------------------------------
\* A request comes in.  Requests that begin with GetChannel and ones that begin in the store.
\* A list request for person channels goes from user to user: it is one request for each.
Begin(t) ==
  /\ req[t].pc = "idle" /\ begun < MaxRequests
  /\ \E op \in Operations, us \in SUBSET Uids :
       /\ Cardinality(us) <= MaxBatch
       /\ op \in {"ban", "unban", "delete"} => us = {}
       /\ op = "send" \/ (kind = "person" /\ op \in ListOps) => Cardinality(us) = 1
       /\ op \in Adds \cup Removes \cup Temps \cup Subs => us # {}
       /\ Step(t, [Idle EXCEPT !.op = op, !.uids = us,
                               !.pc = IF op \in Temps \cup Subs \cup {"send"} THEN "get" ELSE "store"],
               obj, cache)
  /\ begun' = begun + 1
  /\ UNCHANGED <<store, system, failed>>

\* A call of the store fails, and the request ends.  It leaves what it has
\* changed in the store and not in the object.
Left(r) ==
  CASE r.op \in ListOps /\ r.pc # "store" -> Touches(r)
    [] r.op = "create" /\ r.pc = "clear" -> {Ban}
    [] r.op = "create" /\ r.pc = "fill" -> Touches(r)
    [] OTHER -> {}

StoreFails(t) ==
  /\ \/ req[t].pc \in {"store", "info", "subs", "deny", "allow", "clear", "fill", "refill"}
     \/ req[t].pc = "use" /\ req[t].op \in {"subAdd", "subRemove"}
  /\ failed < MaxFailures /\ failed' = failed + 1
  /\ StepWith(t, Idle, obj, cache, {}, Left(req[t]), {})
  /\ UNCHANGED <<store, system, begun>>

\* GetChannel: the cached object, or the way to a new one.  A person channel is
\* made without information.
GetChannel(t) ==
  /\ req[t].pc = "get"
  /\ KeepStore
  /\ IF cache["it"] # None
     THEN StepWith(t, [req[t] EXCEPT !.obj = cache["it"], !.pc = "use"], obj, cache,
                   {}, {}, IF req[t].op = "send" THEN loose ELSE {})
     ELSE IF kind = "person"
          THEN Step(t, [req[t] EXCEPT !.obj = Fresh, !.pc = "subs"], [obj EXCEPT ![Fresh] = Empty("it")], cache)
          ELSE Step(t, Goto(t, "info"), obj, cache)

\* Faulty variant: the new object is cached before its lists are read.
LoadInfoEarly(t) ==
  /\ req[t].pc = "info"
  /\ KeepStore
  /\ LET info == store["it"].info
     IN  IF info = "none" /\ ~CreateIfNoExist /\ kind \notin {"topic", "info"}
         THEN End(t)
         ELSE Step(t, [req[t] EXCEPT !.obj = Fresh, !.pc = "subs"],
                   [obj EXCEPT ![Fresh] = [Empty("it") EXCEPT !.info = info]],
                   [cache EXCEPT !["it"] = Fresh])

\* getChannelFromCacheOrStore reads the information.  Where there is none, a
\* topic and an info channel get a new one; a request for another channel ends
\* (with an error, or for a list with a nil pointer, which the HTTP server recovers from).
LoadInfo(t) ==
  /\ req[t].pc = "info"
  /\ KeepStore
  /\ LET info == store["it"].info
     IN  IF info = "none" /\ ~CreateIfNoExist /\ kind \notin {"topic", "info"}
         THEN End(t)
         ELSE Step(t, [req[t] EXCEPT !.obj = Fresh, !.pc = "subs"],
                   [obj EXCEPT ![Fresh] = [Empty("it") EXCEPT !.info = info]], cache)

\* The lists of the store, as sets: a list is read, appended to, and cut.
getList(list) == store["it"][list]
addList(list, uids) == store["it"][list] \cup uids
removeList(list, uids) == store["it"][list] \ uids

\* LoadData reads the three lists one after the other: initSubscribers (with the
\* visitor of a service channel), initBlacklist, initWhitelist.  GetPersonChannel
\* adds the two users of the channel.
LoadList(t, list, next) ==
  /\ req[t].pc = list
  /\ KeepStore
  /\ LET o == req[t].obj
         extra == IF list = "subs" THEN Named ELSE {}
     IN  Step(t, Goto(t, next), [obj EXCEPT ![o][list] = getList(list) \cup extra], cache)

\* setChannelFromCache, or the Add of GetPersonChannel: the object takes the place of
\* any other.
Insert(t) ==
  /\ req[t].pc = "insert"
  /\ KeepStore
  /\ Step(t, Goto(t, "use"), obj, [cache EXCEPT !["it"] = req[t].obj])

-----------------------------------------------------------------------------
\* channelCreateOrUpdate saves the information, empties the list of subscribers,
\* fills it again and removes the channel from the cache.
\* updateOrAddChannelInfo saves it and updates a cached channel.  channelDelete
\* deletes the information only (DeleteChannelAndClearMessages does nothing).
InfoOf(op) == CASE op = "ban" -> "ban" [] op = "delete" -> "none" [] OTHER -> "open"

SaveInfo(t) ==
  /\ req[t].pc = "store" /\ req[t].op \in Infos
  /\ Stored("info", InfoOf(req[t].op))
  /\ Step(t, Goto(t, CASE req[t].op = "create" -> "clear"
                       [] req[t].op = "delete" -> "uncache"
                       [] OTHER -> "cached"), obj, cache)

\* Faulty variant: a cached channel keeps its information.
CachedInfoStays(t) ==
  /\ req[t].pc = "cached"
  /\ KeepStore
  /\ End(t)

CachedInfo(t) ==
  /\ req[t].pc = "cached"
  /\ KeepStore
  /\ LET o == cache["it"]
     IN  IF o = None THEN End(t)
         ELSE StepWith(t, Idle, [obj EXCEPT ![o].info = InfoOf(req[t].op)], cache, Touches(req[t]), {}, {})

\* RemoveAllSubscriber, and for a reset the list of the object after it.
ClearSubscribers(t) ==
  /\ req[t].pc = "clear"
  /\ Stored("subs", {})
  /\ Step(t, Goto(t, CASE req[t].op = "subReset" -> "clearObj"
                       [] req[t].op = "create" /\ req[t].uids = {} -> "uncache"
                       [] OTHER -> "fill"), obj, cache)

ClearObject(t) ==
  /\ req[t].pc = "clearObj"
  /\ KeepStore
  /\ Step(t, Goto(t, "fill"), [obj EXCEPT ![req[t].obj].subs = {}], cache)

\* AddSubscribers, of the users that were not among those read before.
FillSubscribers(t) ==
  /\ req[t].pc = "fill"
  /\ Stored("subs", addList("subs", req[t].uids \ req[t].exist))
  /\ Step(t, IF req[t].uids \subseteq req[t].exist THEN Idle
             ELSE Goto(t, IF req[t].op = "create" THEN "uncache" ELSE "fillObj"), obj, cache)

FillObject(t) ==
  /\ req[t].pc = "fillObj"
  /\ KeepStore
  /\ LET new == req[t].uids \ req[t].exist
     IN  Done(t, [obj EXCEPT ![req[t].obj].subs = @ \cup new],
              IF req[t].op = "subReset" THEN Touches(req[t]) ELSE {"subs"} \X new)

\* DeleteChannelFromCache
Uncache(t) ==
  /\ req[t].pc = "uncache"
  /\ KeepStore
  /\ Step(t, Idle, obj, [cache EXCEPT !["it"] = None])

\* The denylist and the allowlist: blacklistAdd, blacklistRemove, whitelistAdd,
\* whitelistRemove change the stored list (addList, removeList), then get the
\* channel; blacklistSet and whitelistSet delete the stored list first.
StoreList(t) ==
  /\ req[t].pc = "store" /\ req[t].op \in ListOps
  /\ LET f == ListOf(req[t].op)
     IN  /\ Stored(f, CASE req[t].op \in Adds -> addList(f, req[t].uids)
                               [] req[t].op \in Removes -> removeList(f, req[t].uids)
                               [] OTHER -> {})
         /\ Step(t, Goto(t, IF req[t].op \in Sets /\ req[t].uids # {} THEN "refill" ELSE "get"), obj, cache)

Refill(t) ==
  /\ req[t].pc = "refill"
  /\ Stored(ListOf(req[t].op), addList(ListOf(req[t].op), req[t].uids))
  /\ Step(t, Goto(t, "get"), obj, cache)

\* Then the object: AddDenylist, RemoveDenylist, SetDenylist and their twins.
UseList(t) ==
  /\ req[t].pc = "use" /\ req[t].op \in ListOps
  /\ KeepStore
  /\ LET f == ListOf(req[t].op)
     IN  Done(t,
              [obj EXCEPT ![req[t].obj][f] = CASE req[t].op \in Adds -> @ \cup req[t].uids
                                               [] req[t].op \in Removes -> @ \ req[t].uids
                                               [] OTHER -> req[t].uids],
              Touches(req[t]))

\* addSubscriber: a reset empties both lists, otherwise the stored subscribers are
\* read.  removeSubscriber: the store, then the object.
UseSubscribers(t) ==
  /\ req[t].pc = "use"
  /\ \/ /\ req[t].op = "subAdd" /\ KeepStore
        /\ Step(t, [req[t] EXCEPT !.exist = getList("subs"), !.pc = "fill"], obj, cache)
     \/ /\ req[t].op = "subReset" /\ KeepStore
        /\ Step(t, Goto(t, "clear"), obj, cache)
     \/ /\ req[t].op = "subRemove"
        /\ Stored("subs", removeList("subs", req[t].uids))
        /\ Step(t, Goto(t, "drop"), obj, cache)

DropSubscribers(t) ==
  /\ req[t].pc = "drop"
  /\ KeepStore
  /\ Done(t, [obj EXCEPT ![req[t].obj].subs = @ \ req[t].uids], Touches(req[t]))

\* Temporary subscribers are kept in the object only.
UseTemps(t) ==
  /\ req[t].pc = "use" /\ req[t].op \in Temps
  /\ KeepStore
  /\ Step(t, Idle,
          [obj EXCEPT ![req[t].obj].tmp = CASE req[t].op = "tmpAdd" -> @ \cup req[t].uids
                                            [] req[t].op = "tmpRemove" -> @ \ req[t].uids
                                            [] OTHER -> req[t].uids],
          cache)

-----------------------------------------------------------------------------
\* Where a step needs the parent of a topic, it is there whole: cached or loaded.
Parent == IF cache["parent"] # None THEN obj[cache["parent"]]
          ELSE [Empty("parent") EXCEPT !.subs = store["parent"].subs]

\* Allow: whether object c lets uid send.
Allow(c, uid) ==
  \/ kind = "info"
  \/ uid \in system.cached
  \/ /\ c.info # "ban"
     /\ IF kind # "person" /\ c.allow # {} THEN uid \in c.allow ELSE uid \notin c.deny

\* IsSubscriber
IsSubscriber(c, uid) == uid \in c.subs \/ (kind = "topic" /\ uid \in Parent.subs)

hasPermission(c, uid) ==
  \/ kind = "service"
  \/ /\ Allow(c, uid)
     /\ kind \notin {"person", "info"} => IsSubscriber(c, uid) \/ uid \in c.tmp

\* RealSubscribers, for a message without subscribers of its own.
RealSubscribers(c) ==
  CASE kind = "topic" /\ c.subs = {} -> Parent.subs
    [] kind = "info" -> c.subs \cup c.tmp
    [] OTHER -> c.subs

\* A message of a client, prcocessChannelMessages: permission, then (the messages
\* stored in between) Put, which reads the subscribers again.
Permit(t) ==
  /\ req[t].pc = "use" /\ req[t].op = "send"
  /\ KeepStore
  /\ \E uid \in req[t].uids :
       Step(t, Goto(t, IF hasPermission(obj[req[t].obj], uid) THEN "put" ELSE "refused"), obj, cache)

Refuse(t) ==
  /\ req[t].pc = "refused"
  /\ KeepStore
  /\ End(t)

Put(t) ==
  /\ req[t].pc = "put"
  /\ KeepStore
  /\ Step(t, [req[t] EXCEPT !.uids = RealSubscribers(obj[req[t].obj]), !.obj = None, !.pc = "sent"], obj, cache)

Sent(t) ==
  /\ req[t].pc = "sent"
  /\ KeepStore
  /\ End(t)

-----------------------------------------------------------------------------
\* Other channels push this one out of the LRU cache.
Evict ==
  /\ \E ch \in Ids : cache[ch] # None /\ cache' = [cache EXCEPT ![ch] = None]
  /\ obj' = Collect(obj, cache', req)
  /\ loose' = IF cache'["it"] = None THEN {} ELSE loose
  /\ UNCHANGED <<kind, store, system, req, begun, failed, touched>>

\* The parent of a topic: a subscriber is added (to the store and a cached
\* object), or the channel is loaded by a request of its own.
ParentTraffic ==
  /\ kind = "topic" /\ begun < MaxRequests
  /\ begun' = begun + 1
  /\ \E us \in SUBSET Uids :
       /\ store' = [store EXCEPT !["parent"].subs = @ \cup us]
       /\ cache' = [cache EXCEPT !["parent"] = IF @ = None THEN Fresh ELSE @]
       /\ obj' = [obj EXCEPT ![cache'["parent"]] = [Empty("parent") EXCEPT !.subs = store'["parent"].subs]]
  /\ UNCHANGED <<kind, system, req, failed, touched, loose>>

\* AddSystemUIDs: nothing is saved as long as nothing has been saved before; then
\* the memory.  RemoveSystemUIDs.
AddSystemUIDs ==
  /\ begun < MaxRequests /\ begun' = begun + 1
  /\ \E u \in Uids :
       system' = [cached |-> system.cached \cup {u},
                  stored |-> IF system.stored = {} THEN {} ELSE system.stored \cup {u}]
  /\ UNCHANGED <<kind, store, obj, cache, req, failed, touched, loose>>

RemoveSystemUIDs ==
  /\ begun < MaxRequests /\ begun' = begun + 1
  /\ \E u \in system.cached :
       system' = [cached |-> system.cached \ {u}, stored |-> system.stored \ {u}]
  /\ UNCHANGED <<kind, store, obj, cache, req, failed, touched, loose>>

\* The steps of one goroutine.
Serve(t) ==
  \/ Begin(t) \/ StoreFails(t)
  \/ GetChannel(t) \/ LoadInfo(t) \/ Insert(t)
  \/ LoadList(t, "subs", "deny") \/ LoadList(t, "deny", "allow") \/ LoadList(t, "allow", "insert")
  \/ SaveInfo(t) \/ CachedInfo(t) \/ ClearSubscribers(t) \/ ClearObject(t)
  \/ FillSubscribers(t) \/ FillObject(t) \/ Uncache(t)
  \/ StoreList(t) \/ Refill(t) \/ UseList(t)
  \/ UseSubscribers(t) \/ DropSubscribers(t) \/ UseTemps(t)
  \/ Permit(t) \/ Refuse(t) \/ Put(t) \/ Sent(t)

Next ==
  \/ \E t \in Threads : Serve(t)
  \/ Evict \/ ParentTraffic \/ AddSystemUIDs \/ RemoveSystemUIDs

Spec == Init /\ [][Next]_vars

-----------------------------------------------------------------------------
\* Type: every object in the cache or in a request exists; a request holds one
\* from GetChannel on (channel.go, channel_manager.go).
TypeOK ==
  /\ store \in [Ids -> [info : {"none", "open", "ban"}, subs : SUBSET Uids, deny : SUBSET Uids, allow : SUBSET Uids]]
  /\ \A ch \in Ids : cache[ch] # None => obj[cache[ch]] # None /\ obj[cache[ch]].ch = ch
  /\ \A t \in Threads :
       req[t].pc \in {"subs", "deny", "allow", "insert", "use", "clearObj", "fillObj", "drop", "put"}
         => obj[req[t].obj] # None
  /\ touched \in [Threads -> SUBSET Bits] /\ loose \subseteq Bits

\* Whether object o says of a bit what the store says.  The users in Named are
\* subscribers of the object without the store, and a person channel is loaded
\* without its information.
AsStored(o, bit) ==
  \/ bit = Ban /\ kind = "person"
  \/ bit # Ban /\ bit[1] = "subs" /\ bit[2] \in Named
  \/ Has(obj[o], bit) <=> Has(store["it"], bit)

\* The cached channel says of every user and list, and of the ban, what the store
\* says, whatever requests, loads, evictions and failing calls of the store there
\* have been, but for a bit that an unfinished request changes, and but for these
\* reasons to differ that nothing in the code prevents: two requests that change
\* the bit have overlapped, one has overlapped the load of the object, or one has
\* ended at an error of the store in the middle.  A later request that changes
\* the bit alone, or an eviction, ends the difference (api_channel.go,
\* channel_manager.go).
CacheAgrees ==
  cache["it"] # None =>
    \A bit \in Bits \ loose : (\A t \in Threads : bit \notin Touches(req[t])) => AsStored(cache["it"], bit)

\* A client's message is judged by an object that says what the store says, also when
\* it has left the cache meanwhile, but for what other requests could change
\* while the message was processed and what was loose when it came.  So it goes
\* to every stored subscriber, and to nobody else, but for the same reasons (and but
\* for the parent's subscribers and temporary ones, where a channel has them:
\* processor.go prcocessChannelMessages, channel.go Put).
JudgedByStore ==
  \A t \in Threads :
    /\ req[t].op = "send" /\ req[t].pc \in {"use", "put"} =>
         \A bit \in Bits \ touched[t] : AsStored(req[t].obj, bit)
    /\ req[t].pc = "sent" =>
         \A u \in Uids \ Named : <<"subs", u>> \notin touched[t] =>
           /\ u \in store["it"].subs => u \in req[t].uids
           /\ kind \notin {"topic", "info"} /\ u \in req[t].uids => u \in store["it"].subs
=============================================================================
