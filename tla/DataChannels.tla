---------------------------- MODULE DataChannels ----------------------------
(***************************************************************************)
(* Data channels: clients subscribe to them with SUB packets (processSub   *)
(* in internal/server/processor.go), the monitor publishes to them         *)
(* (api_monitor.go), and requests of the channel API may change their      *)
(* subscribers.                                                            *)
(*                                                                         *)
(* A subscription is in two places: the users of a channel object, which   *)
(* the cache of data channels holds as long as it has any, and a           *)
(* SubscribeInfo in the context of each connection.  Publishing goes from  *)
(* the cached object to its users, to their registered connections, and    *)
(* to those of them that have an info.  The steps of two goroutines        *)
(* interleave freely; nothing locks more than one map.                     *)
(*                                                                         *)
(* One data channel is followed.  Its lists in the store are not: only the *)
(* requests of the API use them.                                           *)
(***************************************************************************)
EXTENDS Naturals, FiniteSets

CONSTANTS
  Conns,     \* connections
  Users,
  Owner,     \* the user of each connection
  Procs,     \* goroutines: frame workers, HTTP handlers, the monitor
  DataObjs,      \* Channel objects
  MaxCalls,  \* bound: packets, requests and publications begun
  MaxUsers,  \* bound: users in one request
  Nil

ASSUME DataConstants ==
  /\ Owner \in [Conns -> Users]
  /\ Nil \notin DataObjs
  /\ MaxCalls \in Nat /\ MaxUsers \in Nat
  /\ IsFiniteSet(Procs) /\ IsFiniteSet(DataObjs)
  /\ Cardinality(DataObjs) > Cardinality(Procs) + 1

VARIABLES
  cached,      \* dataChannelCache: the object of the channel, or Nil
  subs,        \* subscriberMap of each object
  conn,        \* connections: before login, open, closed
  registered,  \* connections in userConnMap
  infos,       \* connections whose context has a SubscribeInfo
  job,         \* what each goroutine is at
  calls,       \* calls begun so far
  disturbed,   \* history: goroutines whose SUB met a step that may undo it
  sure         \* history: connections that subscribed undisturbed, and stayed

dataVars == <<cached, subs, conn, registered, infos, job, calls, disturbed, sure>>

NoJob == [op |-> "none", pc |-> "idle", conn |-> Nil, users |-> {}, obj |-> Nil]

DataInit ==
  /\ cached = Nil
  /\ subs = [o \in DataObjs |-> {}]
  /\ conn = [c \in Conns |-> "new"]
  /\ registered = {} /\ infos = {}
  /\ job = [p \in Procs |-> NoJob]
  /\ calls = 0
  /\ disturbed = {} /\ sure = {}

\* An object nobody points to: what NewChannel allocates.
FreshChannel == CHOOSE o \in DataObjs \ ({cached} \cup {job[p].obj : p \in Procs}) : TRUE

\* What may undo a subscription of user u that is being made: the channel is
\* created beside it or dropped under it, another packet of u finds no connection of u, an
\* UNSUB has a channel that is no longer cached and may drop the new one, or
\* the API takes subscribers away.
Undoes(j, u) ==
  \/ j.pc \in {"create", "drop"}
  \/ j.pc = "leave" /\ Owner[j.conn] = u
  \/ j.op = "unsub" /\ j.obj # cached'
  \/ j.op \in {"remove", "reset"}

\* A step of goroutine p: its job becomes j, the users of the objects ss, the cached
\* object o.  Objects nobody points to are collected.
DataStep(p, j, ss, o) ==
  /\ job' = [job EXCEPT ![p] = j]
  /\ cached' = o
  /\ subs' = [x \in DataObjs |-> IF x \in {o} \cup {job'[q].obj : q \in Procs} THEN ss[x] ELSE {}]
  /\ disturbed' = {q \in Procs : /\ job'[q].op = "sub"
                                 /\ \/ q \in disturbed
                                    \/ \E r \in Procs \ {q} : Undoes(job'[r], Owner[job'[q].conn])}

\* The job at its next step,
To(p, pc) == [job[p] EXCEPT !.pc = pc]

\* and the users of its object with or without some.
With(p, us) == [subs EXCEPT ![job[p].obj] = @ \cup us]
Without(p, us) == [subs EXCEPT ![job[p].obj] = @ \ us]

Using(p, op) == job[p].pc = "use" /\ job[p].op = op
Owned(us) == {c \in Conns : Owner[c] \in us}
KeepConns == UNCHANGED <<conn, registered>>

-----------------------------------------------------------------------------
\* processAuth: a new context without subscriptions, AddConn.
Login(c) ==
  /\ conn[c] = "new"
  /\ conn' = [conn EXCEPT ![c] = "open"]
  /\ registered' = registered \cup {c}
  /\ UNCHANGED <<cached, subs, infos, job, calls, disturbed, sure>>

\* processAuth of another login: an older connection leaves the registry and stays
\* open for some seconds.
Kick(c) ==
  /\ conn[c] = "open" /\ c \in registered
  /\ registered' = registered \ {c}
  /\ sure' = sure \ {c}
  /\ UNCHANGED <<cached, subs, conn, infos, job, calls, disturbed>>

\* processClose: the context is released with what it holds.  RemoveConn looks
\* for the connection in the engine's table, which it has left already: its id stays in
\* userConnMap, and a connection that has been given its descriptor may leave in
\* its place (Connections).
Close(c) ==
  /\ conn[c] = "open"
  /\ conn' = [conn EXCEPT ![c] = "closed"]
  /\ infos' = infos \ {c}
  /\ \E other \in {{}} \cup {{d} : d \in {e \in registered \ {c} : conn[e] = "open"}} :
       /\ registered' = registered \ other
       /\ sure' = sure \ ({c} \cup other)
  /\ UNCHANGED <<cached, subs, job, calls, disturbed>>

-----------------------------------------------------------------------------
\* A packet of a connection, which may have been closed meanwhile, a request of the API
\* (subscriber_add, with reset, and subscriber_remove) or a publication comes to
\* GetOrCreateDataChannel: Load, and where there is none, NewChannel and Store.
GetOrCreateDataChannel(p) ==
  /\ job[p].pc = "idle" /\ calls < MaxCalls
  /\ calls' = calls + 1
  /\ KeepConns /\ UNCHANGED <<infos, sure>>
  /\ \E op \in {"sub", "unsub", "add", "reset", "remove", "publish"}, c \in Conns \cup {Nil}, us \in SUBSET Users :
       /\ IF op \in {"sub", "unsub"} THEN c # Nil /\ conn[c] # "new" ELSE c = Nil
       /\ us # {} <=> op \in {"add", "reset", "remove"}
       /\ Cardinality(us) <= MaxUsers
       /\ DataStep(p, [op |-> op, conn |-> c, users |-> us,
                   obj |-> IF cached # Nil THEN cached ELSE FreshChannel,
                   pc |-> IF cached # Nil THEN "use" ELSE "create"], subs, cached)

Create(p) ==
  /\ job[p].pc = "create"
  /\ KeepConns /\ UNCHANGED <<infos, calls, sure>>
  /\ DataStep(p, To(p, "use"), subs, job[p].obj)

\* processSub, Subscribe: AddSubscriber,
Subscribe(p) ==
  /\ Using(p, "sub")
  /\ KeepConns /\ UNCHANGED <<infos, calls, sure>>
  /\ DataStep(p, To(p, "info"), With(p, {Owner[job[p].conn]}), cached)

\* then subscribeChannel, unless the context has lost its connection.
SubscribeChannel(p) ==
  /\ job[p].pc = "info"
  /\ LET c == job[p].conn
     IN  IF conn[c] = "open"
         THEN /\ infos' = infos \cup {c}
              /\ sure' = IF p \notin disturbed /\ c \in registered THEN sure \cup {c} ELSE sure
         ELSE UNCHANGED <<infos, sure>>
  /\ KeepConns /\ UNCHANGED calls
  /\ DataStep(p, NoJob, subs, cached)

\* ExistConnsWithUID
ExistConnsWithUID(u) == \E c \in registered : Owner[c] = u

\* Faulty variant: the user leaves although it has other connections.
UnsubscribeAlways(p) ==
  /\ Using(p, "unsub")
  /\ KeepConns /\ UNCHANGED <<infos, calls, sure>>
  /\ DataStep(p, To(p, "leave"), subs, cached)

\* processSub, else: the user leaves the object only if it has no connection;
Unsubscribe(p) ==
  /\ Using(p, "unsub")
  /\ KeepConns /\ UNCHANGED <<infos, calls, sure>>
  /\ DataStep(p, To(p, IF ExistConnsWithUID(Owner[job[p].conn]) THEN "count" ELSE "leave"), subs, cached)

RemoveSubscriber(p) ==
  /\ job[p].pc = "leave"
  /\ KeepConns /\ UNCHANGED <<infos, calls, sure>>
  /\ DataStep(p, To(p, "count"), Without(p, {Owner[job[p].conn]}), cached)

\* if that was the last user, RemoveDataChannel, whatever object is cached by now;
CountSubscribers(p) ==
  /\ job[p].pc = "count"
  /\ KeepConns /\ UNCHANGED <<infos, calls, sure>>
  /\ DataStep(p, To(p, IF subs[job[p].obj] = {} THEN "drop" ELSE "forget"), subs, cached)

RemoveDataChannel(p) ==
  /\ job[p].pc = "drop"
  /\ KeepConns /\ UNCHANGED <<infos, calls, sure>>
  /\ DataStep(p, To(p, "forget"), subs, Nil)

\* unscribeChannel
UnscribeChannel(p) ==
  /\ job[p].pc = "forget"
  /\ infos' = infos \ {job[p].conn} /\ sure' = sure \ {job[p].conn}
  /\ KeepConns /\ UNCHANGED calls
  /\ DataStep(p, NoJob, subs, cached)

\* addSubscriber (without and with reset, which takes all users away and then adds)
\* and removeSubscriber.  Without a reset users that the stored list has already are
\* passed over.
RequestAdd(p) ==
  /\ Using(p, "add") \/ job[p].pc = "fill"
  /\ KeepConns /\ UNCHANGED <<infos, calls, sure>>
  /\ \E new \in SUBSET job[p].users :
       /\ job[p].op = "reset" => new = job[p].users
       /\ DataStep(p, NoJob, With(p, new), cached)

RequestReset(p) ==
  /\ Using(p, "reset")
  /\ sure' = {}
  /\ KeepConns /\ UNCHANGED <<infos, calls>>
  /\ DataStep(p, To(p, "fill"), Without(p, Users), cached)

RequestRemove(p) ==
  /\ Using(p, "remove")
  /\ sure' = sure \ Owned(job[p].users)
  /\ KeepConns /\ UNCHANGED <<infos, calls>>
  /\ DataStep(p, NoJob, Without(p, job[p].users), cached)

\* The store fails, and the request ends before it changes the object (again).
RequestFails(p) ==
  /\ job[p].op \in {"add", "reset", "remove"} /\ job[p].pc \in {"use", "fill"}
  /\ KeepConns /\ UNCHANGED <<infos, calls, sure>>
  /\ DataStep(p, NoJob, subs, cached)

\* writeDataToMonitor: the connections that get the data from object o.
Receivers(o) == {c \in registered \cap infos : conn[c] = "open" /\ Owner[c] \in subs[o]}

\* A publication without subscribers ends at once; it has created the channel.
Publish(p) ==
  /\ Using(p, "publish")
  /\ KeepConns /\ UNCHANGED <<infos, calls, sure>>
  /\ DataStep(p, NoJob, subs, cached)

DataNext ==
  \/ \E c \in Conns : Login(c) \/ Kick(c) \/ Close(c)
  \/ \E p \in Procs :
       \/ GetOrCreateDataChannel(p) \/ Create(p)
       \/ Subscribe(p) \/ SubscribeChannel(p)
       \/ Unsubscribe(p) \/ RemoveSubscriber(p) \/ CountSubscribers(p) \/ RemoveDataChannel(p) \/ UnscribeChannel(p)
       \/ RequestAdd(p) \/ RequestReset(p) \/ RequestRemove(p) \/ RequestFails(p) \/ Publish(p)

DataSpec == DataInit /\ [][DataNext]_dataVars

-----------------------------------------------------------------------------
\* Type: users subscribe to objects; a goroutine has one while it uses it.
DataTypeOK ==
  /\ cached \in DataObjs \cup {Nil} /\ subs \in [DataObjs -> SUBSET Users]
  /\ conn \in [Conns -> {"new", "open", "closed"}]
  /\ registered \subseteq Conns /\ infos \subseteq Conns /\ sure \subseteq Conns
  /\ \A p \in Procs : job[p].pc # "idle" => job[p].obj \in DataObjs

\* A connection that has subscribed and not unsubscribed gets what is published, whatever
\* other connections, of its user too, do afterwards: subscribe, unsubscribe, be
\* kicked or close, until the connection leaves the registry or the API takes its
\* user away.  Only while it subscribes can it be undone (Undoes): by others that
\* create or drop the channel then (processor.go processSub, api_monitor.go
\* writeDataToMonitor).
SubscribersReached ==
  \A c \in sure : cached # Nil /\ c \in Receivers(cached)
=============================================================================
