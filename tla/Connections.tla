----------------------------- MODULE Connections -----------------------------
(***************************************************************************)
(* Connections of the server: accepted by pkg/oknet, authenticated and     *)
(* kicked by internal/server/processor.go, listed in conn_manager.go,      *)
(* closed by a reactor or by a timer.                                      *)
(*                                                                         *)
(* A connection is three things that go apart: its id, the object that     *)
(* holds its fields (which a pool hands out again) and its descriptor      *)
(* (which the system hands out again).  The engine's table leads from      *)
(* descriptors to objects, the registry from users to ids and from ids to  *)
(* descriptors.                                                            *)
(***************************************************************************)
EXTENDS Naturals, Sequences, FiniteSets, SequencesExt, Filter

CONSTANTS
  Objs,      \* connection objects: sync.Pool of DefaultConn
  Fds,       \* descriptors a socket can get: numbers above 0
  Reactors,  \* ReactorSub goroutines; descriptor fd belongs to ReactorOf[fd]
  ReactorOf,
  Timers,    \* goroutines in which the timing wheels run their tasks
  Users,
  Logins,    \* CONNECT packets that pass the checks: [uid, flag, dev, master]
  MaxId,     \* bound: connections accepted
  None

ASSUME ConnConstants ==
  /\ Fds \subseteq Nat \ {0}
  /\ ReactorOf \in [Fds -> Reactors]
  /\ MaxId \in Nat
  /\ \A l \in Logins : l.uid \in Users /\ l.master \in BOOLEAN
  /\ None \notin Objs \cup Users /\ None \notin Logins
  /\ "acceptor" \notin Reactors \cup Timers

VARIABLES
  conn,         \* fields of each object (DefaultConn)
  pool,         \* how often an object lies in the pool
  socket,       \* the system: id of the connection a descriptor is of, 0 if free
  poll,         \* descriptors registered with a poller
  table,        \* Engine.connsUnix: descriptor -> object
  connMap,      \* ConnManager.connMap: id -> descriptor, 0 where there is no key
  userConnMap,  \* ConnManager.userConnMap: user -> ids
  kicks,        \* kick timers set on an object
  armed,        \* object's idleTimer runs
  act,          \* local variables of the goroutines
  nextId,       \* Engine.clientIDGen
  status,       \* the online count in the last notice about a user
  faults        \* history: which of the known races have happened

tableVars == <<conn, pool, socket, poll, table>>
registry  == <<connMap, userConnMap>>
timerVars == <<kicks, armed>>
vars == <<tableVars, registry, timerVars, act, nextId, status, faults>>

Ids == 1..MaxId
Actors == Reactors \cup Timers \cup {"acceptor"}

\* What a goroutine is at: the step, the object, the packet, the rest of oldConns.
At(pc, o, l, olds) == [pc |-> pc, obj |-> o, login |-> l, olds |-> olds]
Idle == At("idle", None, None, <<>>)

\* An object before its first use.
DefaultConn == [id |-> 0, fd |-> 0, uid |-> None, flag |-> None, dev |-> None,
                master |-> FALSE, authed |-> FALSE, closed |-> TRUE]

Init ==
  /\ conn = [o \in Objs |-> DefaultConn]
  /\ pool = [o \in Objs |-> 1]
  /\ socket = [fd \in Fds |-> 0]
  /\ poll = {}
  /\ table = [fd \in Fds |-> None]
  /\ connMap = [i \in Ids |-> 0]
  /\ userConnMap = [u \in Users |-> <<>>]
  /\ kicks = [o \in Objs |-> 0]
  /\ armed = [o \in Objs |-> FALSE]
  /\ act = [a \in Actors |-> Idle]
  /\ nextId = 1
  /\ status = [u \in Users |-> 0]
  /\ faults = {}

\* Engine.GetConn: descriptor 0, the zero value of a missing key, is no socket.
GetConn(fd) == IF fd = 0 THEN None ELSE table[fd]

\* Faulty variant: nothing is removed when the descriptor leads nowhere.
RemoveConnWithIDKeeps(id) ==
  LET o == IF id = 0 THEN None ELSE GetConn(connMap[id])
  IN  /\ connMap' = [i \in Ids |-> IF i = id /\ o # None THEN 0 ELSE connMap[i]]
      /\ userConnMap' =
           IF o # None /\ conn[o].uid # None
           THEN [userConnMap EXCEPT ![conn[o].uid] = Only(@, Ids \ {conn[o].id})]
           ELSE userConnMap

\* RemoveConnWithID: the id leaves connMap; the object that its descriptor
\* leads to now, if any, leaves the list of its user.
RemoveConnWithID(id) ==
  LET o == IF id = 0 THEN None ELSE GetConn(connMap[id])
  IN  /\ connMap' = [i \in Ids |-> IF i = id THEN 0 ELSE connMap[i]]
      /\ userConnMap' =
           IF o # None /\ conn[o].uid # None
           THEN [userConnMap EXCEPT ![conn[o].uid] = Only(@, Ids \ {conn[o].id})]
           ELSE userConnMap

\* GetConnsWithUID: the objects that the user's ids lead to.
GetConnsWithUID(u) ==
  Only([k \in DOMAIN userConnMap[u] |-> GetConn(connMap[userConnMap[u][k]])], Objs)

\* GetConnsWith
GetConnsWith(u, flag) == Only(GetConnsWithUID(u), {o \in Objs : conn[o].flag = flag})

Goto(a, pc) == act' = [act EXCEPT ![a].pc = pc]

\* Goroutines that are authenticating object o, or closing
\* it beyond the check of closed; descriptors whose close is under way; and goroutines that handle a login or a close of user u.
Opening(o) == {a \in Actors : act[a].obj = o
                 /\ act[a].pc \in {"kick", "add", "online"}}
Closing(o) == {a \in Actors : act[a].obj = o
                 /\ act[a].pc \in {"mark", "untable", "onclose", "offline", "release"}}
Leaving(fd) == \E o \in Objs : conn[o].fd = fd /\ Closing(o) # {}
Handles(a, u) ==
  \/ act[a].login # None /\ act[a].login.uid = u
  \/ act[a].pc = "offline" /\ conn[act[a].obj].uid = u

-----------------------------------------------------------------------------
\* The acceptor (acceptConn).  Accept: the system gives the lowest descriptor, the pool
\* an object, whose fields are reset, except for deviceID and idleTimer; the connection
\* enters the table and the poller (ReactorSub.AddConn).
Accept ==
  /\ act["acceptor"].pc = "idle" /\ nextId <= MaxId
  /\ nextId' = nextId + 1
  /\ \E fd \in Fds, o \in {p \in Objs : pool[p] > 0} :
       /\ socket[fd] = 0 /\ \A f \in Fds : socket[f] = 0 => fd <= f
       /\ socket' = [socket EXCEPT ![fd] = nextId]
       /\ pool' = [pool EXCEPT ![o] = @ - 1]
       /\ conn' = [conn EXCEPT ![o] = [id |-> nextId, fd |-> fd, uid |-> None, flag |-> None,
                     dev |-> @.dev, master |-> FALSE, authed |-> FALSE, closed |-> FALSE]]
       /\ table' = [table EXCEPT ![fd] = o]
       /\ poll' = poll \cup {fd}
       /\ act' = [act EXCEPT !["acceptor"] = At("connected", o, None, <<>>)]
       /\ faults' = faults \cup (IF Leaving(fd) THEN {"reuse"} ELSE {})
  /\ UNCHANGED <<registry, timerVars, status>>

\* Faulty variant: no idle timer before authentication.
OnConnectNoTimer ==
  /\ act["acceptor"].pc = "connected"
  /\ act' = [act EXCEPT !["acceptor"] = Idle]
  /\ UNCHANGED <<tableVars, registry, timerVars, nextId, status, faults>>

\* Dispatch.onConnect: SetMaxIdle(2s) stops the idle timer and sets a new one,
\* also when a reactor has closed the connection meanwhile.
OnConnect ==
  /\ act["acceptor"].pc = "connected"
  /\ armed' = [armed EXCEPT ![act["acceptor"].obj] = TRUE]
  /\ act' = [act EXCEPT !["acceptor"] = Idle]
  /\ UNCHANGED <<tableVars, registry, kicks, nextId, status, faults>>

-----------------------------------------------------------------------------
\* A reactor.  Events are for descriptors; the table says which object.
Readable(r, fd) ==
  /\ act[r].pc = "idle" /\ ReactorOf[fd] = r
  /\ fd \in poll /\ socket[fd] # 0 /\ table[fd] # None

\* PollEventClose, a read error, or a packet that makes dataIn close.
PeerClose(r, fd) ==
  /\ Readable(r, fd)
  /\ act' = [act EXCEPT ![r] = At("close", table[fd], None, <<>>)]
  /\ UNCHANGED <<tableVars, registry, timerVars, nextId, status, faults>>

\* dataIn with a CONNECT packet: processAuth up to GetConnsWith.
AuthLookup(r, fd, l) ==
  /\ Readable(r, fd) /\ ~conn[table[fd]].authed
  /\ act' = [act EXCEPT ![r] = At("kick", table[fd], l, GetConnsWith(l.uid, l.flag))]
  /\ faults' = faults \cup (IF Closing(table[fd]) # {} THEN {"close"} ELSE {})
                    \cup (IF \E b \in Actors : Handles(b, l.uid) THEN {"cross"} ELSE {})
  /\ UNCHANGED <<tableVars, registry, timerVars, nextId, status>>

\* Faulty variant: an old connection of the same device is left to its timer.
AuthKickOthers(r) ==
  LET olds == act[r].olds
      l    == act[r].login
      old  == Head(olds)
  IN  /\ act[r].pc = "kick" /\ olds # <<>>
      /\ IF l.master /\ conn[old].dev # l.dev
         THEN RemoveConnWithID(conn[old].id)
         ELSE UNCHANGED registry
      /\ kicks' = [kicks EXCEPT ![Last(olds)] = @ + 1]
      /\ act' = [act EXCEPT ![r].olds = Tail(olds)]
      /\ UNCHANGED <<tableVars, armed, nextId, status, faults>>

\* One turn of the loop over oldConns: a master device kicks all of them, another
\* device those with its device id.  The timers' functions refer to the loop
\* variable, which is the last of oldConns when they run.
AuthKick(r) ==
  LET olds == act[r].olds
      l    == act[r].login
      old  == Head(olds)
      out  == l.master \/ conn[old].dev = l.dev
  IN  /\ act[r].pc = "kick" /\ olds # <<>>
      /\ IF out
         THEN /\ RemoveConnWithID(conn[old].id)
              /\ kicks' = [kicks EXCEPT ![Last(olds)] = @ + 1]
         ELSE UNCHANGED <<registry, kicks>>
      /\ act' = [act EXCEPT ![r].olds = Tail(olds)]
      /\ UNCHANGED <<tableVars, armed, nextId, status, faults>>

\* The fields of the connection are set; SetMaxIdle replaces the idle timer.
AuthSet(r) ==
  LET o == act[r].obj
      l == act[r].login
  IN  /\ act[r].pc = "kick" /\ act[r].olds = <<>>
      /\ conn' = [conn EXCEPT ![o] = [id |-> @.id, fd |-> @.fd, uid |-> l.uid, flag |-> l.flag,
                     dev |-> l.dev, master |-> l.master, authed |-> TRUE, closed |-> @.closed]]
      /\ armed' = [armed EXCEPT ![o] = TRUE]
      /\ Goto(r, "add")
      /\ UNCHANGED <<pool, socket, poll, table, registry, kicks, nextId, status, faults>>

\* ConnManager.AddConn
AddConn(r) ==
  LET o == act[r].obj
  IN  /\ act[r].pc = "add"
      /\ connMap' = [i \in Ids |-> IF i = conn[o].id THEN conn[o].fd ELSE connMap[i]]
      /\ userConnMap' = IF conn[o].uid = None THEN userConnMap
                        ELSE [userConnMap EXCEPT ![conn[o].uid] = Append(@, conn[o].id)]
      /\ Goto(r, "online")
      /\ UNCHANGED <<tableVars, timerVars, nextId, status, faults>>

\* GetConnCountWith and webhook.Online
Online(r) ==
  /\ act[r].pc = "online"
  /\ status' = [status EXCEPT ![act[r].login.uid] = Len(GetConnsWithUID(act[r].login.uid))]
  /\ act' = [act EXCEPT ![r] = Idle]
  /\ UNCHANGED <<tableVars, registry, timerVars, nextId, faults>>

-----------------------------------------------------------------------------
\* Timers.  A kick timer closes whatever connection the object is now.
FireKick(t, o) ==
  /\ act[t].pc = "idle" /\ kicks[o] > 0
  /\ kicks' = [kicks EXCEPT ![o] = @ - 1]
  /\ act' = [act EXCEPT ![t] = At("close", o, None, <<>>)]
  /\ UNCHANGED <<tableVars, registry, armed, nextId, status, faults>>

\* An idle timer that finds the connection silent stops the timer the object has
\* now, then closes.
FireIdle(t, o) ==
  /\ act[t].pc = "idle" /\ armed[o]
  /\ armed' = [armed EXCEPT ![o] = FALSE]
  /\ act' = IF conn[o].closed THEN act
            ELSE [act EXCEPT ![t] = At("close", o, None, <<>>)]
  /\ UNCHANGED <<tableVars, registry, kicks, nextId, status, faults>>

-----------------------------------------------------------------------------
\* DefaultConn.Close by goroutine a.  closed is read and set without a lock.
CloseCheck(a) ==
  LET o == act[a].obj
  IN  /\ act[a].pc = "close"
      /\ act' = IF conn[o].closed THEN [act EXCEPT ![a] = Idle] ELSE [act EXCEPT ![a].pc = "mark"]
      /\ faults' = faults \cup
           (IF ~conn[o].closed /\ Closing(o) \cup Opening(o) # {} THEN {"close"} ELSE {})
      /\ UNCHANGED <<tableVars, registry, timerVars, nextId, status>>

\* closed is set, the poller forgets the descriptor, the system closes it.
CloseMark(a) ==
  LET o  == act[a].obj
      fd == conn[o].fd
  IN  /\ act[a].pc = "mark"
      /\ conn' = [conn EXCEPT ![o].closed = TRUE]
      /\ poll' = poll \ {fd}
      /\ socket' = [f \in Fds |-> IF f = fd THEN 0 ELSE socket[f]]
      /\ Goto(a, "untable")
      /\ UNCHANGED <<pool, table, registry, timerVars, nextId, status, faults>>

\* Engine.RemoveConn: by descriptor, whoever has it now.
CloseUntable(a) ==
  LET fd == conn[act[a].obj].fd
  IN  /\ act[a].pc = "untable"
      /\ table' = [f \in Fds |-> IF f = fd THEN None ELSE table[f]]
      /\ Goto(a, "onclose")
      /\ UNCHANGED <<conn, pool, socket, poll, registry, timerVars, nextId, status, faults>>

\* Dispatch.onClose and processClose: the id leaves the registry (the second
\* RemoveConn finds no key).
CloseRemove(a) ==
  LET o == act[a].obj
      u == conn[o].uid
  IN  /\ act[a].pc = "onclose"
      /\ RemoveConnWithID(conn[o].id)
      /\ Goto(a, IF conn[o].authed /\ u # None THEN "offline" ELSE "release")
      /\ faults' = faults \cup (IF \E b \in Actors \ {a} : Handles(b, u) THEN {"cross"} ELSE {})
      /\ UNCHANGED <<tableVars, timerVars, nextId, status>>

\* Faulty variant: no notice if the user still has connections.
OfflineLastOnly(a) ==
  LET u == conn[act[a].obj].uid
  IN  /\ act[a].pc = "offline"
      /\ status' = IF u = None \/ GetConnsWithUID(u) # <<>> THEN status ELSE [status EXCEPT ![u] = 0]
      /\ Goto(a, "release")
      /\ UNCHANGED <<tableVars, registry, timerVars, nextId, faults>>

\* GetConnCountWith and webhook.Offline for the user whose connection closed.
Offline(a) ==
  LET u == conn[act[a].obj].uid
  IN  /\ act[a].pc = "offline"
      /\ status' = IF u = None THEN status ELSE [status EXCEPT ![u] = Len(GetConnsWithUID(u))]
      /\ Goto(a, "release")
      /\ UNCHANGED <<tableVars, registry, timerVars, nextId, faults>>

\* release: the object loses its descriptor and idle timer and goes to the pool.
Release(a) ==
  LET o == act[a].obj
  IN  /\ act[a].pc = "release"
      /\ conn' = [conn EXCEPT ![o].fd = 0]
      /\ armed' = [armed EXCEPT ![o] = FALSE]
      /\ pool' = [pool EXCEPT ![o] = @ + 1]
      /\ act' = [act EXCEPT ![a] = Idle]
      /\ UNCHANGED <<socket, poll, table, registry, kicks, nextId, status, faults>>

Auth(r) ==
  \/ AuthKick(r)
  \/ AuthSet(r)
  \/ AddConn(r)
  \/ Online(r)

Close(a) ==
  \/ CloseCheck(a)
  \/ CloseMark(a)
  \/ CloseUntable(a)
  \/ CloseRemove(a)
  \/ Offline(a)
  \/ Release(a)

Next ==
  \/ Accept
  \/ OnConnect
  \/ \E r \in Reactors, fd \in Fds : PeerClose(r, fd)
  \/ \E r \in Reactors, fd \in Fds, l \in Logins : AuthLookup(r, fd, l)
  \/ \E r \in Reactors : Auth(r)
  \/ \E t \in Timers, o \in Objs : FireKick(t, o) \/ FireIdle(t, o)
  \/ \E a \in Reactors \cup Timers : Close(a)

Spec == Init /\ [][Next]_vars

-----------------------------------------------------------------------------
\* Types of the variables.
TypeOK ==
  /\ \A o \in Objs : /\ conn[o].id \in 0..MaxId
                     /\ conn[o].fd \in Fds \cup {0}
                     /\ conn[o].uid \in Users \cup {None}
  /\ pool \in [Objs -> Nat]
  /\ socket \in [Fds -> 0..MaxId]
  /\ poll \subseteq Fds
  /\ table \in [Fds -> Objs \cup {None}]
  /\ connMap \in [Ids -> Fds \cup {0}]
  /\ \A u \in Users : userConnMap[u] \in Seq(Ids)
  /\ kicks \in [Objs -> Nat] /\ armed \in [Objs -> BOOLEAN]
  /\ status \in [Users -> Nat]

\* A registered id leads to its own connection or to none: GetConn and
\* GetConnsWithUID (conn_manager.go:39-83) give another one, whose descriptor is the
\* same, only while the close of the id is under way.  (Unless an object was closed by
\* two goroutines or during its authentication, conn.go:289.)
RegistryExact ==
  "close" \notin faults =>
    \A i \in Ids : \/ GetConn(connMap[i]) = None
                   \/ conn[GetConn(connMap[i])].id = i
                   \/ \E o \in Objs : conn[o].id = i /\ Closing(o) # {}

\* A user has one registered master connection of a device flag (processAuth kicks the
\* others, processor.go:160-179), if logins of one user do not overlap.
MasterAlone ==
  faults \cap {"close", "cross"} = {} =>
    \A u \in Users, i, j \in Ids :
      LET o == GetConn(connMap[i])
          p == GetConn(connMap[j])
      IN  (/\ i # j /\ {i, j} \subseteq ToSet(userConnMap[u])
           /\ o # None /\ p # None /\ conn[o].id = i /\ conn[p].id = j
           /\ conn[o].flag = conn[p].flag)
          => ~(conn[o].master /\ conn[p].master)

\* Once logins and closes are done, the last notice about a user has the number of the
\* user's connections (Online and Offline, processor.go:236, 665), if none of them
\* overlapped and no descriptor was handed out again under its closer.
StatusAgrees ==
  (faults = {} /\ \A a \in Actors : act[a].pc \in {"idle", "connected"}) =>
    \A u \in Users :
      status[u] = Cardinality({i \in ToSet(userConnMap[u]) : connMap[i] # 0})

\* No connection outlives a silent client: whoever holds a descriptor has an idle timer
\* that will close it (conn.go:455-477), or is being connected or closed, even if it fell
\* out of the engine's table because the closer of its descriptor's last user removed it.
IdleCovered ==
  "close" \notin faults =>
    \A fd \in Fds : socket[fd] # 0 =>
      \E o \in Objs : /\ conn[o].id = socket[fd] /\ conn[o].fd = fd /\ ~conn[o].closed
                      /\ \/ armed[o]
                         \/ \E a \in Actors : act[a].obj = o
                                /\ act[a].pc \in {"connected", "close", "mark"}
=============================================================================
