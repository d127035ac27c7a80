-------------------------- MODULE ConnectionsProofs --------------------------
(***************************************************************************)
(* RegistryExact, IdleCovered, MasterAlone and StatusAgrees of             *)
(* Connections, proved for every number of objects, descriptors, reactors, *)
(* timers, users and connections.                                          *)
(*                                                                         *)
(* The argument, first part (ConnInv): as long as no object is closed      *)
(* twice at a time or while it is authenticated (the history "close"), an  *)
(* object that is not in the pool is open or has exactly one closer, an    *)
(* open object has the descriptor the system gave it to itself, and a      *)
(* closer takes the id out of the registry before it gives the object      *)
(* back.                                                                   *)
(*                                                                         *)
(* Second part (LoginInv): if nor do logins and closes of one user overlap *)
(* ("cross"), a master that logs in finds every registered connection of   *)
(* its flag among oldConns, and has taken it out of the registry when it   *)
(* is added itself; and if no descriptor is handed out again under its     *)
(* closer ("reuse") either, whoever adds or removes an id of a user counts *)
(* the user's connections afterwards, and finds every registered id in the *)
(* table.                                                                  *)
(***************************************************************************)
EXTENDS Connections, FiniteSetTheorems, WellFoundedInduction, TLAPS

\* The records of the goroutines and of the objects keep their fields, and the
\* other functions their domains.  What the loop over oldConns goes through is
\* left open.
ActShape ==
  act = [a \in Actors |-> [pc |-> act[a].pc, obj |-> act[a].obj,
                           login |-> act[a].login, olds |-> act[a].olds]]

ConnShape ==
  conn = [o \in Objs |-> [id |-> conn[o].id, fd |-> conn[o].fd, uid |-> conn[o].uid,
                          flag |-> conn[o].flag, dev |-> conn[o].dev, master |-> conn[o].master,
                          authed |-> conn[o].authed, closed |-> conn[o].closed]]

Shape ==
  /\ ActShape /\ ConnShape
  /\ pool = [o \in Objs |-> pool[o]] /\ socket = [fd \in Fds |-> socket[fd]]
  /\ table = [fd \in Fds |-> table[fd]] /\ connMap = [i \in Ids |-> connMap[i]]
  /\ armed = [o \in Objs |-> armed[o]]

PCs == {"idle", "connected", "kick", "add", "online", "close",
        "mark", "untable", "onclose", "offline", "release"}

\* A goroutine that does something does it to an object.
Typed ==
  /\ nextId \in Nat \ {0}
  /\ \A a \in Actors : act[a].pc \in PCs /\ (act[a].pc # "idle" => act[a].obj \in Objs)
  /\ \A o \in Objs : conn[o].id \in Nat /\ conn[o].id < nextId /\ pool[o] \in Nat
                      /\ conn[o].fd \in Fds \cup {0} /\ conn[o].closed \in BOOLEAN
  /\ \A fd \in Fds : table[fd] \in Objs \cup {None}
  /\ \A i \in Ids : connMap[i] \in Fds \cup {0}

Closes(a, o) == act[a].obj = o /\ act[a].pc \in {"mark", "untable", "onclose", "offline", "release"}
Opens(a, o) == act[a].obj = o /\ act[a].pc \in {"kick", "add", "online"}

\* An id is of one object.
OwnId == \A o, p \in Objs : conn[o].id = conn[p].id /\ conn[o].id # 0 => o = p

\* One goroutine closes an object; it has set closed when it is beyond the mark.
\* None does while the object is authenticated.
OneCloser ==
  \A o \in Objs, a \in Actors :
    /\ Closes(a, o) => \A b \in Actors : Closes(b, o) => a = b
    /\ Closes(a, o) => (act[a].pc = "mark" <=> ~conn[o].closed)
    /\ Opens(a, o) => ~conn[o].closed /\ \A b \in Actors : ~Closes(b, o)

\* An object is in the pool, open, or being closed.
Custody ==
  \A o \in Objs :
    /\ pool[o] \in {0, 1}
    /\ pool[o] = 1 => conn[o].closed /\ \A a \in Actors : ~Closes(a, o)
    /\ pool[o] = 0 /\ conn[o].closed => \E a \in Actors : Closes(a, o)

\* An open object has its descriptor to itself.
OwnSocket ==
  \A o \in Objs : ~conn[o].closed =>
    /\ conn[o].id # 0 /\ conn[o].fd \in Fds
    /\ socket[conn[o].fd] = conn[o].id
    /\ table[conn[o].fd] \in {o, None}

\* A descriptor in use is that of an open object.
SocketUsed ==
  \A fd \in Fds : socket[fd] # 0 =>
    \E o \in Objs : conn[o].id = socket[fd] /\ conn[o].fd = fd /\ ~conn[o].closed

\* The table leads to objects that are open or about to leave it.
TableLeads ==
  \A fd \in Fds : table[fd] # None =>
    /\ conn[table[fd]].fd = fd
    /\ conn[table[fd]].closed => \E a \in Actors : Closes(a, table[fd]) /\ act[a].pc = "untable"

\* A registered id is of an object that is open or still to leave the registry.
Registered ==
  \A i \in Ids : connMap[i] # 0 =>
    \E o \in Objs :
      /\ conn[o].id = i /\ conn[o].fd = connMap[i]
      /\ conn[o].closed => \E a \in Actors : Closes(a, o) /\ act[a].pc \in {"untable", "onclose"}

\* An open object has an idle timer, or someone will set one or close it.
Covered ==
  \A o \in Objs : ~conn[o].closed =>
    \/ armed[o]
    \/ \E a \in Actors : act[a].obj = o /\ act[a].pc \in {"connected", "close", "mark"}

Sound == /\ OwnId /\ OneCloser /\ Custody /\ OwnSocket
         /\ SocketUsed /\ TableLeads /\ Registered /\ Covered

ConnInv == Shape /\ Typed /\ ("close" \notin faults => Sound)

-----------------------------------------------------------------------------
\* Before the first connection every object is closed and in the pool.
LEMMA InitConn == Init => ConnInv
  <1> SUFFICES ASSUME Init PROVE ConnInv
    OBVIOUS
  <1>1. /\ \A a \in Actors : act[a].pc = "idle" /\ act[a].obj = None
        /\ \A o \in Objs : /\ conn[o].id = 0 /\ conn[o].fd = 0 /\ conn[o].closed = TRUE
                           /\ pool[o] = 1 /\ armed[o] = FALSE
        /\ \A fd \in Fds : socket[fd] = 0 /\ table[fd] = None
        /\ \A i \in Ids : connMap[i] = 0
        /\ nextId = 1
    BY DEF Init, Idle, At, DefaultConn
  <1>2. Shape
    BY DEF Init, Idle, At, DefaultConn, Shape, ActShape, ConnShape
  <1>3. Typed
    <2>1. 0 \in Nat /\ 1 \in Nat \ {0} /\ 0 < 1
      OBVIOUS
    <2> QED
      BY <1>1, <2>1, Zenon DEF Typed, PCs
  <1>4. Sound
    BY <1>1, ConnConstants DEF Sound, OwnId, OneCloser, Custody, OwnSocket,
       SocketUsed, TableLeads, Registered, Covered, Closes, Opens
  <1> QED
    BY <1>2, <1>3, <1>4 DEF ConnInv

\* acceptConn keeps the invariant: the object it takes from the pool is
\* nobody's, and the descriptor the system gives it is of no open object.
LEMMA AcceptStep ==
  ASSUME ConnInv, Accept
  PROVE  ConnInv'
  <1>0. Shape /\ Typed /\ ActShape /\ ConnShape
    BY DEF ConnInv, Shape
  <1>1. PICK fd \in Fds, o \in Objs :
          /\ pool[o] > 0 /\ socket[fd] = 0
          /\ socket' = [socket EXCEPT ![fd] = nextId]
          /\ pool' = [pool EXCEPT ![o] = @ - 1]
          /\ conn' = [conn EXCEPT ![o] = [id |-> nextId, fd |-> fd, uid |-> None, flag |-> None,
               dev |-> conn[o].dev, master |-> FALSE, authed |-> FALSE, closed |-> FALSE]]
          /\ table' = [table EXCEPT ![fd] = o]
          /\ act' = [act EXCEPT !["acceptor"] = At("connected", o, None, <<>>)]
          /\ faults \subseteq faults'
    BY DEF Accept
  <1>2. /\ act["acceptor"].pc = "idle" /\ nextId <= MaxId /\ nextId' = nextId + 1
        /\ connMap' = connMap /\ armed' = armed /\ "acceptor" \in Actors
    BY DEF Accept, registry, timerVars, Actors
  <1>3. /\ ActShape'
        /\ \A b \in Actors :
             /\ act'[b].pc = IF b = "acceptor" THEN "connected" ELSE act[b].pc
             /\ act'[b].obj = IF b = "acceptor" THEN o ELSE act[b].obj
    <2>1. act' = [act EXCEPT !["acceptor"] = At("connected", o, None, <<>>)]
      BY <1>1
    <2> QED
      BY <1>0, <1>2, <2>1 DEF ActShape, At
  <1>4. /\ ConnShape'
        /\ conn'[o].id = nextId /\ conn'[o].fd = fd /\ conn'[o].closed = FALSE
        /\ \A p \in Objs : p # o => conn'[p] = conn[p]
    <2>1. conn' = [conn EXCEPT ![o] = [id |-> nextId, fd |-> fd, uid |-> None, flag |-> None,
               dev |-> conn[o].dev, master |-> FALSE, authed |-> FALSE, closed |-> FALSE]]
      BY <1>1
    <2> QED
      BY <1>0, <2>1 DEF ConnShape
  <1>5. /\ \A f \in Fds : socket'[f] = IF f = fd THEN nextId ELSE socket[f]
        /\ \A f \in Fds : table'[f] = IF f = fd THEN o ELSE table[f]
        /\ \A p \in Objs : pool'[p] = IF p = o THEN pool[p] - 1 ELSE pool[p]
        /\ socket[fd] = 0 /\ pool[o] > 0 /\ faults \subseteq faults'
    BY <1>0, <1>1 DEF Shape
  <1>6. Shape'
    BY <1>0, <1>1, <1>2, <1>3, <1>4 DEF Shape
  <1>7. Typed'
    <2>1. \A p \in Objs : /\ conn'[p].id \in Nat /\ conn'[p].id < nextId' /\ pool'[p] \in Nat
                          /\ conn'[p].fd \in Fds \cup {0}
      BY <1>0, <1>2, <1>4, <1>5 DEF Typed
    <2>2. \A p \in Objs : conn'[p].closed \in BOOLEAN
      BY <1>0, <1>4, Zenon DEF Typed
    <2> QED
      BY <1>0, <1>2, <1>3, <1>5, <2>1, <2>2 DEF Typed, PCs
  <1>8. ASSUME "close" \notin faults'
        PROVE  Sound'
    <2>0. Sound
      BY <1>5, <1>8 DEF ConnInv
    <2>1. /\ pool[o] = 1 /\ conn[o].closed
          /\ \A a \in Actors : ~Closes(a, o) /\ ~Opens(a, o)
          /\ \A f \in Fds : table[f] # o
          /\ \A p \in Objs : conn[p].id # nextId
          /\ nextId # 0
      BY <1>0, <1>5, <2>0, ConnConstants DEF Typed, Sound, Custody, OneCloser, TableLeads
    <2>2. OwnId'
      BY <1>4, <2>0, <2>1 DEF Sound, OwnId
    <2>3. /\ \A a \in Actors, p \in Objs : Closes(a, p)' <=> Closes(a, p)
          /\ \A a \in Actors, p \in Objs : Opens(a, p)' <=> Opens(a, p)
      BY <1>2, <1>3, <2>1 DEF Closes, Opens
    <2>4. OneCloser'
      BY <1>2, <1>3, <1>4, <2>0, <2>1, <2>3 DEF Sound, OneCloser, Closes
    <2>5. Custody'
      BY <1>4, <1>5, <2>0, <2>1, <2>3 DEF Sound, Custody
    <2>6. \A p \in Objs : conn[p].closed = FALSE => conn[p].fd # fd
      BY <1>0, <1>5, <2>0 DEF Typed, Sound, OwnSocket
    <2>7. OwnSocket'
      BY <1>0, <1>4, <1>5, <2>0, <2>1, <2>6 DEF Typed, Sound, OwnSocket
    <2>8. SocketUsed'
      BY <1>0, <1>4, <1>5, <2>0, <2>1 DEF Sound, SocketUsed
    <2>9. TableLeads'
      BY <1>0, <1>2, <1>3, <1>4, <1>5, <2>0, <2>1, <2>3 DEF Typed, Sound, TableLeads, Closes
    <2>10. Registered'
      BY <1>2, <1>3, <1>4, <2>0, <2>1, <2>3 DEF Sound, Registered, Closes
    <2>11. Covered'
      BY <1>2, <1>3, <1>4, <2>0, <2>1 DEF Sound, Covered
    <2> QED
      BY <2>2, <2>4, <2>5, <2>7, <2>8, <2>9, <2>10, <2>11 DEF Sound
  <1> QED
    BY <1>6, <1>7, <1>8 DEF ConnInv

\* Steps that neither close an object nor change its fields: a goroutine turns
\* to an object or leaves it, an id may leave the registry.
LEMMA LightStep ==
  ASSUME ConnInv, Shape', Typed',
         UNCHANGED <<conn, pool, socket, table, nextId>>,
         faults \subseteq faults',
         \A i \in Ids : connMap'[i] \in {connMap[i], 0},
         \A a \in Actors, p \in Objs :
           /\ Closes(a, p)' <=> Closes(a, p)
           /\ Closes(a, p) => act'[a].pc = act[a].pc
           /\ "close" \notin faults' /\ Opens(a, p)' =>
                Opens(a, p) \/ (~conn[p].closed /\ \A b \in Actors : ~Closes(b, p)),
         Covered => Covered'
  PROVE  ConnInv'
  <1>0. Typed
    BY DEF ConnInv
  <1>1. ASSUME "close" \notin faults'
        PROVE  Sound'
    <2>0. Sound
      BY <1>1 DEF ConnInv
    <2>1. OwnId' /\ OwnSocket' /\ SocketUsed'
      BY <2>0 DEF Sound, OwnId, OwnSocket, SocketUsed
    <2>2. OneCloser'
      BY <1>1, <2>0 DEF Sound, OneCloser
    <2>3. Custody'
      BY <2>0 DEF Sound, Custody
    <2>4. TableLeads'
      BY <1>0, <2>0 DEF Typed, Sound, TableLeads
    <2>5. Registered'
      BY <2>0 DEF Sound, Registered
    <2> QED
      BY <2>0, <2>1, <2>2, <2>3, <2>4, <2>5 DEF Sound
  <1> QED
    BY <1>1 DEF ConnInv

\* Dispatch.onConnect keeps it: the timer takes over from the acceptor.
LEMMA OnConnectStep ==
  ASSUME ConnInv, OnConnect
  PROVE  ConnInv'
  <1>0. Shape /\ Typed /\ ActShape /\ ConnShape
    BY DEF ConnInv, Shape
  <1> DEFINE o == act["acceptor"].obj
  <1>1. /\ "acceptor" \in Actors /\ act["acceptor"].pc = "connected"
        /\ o \in Objs
        /\ UNCHANGED <<conn, pool, socket, table, connMap, nextId, faults>>
    BY <1>0 DEF OnConnect, tableVars, registry, Actors, Typed
  <1>2. act' = [act EXCEPT !["acceptor"] = Idle] /\ armed' = [armed EXCEPT ![o] = TRUE]
    BY DEF OnConnect
  <1> HIDE DEF o
  <1>3. /\ ActShape'
        /\ \A b \in Actors : /\ act'[b].pc = IF b = "acceptor" THEN "idle" ELSE act[b].pc
                             /\ act'[b].obj = IF b = "acceptor" THEN None ELSE act[b].obj
    BY <1>0, <1>1, <1>2 DEF ActShape, Idle, At
  <1>4. armed'[o] /\ \A p \in Objs : armed[p] => armed'[p]
    BY <1>0, <1>1, <1>2 DEF Shape
  <1>5. Shape'
    BY <1>0, <1>1, <1>2, <1>3 DEF Shape, ConnShape
  <1>6. Typed'
    BY <1>0, <1>1, <1>3 DEF Typed, PCs
  <1>7. \A a \in Actors, p \in Objs :
          /\ Closes(a, p)' <=> Closes(a, p)
          /\ Closes(a, p) => act'[a].pc = act[a].pc
          /\ Opens(a, p)' => Opens(a, p)
    BY <1>1, <1>3 DEF Closes, Opens
  <1>8. Covered => Covered'
    BY <1>1, <1>3, <1>4 DEF Covered, o
  <1> QED
    BY <1>1, <1>5, <1>6, <1>7, <1>8, LightStep

\* An event that makes a reactor close an object keeps it.
LEMMA PeerCloseStep ==
  ASSUME ConnInv, NEW r \in Reactors, NEW fd \in Fds, PeerClose(r, fd)
  PROVE  ConnInv'
  <1>0. Shape /\ Typed /\ ActShape /\ ConnShape
    BY DEF ConnInv, Shape
  <1> DEFINE o == table[fd]
  <1>1. /\ r \in Actors /\ act[r].pc = "idle" /\ o \in Objs
        /\ UNCHANGED <<conn, pool, socket, table, connMap, armed, nextId, faults>>
    BY <1>0 DEF PeerClose, Readable, tableVars, registry, timerVars, Actors, Typed
  <1>2. act' = [act EXCEPT ![r] = At("close", o, None, <<>>)]
    BY DEF PeerClose
  <1> HIDE DEF o
  <1>3. /\ ActShape'
        /\ \A b \in Actors : /\ act'[b].pc = IF b = r THEN "close" ELSE act[b].pc
                             /\ act'[b].obj = IF b = r THEN o ELSE act[b].obj
    BY <1>0, <1>1, <1>2 DEF ActShape, At
  <1>4. Shape'
    BY <1>0, <1>1, <1>3 DEF Shape, ConnShape
  <1>5. Typed'
    BY <1>0, <1>1, <1>3 DEF Typed, PCs
  <1>6. \A a \in Actors, p \in Objs :
          /\ Closes(a, p)' <=> Closes(a, p)
          /\ Closes(a, p) => act'[a].pc = act[a].pc
          /\ Opens(a, p)' => Opens(a, p)
    BY <1>1, <1>3 DEF Closes, Opens
  <1>7. Covered => Covered'
    BY <1>1, <1>3 DEF Covered
  <1> QED
    BY <1>1, <1>4, <1>5, <1>6, <1>7, LightStep

\* The start of an authentication keeps it: an object that the table leads to
\* and that nobody closes is open.
LEMMA AuthLookupStep ==
  ASSUME ConnInv, NEW r \in Reactors, NEW fd \in Fds, NEW l \in Logins, AuthLookup(r, fd, l)
  PROVE  ConnInv'
  <1>0. Shape /\ Typed /\ ActShape /\ ConnShape
    BY DEF ConnInv, Shape
  <1> DEFINE o == table[fd]
             olds == GetConnsWith(l.uid, l.flag)
  <1>1. /\ r \in Actors /\ act[r].pc = "idle" /\ o \in Objs
        /\ UNCHANGED <<conn, pool, socket, table, connMap, armed, nextId>>
        /\ faults \subseteq faults'
        /\ "close" \notin faults' => Closing(o) = {}
    BY <1>0 DEF AuthLookup, Readable, tableVars, registry, timerVars, Actors, Typed
  <1>2. act' = [act EXCEPT ![r] = At("kick", o, l, olds)]
    BY DEF AuthLookup
  <1>3. "close" \notin faults' => ~conn[o].closed /\ \A b \in Actors : ~Closes(b, o)
    <2>1. "close" \notin faults' => \A b \in Actors : ~Closes(b, o)
      BY <1>1 DEF Closing, Closes
    <2> QED
      BY <1>0, <1>1, <2>1, ConnConstants DEF ConnInv, Sound, TableLeads
  <1> HIDE DEF o, olds
  <1>4. /\ ActShape'
        /\ \A b \in Actors : /\ act'[b].pc = IF b = r THEN "kick" ELSE act[b].pc
                             /\ act'[b].obj = IF b = r THEN o ELSE act[b].obj
    BY <1>0, <1>1, <1>2 DEF ActShape, At
  <1>5. Shape'
    BY <1>0, <1>1, <1>4 DEF Shape, ConnShape
  <1>6. Typed'
    BY <1>0, <1>1, <1>4 DEF Typed, PCs
  <1>7. \A a \in Actors, p \in Objs :
          /\ Closes(a, p)' <=> Closes(a, p)
          /\ Closes(a, p) => act'[a].pc = act[a].pc
          /\ Opens(a, p)' => Opens(a, p) \/ p = o
    BY <1>1, <1>4 DEF Closes, Opens
  <1>8. Covered => Covered'
    BY <1>1, <1>4 DEF Covered
  <1> QED
    BY <1>1, <1>3, <1>5, <1>6, <1>7, <1>8, LightStep

\* A turn of the loop over oldConns keeps it: ids only leave the registry.
LEMMA AuthKickStep ==
  ASSUME ConnInv, NEW r \in Reactors, AuthKick(r)
  PROVE  ConnInv'
  <1>0. Shape /\ Typed /\ ActShape /\ ConnShape
    BY DEF ConnInv, Shape
  <1> DEFINE rest == Tail(act[r].olds)
  <1>1. /\ r \in Actors
        /\ UNCHANGED <<conn, pool, socket, table, armed, nextId, faults>>
    BY DEF AuthKick, tableVars, Actors
  <1>2. act' = [act EXCEPT ![r].olds = rest]
    BY DEF AuthKick
  <1>3. connMap' = [i \in Ids |-> connMap'[i]] /\ \A i \in Ids : connMap'[i] \in {connMap[i], 0}
    BY <1>0 DEF AuthKick, RemoveConnWithID, registry, Shape
  <1> HIDE DEF rest
  <1>4. ActShape' /\ \A b \in Actors : act'[b].pc = act[b].pc /\ act'[b].obj = act[b].obj
    BY <1>0, <1>1, <1>2 DEF ActShape
  <1>5. Shape'
    BY <1>0, <1>1, <1>3, <1>4 DEF Shape, ConnShape
  <1>6. Typed'
    BY <1>0, <1>1, <1>3, <1>4 DEF Typed, PCs
  <1>7. \A a \in Actors, p \in Objs :
          /\ Closes(a, p)' <=> Closes(a, p)
          /\ Closes(a, p) => act'[a].pc = act[a].pc
          /\ Opens(a, p)' => Opens(a, p)
    BY <1>1, <1>4 DEF Closes, Opens
  <1>8. Covered => Covered'
    BY <1>1, <1>4 DEF Covered
  <1> QED
    BY <1>1, <1>3, <1>5, <1>6, <1>7, <1>8, LightStep

\* The end of an authentication keeps it.
LEMMA OnlineStep ==
  ASSUME ConnInv, NEW r \in Reactors, Online(r)
  PROVE  ConnInv'
  <1>0. Shape /\ Typed /\ ActShape /\ ConnShape
    BY DEF ConnInv, Shape
  <1>1. /\ r \in Actors /\ act[r].pc = "online"
        /\ UNCHANGED <<conn, pool, socket, table, connMap, armed, nextId, faults>>
    BY DEF Online, tableVars, registry, timerVars, Actors
  <1>2. act' = [act EXCEPT ![r] = Idle]
    BY DEF Online
  <1>3. /\ ActShape'
        /\ \A b \in Actors : /\ act'[b].pc = IF b = r THEN "idle" ELSE act[b].pc
                             /\ act'[b].obj = IF b = r THEN None ELSE act[b].obj
    BY <1>0, <1>1, <1>2 DEF ActShape, Idle, At
  <1>4. Shape'
    BY <1>0, <1>1, <1>3 DEF Shape, ConnShape
  <1>5. Typed'
    BY <1>0, <1>1, <1>3 DEF Typed, PCs
  <1>6. \A a \in Actors, p \in Objs :
          /\ Closes(a, p)' <=> Closes(a, p)
          /\ Closes(a, p) => act'[a].pc = act[a].pc
          /\ Opens(a, p)' => Opens(a, p)
    BY <1>1, <1>3 DEF Closes, Opens
  <1>7. Covered => Covered'
    BY <1>1, <1>3 DEF Covered
  <1> QED
    BY <1>1, <1>4, <1>5, <1>6, <1>7, LightStep

\* A kick timer keeps it.
LEMMA FireKickStep ==
  ASSUME ConnInv, NEW t \in Timers, NEW o \in Objs, FireKick(t, o)
  PROVE  ConnInv'
  <1>0. Shape /\ Typed /\ ActShape /\ ConnShape
    BY DEF ConnInv, Shape
  <1>1. /\ t \in Actors /\ act[t].pc = "idle"
        /\ UNCHANGED <<conn, pool, socket, table, connMap, armed, nextId, faults>>
    BY DEF FireKick, tableVars, registry, Actors
  <1>2. act' = [act EXCEPT ![t] = At("close", o, None, <<>>)]
    BY DEF FireKick
  <1>3. /\ ActShape'
        /\ \A b \in Actors : /\ act'[b].pc = IF b = t THEN "close" ELSE act[b].pc
                             /\ act'[b].obj = IF b = t THEN o ELSE act[b].obj
    BY <1>0, <1>1, <1>2 DEF ActShape, At
  <1>4. Shape'
    BY <1>0, <1>1, <1>3 DEF Shape, ConnShape
  <1>5. Typed'
    BY <1>0, <1>1, <1>3 DEF Typed, PCs
  <1>6. \A a \in Actors, p \in Objs :
          /\ Closes(a, p)' <=> Closes(a, p)
          /\ Closes(a, p) => act'[a].pc = act[a].pc
          /\ Opens(a, p)' => Opens(a, p)
    BY <1>1, <1>3 DEF Closes, Opens
  <1>7. Covered => Covered'
    BY <1>1, <1>3 DEF Covered
  <1> QED
    BY <1>1, <1>4, <1>5, <1>6, <1>7, LightStep

\* An idle timer keeps it: it stops, and closes the object in its stead.
LEMMA FireIdleStep ==
  ASSUME ConnInv, NEW t \in Timers, NEW o \in Objs, FireIdle(t, o)
  PROVE  ConnInv'
  <1>0. Shape /\ Typed /\ ActShape /\ ConnShape
    BY DEF ConnInv, Shape
  <1>1. /\ t \in Actors /\ act[t].pc = "idle"
        /\ UNCHANGED <<conn, pool, socket, table, connMap, nextId, faults>>
        /\ armed' = [armed EXCEPT ![o] = FALSE]
    BY DEF FireIdle, tableVars, registry, Actors
  <1>2. armed' = [p \in Objs |-> armed'[p]] /\ \A p \in Objs : p # o => armed'[p] = armed[p]
    BY <1>0, <1>1 DEF Shape
  <1>3. /\ ActShape'
        /\ \A b \in Actors : b # t => act'[b].pc = act[b].pc /\ act'[b].obj = act[b].obj
        /\ \/ act'[t].pc = "idle" /\ conn[o].closed
           \/ act'[t].pc = "close" /\ act'[t].obj = o
    <2>1. CASE conn[o].closed
      <3>1. act' = act
        BY <2>1 DEF FireIdle
      <3> QED
        BY <1>0, <1>1, <2>1, <3>1 DEF ActShape
    <2>2. CASE ~conn[o].closed
      <3>1. act' = [act EXCEPT ![t] = At("close", o, None, <<>>)]
        BY <2>2 DEF FireIdle
      <3> QED
        BY <1>0, <1>1, <3>1 DEF ActShape, At
    <2> QED
      BY <2>1, <2>2
  <1>4. Shape'
    BY <1>0, <1>1, <1>2, <1>3 DEF Shape, ConnShape
  <1>5. Typed'
    BY <1>0, <1>1, <1>3 DEF Typed, PCs
  <1>6. \A a \in Actors, p \in Objs :
          /\ Closes(a, p)' <=> Closes(a, p)
          /\ Closes(a, p) => act'[a].pc = act[a].pc
          /\ Opens(a, p)' => Opens(a, p)
    BY <1>1, <1>3 DEF Closes, Opens
  <1>7. Covered => Covered'
    BY <1>1, <1>2, <1>3 DEF Covered
  <1> QED
    BY <1>1, <1>4, <1>5, <1>6, <1>7, LightStep

\* Setting the fields of an authenticated connection keeps it.
LEMMA AuthSetStep ==
  ASSUME ConnInv, NEW r \in Reactors, AuthSet(r)
  PROVE  ConnInv'
  <1>0. Shape /\ Typed /\ ActShape /\ ConnShape
    BY DEF ConnInv, Shape
  <1> DEFINE o == act[r].obj
             l == act[r].login
  <1>1. /\ r \in Actors /\ act[r].pc = "kick" /\ o \in Objs
        /\ UNCHANGED <<pool, socket, table, connMap, nextId, faults>>
    BY <1>0 DEF AuthSet, registry, Actors, Typed
  <1>2. /\ conn' = [conn EXCEPT ![o] = [id |-> conn[o].id, fd |-> conn[o].fd, uid |-> l.uid,
                      flag |-> l.flag, dev |-> l.dev, master |-> l.master, authed |-> TRUE,
                      closed |-> conn[o].closed]]
        /\ armed' = [armed EXCEPT ![o] = TRUE]
        /\ act' = [act EXCEPT ![r].pc = "add"]
    <2>1. conn' = [conn EXCEPT ![o] = [id |-> conn[o].id, fd |-> conn[o].fd, uid |-> l.uid,
                      flag |-> l.flag, dev |-> l.dev, master |-> l.master, authed |-> TRUE,
                      closed |-> conn[o].closed]]
      BY <1>0, <1>1 DEF AuthSet, ConnShape
    <2> QED
      BY <2>1 DEF AuthSet, Goto
  <1> HIDE DEF o, l
  <1>3. /\ ActShape'
        /\ \A b \in Actors : /\ act'[b].pc = IF b = r THEN "add" ELSE act[b].pc
                             /\ act'[b].obj = act[b].obj
    BY <1>0, <1>1, <1>2 DEF ActShape
  <1>4. /\ ConnShape'
        /\ \A p \in Objs : /\ conn'[p].id = conn[p].id /\ conn'[p].fd = conn[p].fd
                           /\ conn'[p].closed = conn[p].closed
    BY <1>0, <1>1, <1>2 DEF ConnShape
  <1>5. \A p \in Objs : armed[p] => armed'[p]
    BY <1>0, <1>1, <1>2 DEF Shape
  <1>6. Shape'
    BY <1>0, <1>1, <1>2, <1>3, <1>4 DEF Shape
  <1>7. Typed'
    BY <1>0, <1>1, <1>3, <1>4 DEF Typed, PCs
  <1>8. ASSUME "close" \notin faults'
        PROVE  Sound'
    <2>0. Sound
      BY <1>1, <1>8 DEF ConnInv
    <2>1. \A a \in Actors, p \in Objs :
            /\ Closes(a, p)' <=> Closes(a, p)
            /\ Closes(a, p) => act'[a].pc = act[a].pc
            /\ Opens(a, p)' <=> Opens(a, p)
      BY <1>1, <1>3 DEF Closes, Opens
    <2>2. OwnId' /\ OwnSocket' /\ SocketUsed'
      BY <1>1, <1>4, <2>0 DEF Sound, OwnId, OwnSocket, SocketUsed
    <2>3. OneCloser' /\ Custody'
      BY <1>1, <1>4, <2>0, <2>1 DEF Sound, OneCloser, Custody
    <2>4. TableLeads' /\ Registered'
      BY <1>0, <1>1, <1>4, <2>0, <2>1 DEF Typed, Sound, TableLeads, Registered
    <2>5. Covered'
      BY <1>1, <1>3, <1>4, <1>5, <2>0 DEF Sound, Covered
    <2> QED
      BY <2>2, <2>3, <2>4, <2>5 DEF Sound
  <1> QED
    BY <1>6, <1>7, <1>8 DEF ConnInv

\* ConnManager.AddConn keeps it: the object it registers is open.
LEMMA AddConnStep ==
  ASSUME ConnInv, NEW r \in Reactors, AddConn(r)
  PROVE  ConnInv'
  <1>0. Shape /\ Typed /\ ActShape /\ ConnShape
    BY DEF ConnInv, Shape
  <1> DEFINE o == act[r].obj
  <1>1. /\ r \in Actors /\ act[r].pc = "add" /\ o \in Objs
        /\ UNCHANGED <<conn, pool, socket, table, armed, nextId, faults>>
        /\ act' = [act EXCEPT ![r].pc = "online"]
    BY <1>0 DEF AddConn, tableVars, timerVars, Actors, Typed, Goto
  <1>2. /\ connMap' = [i \in Ids |-> connMap'[i]]
        /\ \A i \in Ids : connMap'[i] = IF i = conn[o].id THEN conn[o].fd ELSE connMap[i]
    BY DEF AddConn
  <1>3. /\ ActShape'
        /\ \A b \in Actors : /\ act'[b].pc = IF b = r THEN "online" ELSE act[b].pc
                             /\ act'[b].obj = act[b].obj
    BY <1>0, <1>1 DEF ActShape
  <1>4. Opens(r, o)
    BY <1>1 DEF Opens
  <1> HIDE DEF o
  <1>5. Shape'
    BY <1>0, <1>1, <1>2, <1>3 DEF Shape, ConnShape
  <1>6. Typed'
    BY <1>0, <1>1, <1>2, <1>3 DEF Typed, PCs
  <1>7. ASSUME "close" \notin faults'
        PROVE  Sound'
    <2>0. Sound
      BY <1>1, <1>7 DEF ConnInv
    <2>1. \A a \in Actors, p \in Objs :
            /\ Closes(a, p)' <=> Closes(a, p)
            /\ Closes(a, p) => act'[a].pc = act[a].pc
            /\ Opens(a, p)' <=> Opens(a, p)
      BY <1>1, <1>3 DEF Closes, Opens
    <2>2. OwnId' /\ OwnSocket' /\ SocketUsed'
      BY <1>1, <2>0 DEF Sound, OwnId, OwnSocket, SocketUsed
    <2>3. OneCloser' /\ Custody' /\ TableLeads'
      BY <1>0, <1>1, <2>0, <2>1 DEF Typed, Sound, OneCloser, Custody, TableLeads
    <2>4. Registered'
      BY <1>1, <1>2, <1>4, <2>0, <2>1 DEF Sound, OneCloser, Registered
    <2>5. Covered'
      BY <1>1, <1>3, <2>0 DEF Sound, Covered
    <2> QED
      BY <2>2, <2>3, <2>4, <2>5 DEF Sound
  <1> QED
    BY <1>5, <1>6, <1>7 DEF ConnInv

\* The check of closed keeps it: whoever passes it is the one closer.
LEMMA CloseCheckStep ==
  ASSUME ConnInv, NEW a \in Reactors \cup Timers, CloseCheck(a)
  PROVE  ConnInv'
  <1>0. Shape /\ Typed /\ ActShape /\ ConnShape
    BY DEF ConnInv, Shape
  <1> DEFINE o == act[a].obj
  <1>1. /\ a \in Actors /\ act[a].pc = "close" /\ o \in Objs
        /\ UNCHANGED <<conn, pool, socket, table, connMap, armed, nextId>>
        /\ faults \subseteq faults'
        /\ "close" \notin faults' /\ ~conn[o].closed => Closing(o) \cup Opening(o) = {}
    BY <1>0 DEF CloseCheck, tableVars, registry, timerVars, Actors, Typed
  <1>2. "close" \notin faults' /\ ~conn[o].closed =>
           \A b \in Actors : ~Closes(b, o) /\ ~Opens(b, o)
    BY <1>1 DEF Closing, Opening, Closes, Opens
  <1>3. CASE conn[o].closed
    <2>1. act' = [act EXCEPT ![a] = Idle]
      BY <1>3 DEF CloseCheck
    <2> HIDE DEF o
    <2>2. /\ ActShape'
          /\ \A b \in Actors : /\ act'[b].pc = IF b = a THEN "idle" ELSE act[b].pc
                               /\ act'[b].obj = IF b = a THEN None ELSE act[b].obj
      BY <1>0, <1>1, <2>1 DEF ActShape, Idle, At
    <2>3. Shape'
      BY <1>0, <1>1, <2>2 DEF Shape, ConnShape
    <2>4. Typed'
      BY <1>0, <1>1, <2>2 DEF Typed, PCs
    <2>5. \A b \in Actors, p \in Objs :
            /\ Closes(b, p)' <=> Closes(b, p)
            /\ Closes(b, p) => act'[b].pc = act[b].pc
            /\ Opens(b, p)' => Opens(b, p)
      BY <1>1, <2>2 DEF Closes, Opens
    <2>6. Covered => Covered'
      BY <1>1, <1>3, <2>2 DEF Covered, o
    <2> QED
      BY <1>1, <2>3, <2>4, <2>5, <2>6, LightStep
  <1>4. CASE ~conn[o].closed
    <2>1. act' = [act EXCEPT ![a].pc = "mark"]
      BY <1>4 DEF CloseCheck
    <2>2. /\ ActShape'
          /\ \A b \in Actors : /\ act'[b].pc = IF b = a THEN "mark" ELSE act[b].pc
                               /\ act'[b].obj = act[b].obj
      BY <1>0, <1>1, <2>1 DEF ActShape
    <2>3. \A b \in Actors, p \in Objs :
            /\ Closes(b, p)' <=> Closes(b, p) \/ (b = a /\ p = o)
            /\ Closes(b, p) => act'[b].pc = act[b].pc
            /\ Opens(b, p)' <=> Opens(b, p)
      BY <1>1, <2>2 DEF Closes, Opens
    <2> HIDE DEF o
    <2>4. Shape'
      BY <1>0, <1>1, <2>2 DEF Shape, ConnShape
    <2>5. Typed'
      BY <1>0, <1>1, <2>2 DEF Typed, PCs
    <2>6. ASSUME "close" \notin faults'
          PROVE  Sound'
      <3>0. Sound
        BY <1>1, <2>6 DEF ConnInv
      <3>1. OwnId' /\ OwnSocket' /\ SocketUsed'
        BY <1>1, <3>0 DEF Sound, OwnId, OwnSocket, SocketUsed
      <3>2. OneCloser'
        BY <1>1, <1>2, <1>4, <2>2, <2>3, <2>6, <3>0 DEF Sound, OneCloser
      <3>3. Custody'
        BY <1>1, <1>4, <2>3, <3>0 DEF Sound, Custody
      <3>4. TableLeads' /\ Registered'
        BY <1>0, <1>1, <2>3, <3>0 DEF Typed, Sound, TableLeads, Registered
      <3>5. Covered'
        BY <1>1, <2>2, <3>0 DEF Sound, Covered
      <3> QED
        BY <3>1, <3>2, <3>3, <3>4, <3>5 DEF Sound
    <2> QED
      BY <2>4, <2>5, <2>6 DEF ConnInv
  <1> QED
    BY <1>3, <1>4

\* What an assignment to one field of an object does.
LEMMA FieldEffect ==
  ASSUME ConnShape, NEW o \in Objs, NEW v
  PROVE  /\ conn' = [conn EXCEPT ![o].closed = v] =>
              /\ ConnShape' /\ conn'[o].id = conn[o].id
              /\ conn'[o].fd = conn[o].fd /\ conn'[o].closed = v
              /\ \A p \in Objs : p # o => conn'[p] = conn[p]
         /\ conn' = [conn EXCEPT ![o].fd = v] =>
              /\ ConnShape' /\ conn'[o].id = conn[o].id
              /\ conn'[o].fd = v /\ conn'[o].closed = conn[o].closed
              /\ \A p \in Objs : p # o => conn'[p] = conn[p]
  BY DEF ConnShape

\* Setting closed and closing the descriptor keeps it: no other open object
\* has the descriptor.
LEMMA CloseMarkStep ==
  ASSUME ConnInv, NEW a \in Reactors \cup Timers, CloseMark(a)
  PROVE  ConnInv'
  <1>0. Shape /\ Typed /\ ActShape /\ ConnShape
    BY DEF ConnInv, Shape
  <1> DEFINE o == act[a].obj
             fd == conn[o].fd
  <1>1. /\ a \in Actors /\ act[a].pc = "mark" /\ o \in Objs /\ Closes(a, o)
        /\ UNCHANGED <<pool, table, connMap, armed, nextId, faults>>
    BY <1>0 DEF CloseMark, registry, timerVars, Actors, Typed, Closes
  <1>2. /\ socket' = [f \in Fds |-> socket'[f]]
        /\ \A f \in Fds : socket'[f] = IF f = fd THEN 0 ELSE socket[f]
    BY DEF CloseMark
  <1>3. /\ ActShape'
        /\ \A b \in Actors : /\ act'[b].pc = IF b = a THEN "untable" ELSE act[b].pc
                             /\ act'[b].obj = act[b].obj
    <2>1. act' = [act EXCEPT ![a].pc = "untable"]
      BY DEF CloseMark, Goto
    <2> QED
      BY <1>0, <1>1, <2>1 DEF ActShape
  <1>4. /\ ConnShape' /\ conn'[o].closed = TRUE
        /\ conn'[o].id = conn[o].id /\ conn'[o].fd = conn[o].fd
        /\ \A p \in Objs : p # o => conn'[p] = conn[p]
    <2>1. conn' = [conn EXCEPT ![o].closed = TRUE]
      BY DEF CloseMark
    <2>2. ConnShape /\ o \in Objs
      BY <1>0, <1>1
    <2> HIDE DEF o
    <2> QED
      BY <2>1, <2>2, FieldEffect
  <1>5. \A b \in Actors, p \in Objs :
          /\ Closes(b, p)' <=> Closes(b, p)
          /\ b # a => act'[b].pc = act[b].pc
          /\ Opens(b, p)' <=> Opens(b, p)
    BY <1>1, <1>3 DEF Closes, Opens
  <1> HIDE DEF o
  <1>6. Shape'
    BY <1>0, <1>1, <1>2, <1>3, <1>4 DEF Shape
  <1>7. Typed'
    <2>1. \A p \in Objs : conn'[p].closed \in BOOLEAN
      BY <1>0, <1>4, Zenon DEF Typed
    <2> QED
      BY <1>0, <1>1, <1>3, <1>4, <2>1 DEF Typed, PCs
  <1>8. ASSUME "close" \notin faults'
        PROVE  Sound'
    <2>0. Sound
      BY <1>1, <1>8 DEF ConnInv
    <2>1. /\ ~conn[o].closed /\ \A b \in Actors : Closes(b, o) => b = a
          /\ \A b \in Actors : ~Opens(b, o)
      BY <1>1, <2>0 DEF Sound, OneCloser
    <2>2. OwnId'
      BY <1>4, <2>0 DEF Sound, OwnId
    <2>3. OneCloser'
      <3>1. \A p \in Objs, b \in Actors :
              Closes(b, p)' => \A c \in Actors : Closes(c, p)' => b = c
        BY <1>5, <2>0 DEF Sound, OneCloser
      <3>2. \A p \in Objs, b \in Actors : p # o /\ Closes(b, p) => b # a
        BY <1>1 DEF Closes
      <3>3. \A p \in Objs, b \in Actors :
              Closes(b, p)' => (act'[b].pc = "mark" <=> ~conn'[p].closed)
        BY <1>3, <1>4, <1>5, <2>0, <2>1, <3>2 DEF Sound, OneCloser
      <3>4. \A p \in Objs, b \in Actors :
              Opens(b, p)' => ~conn'[p].closed /\ \A c \in Actors : ~Closes(c, p)'
        BY <1>4, <1>5, <2>0, <2>1 DEF Sound, OneCloser
      <3> QED
        BY <3>1, <3>3, <3>4 DEF OneCloser
    <2>4. Custody'
      BY <1>1, <1>4, <1>5, <2>0, <2>1 DEF Sound, Custody
    <2>5. \A p \in Objs : p # o /\ ~conn[p].closed => conn[p].fd # fd
      BY <1>1, <2>0, <2>1 DEF Sound, OwnId, OwnSocket
    <2>6. OwnSocket'
      BY <1>1, <1>2, <1>4, <2>0, <2>5 DEF Sound, OwnSocket
    <2>7. SocketUsed'
      BY <1>1, <1>2, <1>4, <2>0 DEF Sound, SocketUsed
    <2>8. TableLeads'
      BY <1>0, <1>1, <1>3, <1>4, <1>5, <2>0, <2>1 DEF Typed, Sound, TableLeads
    <2>9. Registered'
      BY <1>1, <1>3, <1>4, <1>5, <2>0, <2>1 DEF Sound, Registered
    <2>10. Covered'
      BY <1>1, <1>3, <1>4, <2>0 DEF Sound, Covered, o
    <2> QED
      BY <2>2, <2>3, <2>4, <2>6, <2>7, <2>8, <2>9, <2>10 DEF Sound
  <1> QED
    BY <1>6, <1>7, <1>8 DEF ConnInv

\* Engine.RemoveConn keeps it, also when the descriptor is another's by now.
LEMMA CloseUntableStep ==
  ASSUME ConnInv, NEW a \in Reactors \cup Timers, CloseUntable(a)
  PROVE  ConnInv'
  <1>0. Shape /\ Typed /\ ActShape /\ ConnShape
    BY DEF ConnInv, Shape
  <1> DEFINE o == act[a].obj
             fd == conn[o].fd
  <1>1. /\ a \in Actors /\ act[a].pc = "untable" /\ o \in Objs /\ Closes(a, o)
        /\ UNCHANGED <<conn, pool, socket, connMap, armed, nextId, faults>>
    BY <1>0 DEF CloseUntable, registry, timerVars, Actors, Typed, Closes
  <1>2. /\ table' = [f \in Fds |-> table'[f]]
        /\ \A f \in Fds : table'[f] = IF f = fd THEN None ELSE table[f]
    BY DEF CloseUntable
  <1>3. /\ ActShape'
        /\ \A b \in Actors : /\ act'[b].pc = IF b = a THEN "onclose" ELSE act[b].pc
                             /\ act'[b].obj = act[b].obj
    <2>1. act' = [act EXCEPT ![a].pc = "onclose"]
      BY DEF CloseUntable, Goto
    <2> QED
      BY <1>0, <1>1, <2>1 DEF ActShape
  <1>4. \A b \in Actors, p \in Objs :
          /\ Closes(b, p)' <=> Closes(b, p)
          /\ b # a => act'[b].pc = act[b].pc
          /\ Opens(b, p)' <=> Opens(b, p)
          /\ Closes(a, p) => p = o
    BY <1>1, <1>3 DEF Closes, Opens
  <1> HIDE DEF o
  <1>5. Shape'
    BY <1>0, <1>1, <1>2, <1>3 DEF Shape, ConnShape
  <1>6. Typed'
    BY <1>0, <1>1, <1>2, <1>3 DEF Typed, PCs
  <1>7. ASSUME "close" \notin faults'
        PROVE  Sound'
    <2>0. Sound
      BY <1>1, <1>7 DEF ConnInv
    <2>1. OwnId' /\ SocketUsed'
      BY <1>1, <2>0 DEF Sound, OwnId, SocketUsed
    <2>2. OneCloser' /\ Custody'
      BY <1>1, <1>3, <1>4, <2>0 DEF Sound, OneCloser, Custody
    <2>3. OwnSocket'
      BY <1>1, <1>2, <2>0 DEF Sound, OwnSocket
    <2>4. TableLeads'
      BY <1>0, <1>1, <1>2, <1>4, <2>0 DEF Typed, Sound, TableLeads
    <2>5. Registered'
      BY <1>1, <1>3, <1>4, <2>0 DEF Sound, Registered
    <2>6. Covered'
      BY <1>1, <1>3, <2>0 DEF Sound, Covered
    <2> QED
      BY <2>1, <2>2, <2>3, <2>4, <2>5, <2>6 DEF Sound
  <1> QED
    BY <1>5, <1>6, <1>7 DEF ConnInv

\* processClose keeps it: the id of the closed object leaves the registry.
LEMMA CloseRemoveStep ==
  ASSUME ConnInv, NEW a \in Reactors \cup Timers, CloseRemove(a)
  PROVE  ConnInv'
  <1>0. Shape /\ Typed /\ ActShape /\ ConnShape
    BY DEF ConnInv, Shape
  <1> DEFINE o == act[a].obj
             pc == IF conn[o].authed /\ conn[o].uid # None THEN "offline" ELSE "release"
  <1>1. /\ a \in Actors /\ act[a].pc = "onclose" /\ o \in Objs /\ Closes(a, o)
        /\ UNCHANGED <<conn, pool, socket, table, armed, nextId>>
        /\ faults \subseteq faults'
    BY <1>0 DEF CloseRemove, tableVars, timerVars, Actors, Typed, Closes
  <1>2. /\ connMap' = [i \in Ids |-> connMap'[i]]
        /\ \A i \in Ids : connMap'[i] = IF i = conn[o].id THEN 0 ELSE connMap[i]
    BY DEF CloseRemove, RemoveConnWithID
  <1>3. /\ ActShape' /\ act'[a].pc \in {"offline", "release"}
        /\ \A b \in Actors : /\ b # a => act'[b].pc = act[b].pc
                             /\ act'[b].obj = act[b].obj
    <2>1. act' = [act EXCEPT ![a].pc = pc]
      BY DEF CloseRemove, Goto
    <2>2. pc \in {"offline", "release"}
      OBVIOUS
    <2> HIDE DEF pc
    <2> QED
      BY <1>0, <1>1, <2>1, <2>2 DEF ActShape
  <1>4. \A b \in Actors, p \in Objs :
          /\ Closes(b, p)' <=> Closes(b, p)
          /\ b # a => act'[b].pc = act[b].pc
          /\ Opens(b, p)' <=> Opens(b, p)
          /\ Closes(a, p) => p = o
    BY <1>1, <1>3 DEF Closes, Opens
  <1> HIDE DEF o, pc
  <1>5. Shape'
    BY <1>0, <1>1, <1>2, <1>3 DEF Shape, ConnShape
  <1>6. Typed'
    BY <1>0, <1>1, <1>2, <1>3 DEF Typed, PCs
  <1>7. ASSUME "close" \notin faults'
        PROVE  Sound'
    <2>0. Sound
      BY <1>1, <1>7 DEF ConnInv
    <2>1. OwnId' /\ SocketUsed' /\ OwnSocket'
      BY <1>1, <2>0 DEF Sound, OwnId, SocketUsed, OwnSocket
    <2>2. OneCloser' /\ Custody'
      BY <1>1, <1>3, <1>4, <2>0 DEF Sound, OneCloser, Custody
    <2>3. TableLeads'
      BY <1>0, <1>1, <1>4, <2>0 DEF Typed, Sound, TableLeads
    <2>4. Registered'
      BY <1>1, <1>2, <1>4, <2>0 DEF Sound, Registered
    <2>5. Covered'
      BY <1>1, <1>3, <2>0 DEF Sound, Covered
    <2> QED
      BY <2>1, <2>2, <2>3, <2>4, <2>5 DEF Sound
  <1> QED
    BY <1>5, <1>6, <1>7 DEF ConnInv

\* The notice of a close keeps it.
LEMMA OfflineStep ==
  ASSUME ConnInv, NEW a \in Reactors \cup Timers, Offline(a)
  PROVE  ConnInv'
  <1>0. Shape /\ Typed /\ ActShape /\ ConnShape
    BY DEF ConnInv, Shape
  <1>1. /\ a \in Actors /\ act[a].pc = "offline"
        /\ UNCHANGED <<conn, pool, socket, table, connMap, armed, nextId, faults>>
    BY DEF Offline, tableVars, registry, timerVars, Actors
  <1>2. /\ ActShape'
        /\ \A b \in Actors : /\ act'[b].pc = IF b = a THEN "release" ELSE act[b].pc
                             /\ act'[b].obj = act[b].obj
    <2>1. act' = [act EXCEPT ![a].pc = "release"]
      BY DEF Offline, Goto
    <2> QED
      BY <1>0, <1>1, <2>1 DEF ActShape
  <1>3. \A b \in Actors, p \in Objs :
          /\ Closes(b, p)' <=> Closes(b, p)
          /\ b # a => act'[b].pc = act[b].pc
          /\ Opens(b, p)' <=> Opens(b, p)
    BY <1>1, <1>2 DEF Closes, Opens
  <1>4. Shape'
    BY <1>0, <1>1, <1>2 DEF Shape, ConnShape
  <1>5. Typed'
    BY <1>0, <1>1, <1>2 DEF Typed, PCs
  <1>6. ASSUME "close" \notin faults'
        PROVE  Sound'
    <2>0. Sound
      BY <1>1, <1>6 DEF ConnInv
    <2>1. OwnId' /\ SocketUsed' /\ OwnSocket'
      BY <1>1, <2>0 DEF Sound, OwnId, SocketUsed, OwnSocket
    <2>2. OneCloser' /\ Custody'
      BY <1>1, <1>2, <1>3, <2>0 DEF Sound, OneCloser, Custody
    <2>3. TableLeads' /\ Registered'
      BY <1>0, <1>1, <1>3, <2>0 DEF Typed, Sound, TableLeads, Registered
    <2>4. Covered'
      BY <1>1, <1>2, <2>0 DEF Sound, Covered
    <2> QED
      BY <2>1, <2>2, <2>3, <2>4 DEF Sound
  <1> QED
    BY <1>4, <1>5, <1>6 DEF ConnInv

\* release keeps it: neither the table nor the registry leads to the object.
LEMMA ReleaseStep ==
  ASSUME ConnInv, NEW a \in Reactors \cup Timers, Release(a)
  PROVE  ConnInv'
  <1>0. Shape /\ Typed /\ ActShape /\ ConnShape
    BY DEF ConnInv, Shape
  <1> DEFINE o == act[a].obj
  <1>1. /\ a \in Actors /\ act[a].pc = "release" /\ o \in Objs /\ Closes(a, o)
        /\ UNCHANGED <<socket, table, connMap, nextId, faults>>
    BY <1>0 DEF Release, registry, Actors, Typed, Closes
  <1>2. /\ ActShape'
        /\ \A b \in Actors : /\ act'[b].pc = IF b = a THEN "idle" ELSE act[b].pc
                             /\ act'[b].obj = IF b = a THEN None ELSE act[b].obj
    <2>1. act' = [act EXCEPT ![a] = Idle]
      BY DEF Release
    <2> QED
      BY <1>0, <1>1, <2>1 DEF ActShape, Idle, At
  <1>3. \A b \in Actors, p \in Objs :
          /\ Closes(b, p)' <=> Closes(b, p) /\ b # a
          /\ b # a => act'[b].pc = act[b].pc
          /\ Opens(b, p)' <=> Opens(b, p)
          /\ Closes(a, p) => p = o
    BY <1>1, <1>2 DEF Closes, Opens
  <1>4. /\ conn' = [conn EXCEPT ![o].fd = 0]
        /\ armed' = [armed EXCEPT ![o] = FALSE]
        /\ pool' = [pool EXCEPT ![o] = @ + 1]
    BY DEF Release
  <1> HIDE DEF o
  <1>5. /\ ConnShape' /\ conn'[o].id = conn[o].id
        /\ conn'[o].fd = 0 /\ conn'[o].closed = conn[o].closed
        /\ \A p \in Objs : p # o => conn'[p] = conn[p]
    BY <1>0, <1>1, <1>4, FieldEffect
  <1>6. /\ armed' = [p \in Objs |-> armed'[p]] /\ \A p \in Objs : p # o => armed'[p] = armed[p]
        /\ pool' = [p \in Objs |-> pool'[p]]
        /\ \A p \in Objs : pool'[p] = IF p = o THEN pool[p] + 1 ELSE pool[p]
    BY <1>0, <1>1, <1>4 DEF Shape
  <1>7. Shape'
    BY <1>0, <1>1, <1>2, <1>5, <1>6 DEF Shape
  <1>8. Typed'
    BY <1>0, <1>1, <1>2, <1>5, <1>6 DEF Typed, PCs
  <1>9. ASSUME "close" \notin faults'
        PROVE  Sound'
    <2>0. Sound
      BY <1>1, <1>9 DEF ConnInv
    <2>1. /\ \A b \in Actors : Closes(b, o) => b = a
          /\ conn[o].closed /\ pool[o] = 0
      BY <1>1, <2>0 DEF Sound, OneCloser, Custody
    <2>1a. /\ conn'[o].closed /\ pool'[o] = 1
           /\ \A p \in Objs : p # o => pool'[p] = pool[p]
           /\ \A p \in Objs : ~conn'[p].closed => p # o
      <3>1. conn'[o].closed
        BY <1>5, <2>1, Zenon
      <3> QED
        BY <1>1, <1>6, <2>1, <3>1
    <2>2. OwnId'
      BY <1>5, <2>0 DEF Sound, OwnId
    <2>3. OneCloser'
      BY <1>1, <1>3, <1>5, <2>0 DEF Sound, OneCloser
    <2>4. Custody'
      BY <1>1, <1>3, <1>5, <2>0, <2>1, <2>1a DEF Sound, Custody
    <2>5. OwnSocket' /\ SocketUsed'
      BY <1>1, <1>5, <2>0, <2>1, <2>1a DEF Sound, OwnSocket, SocketUsed
    <2>6. TableLeads'
      BY <1>0, <1>1, <1>3, <1>5, <2>0, <2>1 DEF Typed, Sound, TableLeads
    <2>7. Registered'
      BY <1>1, <1>3, <1>5, <2>0, <2>1 DEF Sound, Registered
    <2>8. Covered'
      BY <1>1, <1>2, <1>5, <1>6, <2>0, <2>1a DEF Sound, Covered
    <2> QED
      BY <2>2, <2>3, <2>4, <2>5, <2>6, <2>7, <2>8 DEF Sound
  <1> QED
    BY <1>7, <1>8, <1>9 DEF ConnInv

-----------------------------------------------------------------------------
\* Every step keeps the invariant.
LEMMA NextConn ==
  ASSUME ConnInv, [Next]_vars
  PROVE  ConnInv'
  <1>1. CASE UNCHANGED vars
    <2>1. UNCHANGED <<conn, pool, socket, table, connMap, armed, act, nextId, faults>>
      BY <1>1 DEF vars, tableVars, registry, timerVars
    <2>2. Shape'
      BY <2>1 DEF ConnInv, Shape, ActShape, ConnShape
    <2>3. Typed'
      BY <2>1 DEF ConnInv, Typed
    <2>4. \A a \in Actors, p \in Objs :
            /\ Closes(a, p)' <=> Closes(a, p)
            /\ Opens(a, p)' <=> Opens(a, p)
      BY <2>1 DEF Closes, Opens
    <2>5. Covered => Covered'
      BY <2>1 DEF Covered
    <2> QED
      BY <2>1, <2>2, <2>3, <2>4, <2>5, LightStep
  <1>2. CASE Next
    BY <1>2, AcceptStep, OnConnectStep, PeerCloseStep, AuthLookupStep, AuthKickStep,
       AuthSetStep, AddConnStep, OnlineStep, FireKickStep, FireIdleStep, CloseCheckStep,
       CloseMarkStep, CloseUntableStep, CloseRemoveStep, OfflineStep, ReleaseStep
       DEF Next, Auth, Close
  <1> QED
    BY <1>1, <1>2

\* It holds in every state of every behaviour.
LEMMA ConnInvAlways == Spec => []ConnInv
  BY InitConn, NextConn, PTL DEF Spec

\* The invariant says where registered ids lead.
LEMMA ConnInvExact == ConnInv => RegistryExact
  <1> SUFFICES ASSUME ConnInv, "close" \notin faults, NEW i \in Ids,
                      GetConn(connMap[i]) # None
               PROVE  \/ conn[GetConn(connMap[i])].id = i
                      \/ \E o \in Objs : conn[o].id = i /\ Closing(o) # {}
    BY DEF RegistryExact
  <1>1. connMap[i] # 0 /\ connMap[i] \in Fds /\ table[connMap[i]] # None
        /\ GetConn(connMap[i]) = table[connMap[i]]
    BY DEF GetConn, ConnInv, Typed
  <1>2. PICK o \in Objs :
          /\ conn[o].id = i /\ conn[o].fd = connMap[i]
          /\ conn[o].closed => \E a \in Actors : Closes(a, o)
    BY <1>1 DEF ConnInv, Sound, Registered
  <1>3. CASE conn[o].closed
    BY <1>2, <1>3 DEF Closes, Closing
  <1>4. CASE ~conn[o].closed
    BY <1>1, <1>2, <1>4 DEF ConnInv, Sound, OwnSocket
  <1> QED
    BY <1>3, <1>4

\* The invariant says who watches over a descriptor.
LEMMA ConnInvCovered == ConnInv => IdleCovered
  BY DEF ConnInv, Sound, SocketUsed, Covered, IdleCovered

\* However goroutines, timers and packets interleave, an id that the registry holds
\* leads to its own connection, or to none, or is being closed
\* (conn_manager.go:39-83).
THEOREM RegistryCorrect == Spec => []RegistryExact
  BY ConnInvAlways, ConnInvExact, PTL

\* Whoever holds a descriptor has an idle timer that will close it, or a goroutine
\* that is about to set one or to close it (conn.go:455-477).
THEOREM IdleCorrect == Spec => []IdleCovered
  BY ConnInvAlways, ConnInvCovered, PTL

-----------------------------------------------------------------------------
(* What filtering a list returns. *)

\* Every nonempty set of natural numbers has a least member,
LEMMA LeastMember ==
  ASSUME NEW T, T \subseteq Nat, T # {}
  PROVE  \E n \in T : \A m \in T : n <= m
<1> DEFINE R == OpToRel(<, Nat)
<1>1. IsWellFoundedOn(R, Nat)
  BY NatLessThanWellFounded
<1>2. \A x, y \in Nat : <<y, x>> \in R <=> y < x
  BY DEF OpToRel
<1> HIDE DEF R
<1>3. PICK x \in T : \A y \in T : ~ (<<y, x>> \in R)
  BY <1>1, WFMin
<1>4. \A y \in T : ~ (y < x)
  BY <1>2, <1>3
<1> QED
  BY <1>3, <1>4

\* so that induction over a set needs no operator as a parameter.
LEMMA Induction ==
  ASSUME NEW T, 0 \in T, \A n \in Nat : n \in T => n + 1 \in T
  PROVE  \A n \in Nat : n \in T
<1> DEFINE U == {n \in Nat : n \notin T}
<1>1. CASE U = {}
  BY <1>1
<1>2. CASE U # {}
  <2>1. PICK n \in U : \A m \in U : n <= m
    <3>1. U \subseteq Nat
      OBVIOUS
    <3> HIDE DEF U
    <3> QED
      BY <1>2, <3>1, LeastMember
  <2>2. n # 0 /\ n - 1 \in Nat /\ n - 1 \notin U
    BY <2>1
  <2> QED
    BY <2>1, <2>2
<1> QED
  BY <1>1, <1>2

\* The function that Only defines by recursion, on the first n elements of s.
Kept(f, s, S, n) ==
  f = [i \in 0 .. n |->
        IF i = 0 THEN <<>> ELSE IF s[i] \in S THEN Append(f[i - 1], s[i]) ELSE f[i - 1]]

\* There is such a function.
LEMMA KeptExists ==
  ASSUME NEW s, NEW S
  PROVE  \A n \in Nat : \E f : Kept(f, s, S, n)
<1> DEFINE T == {n \in Nat : \E f : Kept(f, s, S, n)}
<1>1. 0 \in T
  <2> DEFINE f == [i \in 0 .. 0 |-> <<>>]
  <2>1. Kept(f, s, S, 0)
    BY DEF Kept
  <2> QED
    BY <2>1
<1>2. ASSUME NEW n \in Nat, n \in T
      PROVE  n + 1 \in T
  <2>1. PICK f : Kept(f, s, S, n)
    BY <1>2
  <2> DEFINE g == [i \in 0 .. n + 1 |->
                    IF i <= n THEN f[i]
                    ELSE IF s[i] \in S THEN Append(f[n], s[i]) ELSE f[n]]
  <2>2. Kept(g, s, S, n + 1)
    <3>1. \A i \in 0 .. n : g[i] = f[i]
      OBVIOUS
    <3>2. \A i \in 0 .. n : f[i] = IF i = 0 THEN <<>>
                                   ELSE IF s[i] \in S THEN Append(f[i - 1], s[i]) ELSE f[i - 1]
      BY <2>1 DEF Kept
    <3>3. \A i \in 0 .. n : i # 0 => i - 1 \in 0 .. n
      OBVIOUS
    <3>4. g[n + 1] = IF s[n + 1] \in S THEN Append(g[n], s[n + 1]) ELSE g[n]
      BY <3>1
    <3>5. \A i \in 0 .. n + 1 : g[i] = IF i = 0 THEN <<>>
                                   ELSE IF s[i] \in S THEN Append(g[i - 1], s[i]) ELSE g[i - 1]
      <4> TAKE i \in 0 .. n + 1
      <4>1. CASE i = n + 1
        BY <3>4, <4>1
      <4>2. CASE i \in 0 .. n
        <5> HIDE DEF g
        <5> QED
          BY <3>1, <3>2, <3>3, <4>2
      <4> QED
        BY <4>1, <4>2
    <3>6. g = [i \in 0 .. n + 1 |-> g[i]]
      OBVIOUS
    <3> HIDE DEF g
    <3> QED
      BY <3>5, <3>6 DEF Kept
  <2> QED
    BY <2>2
<1>3. \A n \in Nat : n \in T
  <2> HIDE DEF T
  <2> QED
    BY <1>1, <1>2, Induction
<1> QED
  BY <1>3

\* The places of s with an element in S.
PlacesOf(s, S) == {k \in DOMAIN s : s[k] \in S}

\* The elements Only returns are those of s in S, each as often as in s.
LEMMA OnlyKeeps ==
  ASSUME NEW A, NEW s \in Seq(A), NEW S
  PROVE  /\ Only(s, S) \in Seq(A)
         /\ ToSet(Only(s, S)) = ToSet(s) \cap S
         /\ IsInjective(s) => IsInjective(Only(s, S))
         /\ Len(Only(s, S)) = Cardinality(PlacesOf(s, S))
<1>1. PICK g : Kept(g, s, S, Len(s))
  <2>1. Len(s) \in Nat
    OBVIOUS
  <2> QED
    BY <2>1, KeptExists
<1> DEFINE f == CHOOSE f : f = [n \in 0 .. Len(s) |->
              IF n = 0 THEN <<>> ELSE IF s[n] \in S THEN Append(f[n - 1], s[n]) ELSE f[n - 1]]
<1>2. Kept(f, s, S, Len(s))
  BY <1>1 DEF Kept
<1>3. Only(s, S) = f[Len(s)]
  BY DEF Only
<1> HIDE DEF f
<1>4. f[0] = <<>>
  BY <1>2 DEF Kept
<1>5. \A n \in 0 .. Len(s) : n # 0 =>
        f[n] = IF s[n] \in S THEN Append(f[n - 1], s[n]) ELSE f[n - 1]
  BY <1>2 DEF Kept
<1> DEFINE Good(n) == /\ f[n] \in Seq(A)
                      /\ \A x : (\E k \in DOMAIN f[n] : f[n][k] = x)
                                <=> x \in S /\ \E k \in 1 .. n : s[k] = x
                      /\ IsInjective(s) => IsInjective(f[n])
           Places(n) == {k \in 1 .. n : s[k] \in S}
           T == {n \in Nat : n <= Len(s) => Good(n) /\ Len(f[n]) = Cardinality(Places(n))}
<1>6. 0 \in T
  <2>1. f[0] \in Seq(A) /\ DOMAIN f[0] = {}
    BY <1>4
  <2>2. Good(0)
    BY <2>1 DEF IsInjective
  <2>3. Places(0) = {} /\ Len(f[0]) = 0
    BY <1>4
  <2> QED
    BY <2>2, <2>3, FS_EmptySet
<1>7. ASSUME NEW n \in Nat, n \in T
      PROVE  n + 1 \in T
  <2> SUFFICES ASSUME n + 1 <= Len(s)
               PROVE  Good(n + 1) /\ Len(f[n + 1]) = Cardinality(Places(n + 1))
    OBVIOUS
  <2>1. Good(n) /\ Len(f[n]) = Cardinality(Places(n))
    <3>1. n <= Len(s)
      OBVIOUS
    <3>2. n <= Len(s) => Good(n) /\ Len(f[n]) = Cardinality(Places(n))
      <4> HIDE DEF Good, Places
      <4> QED
        BY <1>7
    <3> QED
      BY <3>1, <3>2
  <2>2. n + 1 \in 0 .. Len(s) /\ n + 1 # 0 /\ n + 1 - 1 = n /\ s[n + 1] \in A
    OBVIOUS
  <2>3. f[n + 1] = IF s[n + 1] \in S THEN Append(f[n], s[n + 1]) ELSE f[n]
    BY <1>5, <2>2
  <2>4. CASE s[n + 1] \notin S
    <3>1. Good(n + 1)
      BY <2>1, <2>3, <2>4
    <3>2. Places(n + 1) = Places(n)
      BY <2>4
    <3> HIDE DEF Good, Places
    <3> QED
      BY <2>1, <2>3, <2>4, <3>1, <3>2
  <2>5. CASE s[n + 1] \in S
    <3>0. Len(f[n + 1]) = Cardinality(Places(n + 1))
      <4>1. Places(n + 1) = Places(n) \cup {n + 1} /\ n + 1 \notin Places(n)
        BY <2>5
      <4>2. IsFiniteSet(Places(n))
        <5>1. Places(n) \in SUBSET (1 .. n)
          OBVIOUS
        <5>2. IsFiniteSet(1 .. n)
          BY FS_Interval
        <5> HIDE DEF Places
        <5> QED
          BY <5>1, <5>2, FS_Subset
      <4>3. f[n + 1] = Append(f[n], s[n + 1]) /\ f[n] \in Seq(A)
        BY <2>1, <2>3, <2>5
      <4>4. Len(f[n + 1]) = Len(f[n]) + 1
        BY <2>2, <4>3
      <4> HIDE DEF Places
      <4>5. Cardinality(Places(n + 1)) = Cardinality(Places(n)) + 1
        BY <4>1, <4>2, FS_AddElement
      <4> QED
        BY <2>1, <4>4, <4>5
    <3> DEFINE e == f[n]  h == f[n + 1]
    <3>1. h = Append(e, s[n + 1])
      BY <2>3, <2>5
    <3>2. /\ e \in Seq(A)
          /\ \A x : (\E k \in DOMAIN e : e[k] = x) <=> x \in S /\ \E k \in 1 .. n : s[k] = x
          /\ IsInjective(s) => IsInjective(e)
      BY <2>1
    <3> HIDE DEF e, h
    <3>3. h \in Seq(A) /\ DOMAIN h = 1 .. Len(e) + 1 /\ h[Len(e) + 1] = s[n + 1]
          /\ \A k \in DOMAIN e : h[k] = e[k]
      BY <3>1, <3>2, <2>2
    <3>4. DOMAIN e = 1 .. Len(e) /\ Len(e) \in Nat
      BY <3>2
    <3>5. \A x : (\E k \in DOMAIN h : h[k] = x) <=> x \in S /\ \E k \in 1 .. n + 1 : s[k] = x
      <4> TAKE x
      <4>1. (\E k \in DOMAIN h : h[k] = x) <=> (\E k \in DOMAIN e : e[k] = x) \/ x = s[n + 1]
        BY <3>3, <3>4
      <4>2. (\E k \in 1 .. n + 1 : s[k] = x) <=> (\E k \in 1 .. n : s[k] = x) \/ s[n + 1] = x
        OBVIOUS
      <4> QED
        BY <4>1, <4>2, <3>2, <2>5
    <3>6. ASSUME IsInjective(s)
          PROVE  IsInjective(h)
      <4>1. \A k \in DOMAIN e : e[k] # s[n + 1]
        <5> SUFFICES ASSUME NEW k \in DOMAIN e, e[k] = s[n + 1]
                     PROVE  FALSE
          OBVIOUS
        <5>1. PICK l \in 1 .. n : s[l] = s[n + 1]
          BY <3>2
        <5>2. l \in DOMAIN s /\ n + 1 \in DOMAIN s /\ l # n + 1
          OBVIOUS
        <5> QED
          BY <5>1, <5>2, <3>6 DEF IsInjective
      <4> QED
        BY <4>1, <3>2, <3>3, <3>4, <3>6 DEF IsInjective
    <3> QED
      BY <3>0, <3>3, <3>5, <3>6 DEF h
  <2> QED
    BY <2>4, <2>5
<1>8. Len(s) \in T
  <2>1. Len(s) \in Nat
    OBVIOUS
  <2> HIDE DEF T
  <2> QED
    BY <1>6, <1>7, <2>1, Induction
<1>9. Good(Len(s)) /\ Len(f[Len(s)]) = Cardinality(Places(Len(s)))
  <2> HIDE DEF Good, Places
  <2> QED
    BY <1>8
<1>10. ToSet(f[Len(s)]) = ToSet(s) \cap S
  <2>1. DOMAIN s = 1 .. Len(s)
    OBVIOUS
  <2> QED
    BY <1>9, <2>1 DEF ToSet
<1>11. Places(Len(s)) = PlacesOf(s, S)
  BY DEF PlacesOf
<1>12. Len(Only(s, S)) = Cardinality(PlacesOf(s, S))
  <2> HIDE DEF Good, Places
  <2> QED
    BY <1>3, <1>9, <1>11
<1> QED
  BY <1>3, <1>9, <1>10, <1>12

-----------------------------------------------------------------------------
\* MasterAlone.  What the registry and a login hold.
LoginPCs == {"kick", "add", "online"}

Lists ==
  /\ userConnMap \in [Users -> Seq(Ids)] /\ status = [u \in Users |-> status[u]]
  /\ \A u \in Users : \A i \in ToSet(userConnMap[u]) : i < nextId
  /\ nextId <= MaxId + 1
  /\ \A a \in Actors :
       /\ act[a].pc \in LoginPCs => act[a].login \in Logins /\ act[a].olds \in Seq(Objs)
       /\ act[a].pc \notin LoginPCs => act[a].login = None
  /\ \A o \in Objs : conn[o].uid \in Users \cup {None} /\ conn[o].authed \in BOOLEAN

\* An id leads to its object.
Leads(i, o) == connMap[i] # 0 /\ table[connMap[i]] = o /\ conn[o].id = i

\* Until AddConn an id is in no list and leads nowhere.
Fresh ==
  \A o \in Objs :
    ~conn[o].authed \/ (\E a \in Actors : act[a].pc = "add" /\ act[a].obj = o) =>
      /\ \A u \in Users : conn[o].id \notin ToSet(userConnMap[u])
      /\ conn[o].id \in Ids => connMap[conn[o].id] = 0

\* An object is authenticated by the reactor of its descriptor,
OneOpener == \A o \in Objs, a \in Actors : Opens(a, o) => a = ReactorOf[conn[o].fd]

\* which sets its fields between the loop over oldConns and AddConn.
Fields ==
  \A a \in Actors :
    LET c == conn[act[a].obj]
        l == act[a].login
    IN /\ act[a].pc = "kick" => ~c.authed
       /\ act[a].pc = "add" => c.authed /\ c.uid = l.uid /\ c.flag = l.flag /\ c.master = l.master

\* Logins of one user do not overlap.
OneLogin ==
  \A a, b \in Actors :
    act[a].login # None /\ act[b].login # None /\ act[a].login.uid = act[b].login.uid => a = b

\* A master that logs in will remove every registered connection of its flag, and has
\* when it is to be added.
Rivals ==
  \A a \in Actors : act[a].pc \in {"kick", "add"} /\ act[a].login.master =>
    \A i \in ToSet(userConnMap[act[a].login.uid]), o \in Objs :
      Leads(i, o) /\ conn[o].flag = act[a].login.flag =>
        act[a].pc = "kick" /\ o \in ToSet(act[a].olds)

Masters ==
  \A u \in Users : \A i, j \in ToSet(userConnMap[u]), o, p \in Objs :
    i # j /\ Leads(i, o) /\ Leads(j, p) /\ conn[o].flag = conn[p].flag
      => ~(conn[o].master /\ conn[p].master)

Calm == Fresh /\ OneOpener /\ Fields /\ OneLogin /\ Rivals /\ Masters

\* StatusAgrees.  If no descriptor is handed out again under its closer, the table leads
\* to an object until its closer takes it out, and its descriptor to none from then on.
Beyond(a, o) == act[a].obj = o /\ act[a].pc \in {"onclose", "offline", "release"}
InTable ==
  \A o \in Objs :
    /\ pool[o] = 0 => conn[o].fd \in Fds
    /\ pool[o] = 0 /\ (\A a \in Actors : ~Beyond(a, o)) => table[conn[o].fd] = o
    /\ \A a \in Actors : Beyond(a, o) => table[conn[o].fd] = None

\* A registered id is in the list of its user, once,
Theirs ==
  /\ \A u \in Users : IsInjective(userConnMap[u])
  /\ \A u \in Users : \A i \in ToSet(userConnMap[u]) : connMap[i] # 0 =>
       \A o \in Objs : conn[o].id = i => conn[o].uid = u
  /\ \A o \in Objs : conn[o].authed => conn[o].uid \in Users

\* and oldConns are of the user who logs in, and not yet out of the registry.
Olds ==
  \A a \in Actors : act[a].pc = "kick" =>
    \A o \in ToSet(act[a].olds) :
      /\ conn[o].authed /\ conn[o].uid = act[a].login.uid /\ pool[o] = 0
      /\ \A b \in Actors : act[b].pc \in {"offline", "release"} => act[b].obj # o

\* The connections that a notice counts, once closes are done.
Count(u) == {i \in ToSet(userConnMap[u]) : connMap[i] # 0}

\* Somebody will count the connections of u again.
Recounts(u) ==
  \E a \in Actors :
    \/ Handles(a, u)
    \/ act[a].pc = "onclose" /\ conn[act[a].obj].authed /\ conn[act[a].obj].uid = u
Counted == \A u \in Users : status[u] = Cardinality(Count(u)) \/ Recounts(u)

Clean == InTable /\ Theirs /\ Olds /\ Counted

LoginInv ==
  /\ Lists
  /\ faults \cap {"close", "cross"} = {} => Calm
  /\ faults = {} => Clean

\* GetConnsWithUID and GetConnsWith return the objects the ids lead to.
LEMMA Lookups ==
  ASSUME Lists, Typed, NEW u \in Users, NEW flag
  PROVE  /\ GetConnsWith(u, flag) \in Seq(Objs)
         /\ \A o : o \in ToSet(GetConnsWith(u, flag)) <=>
              /\ o \in Objs /\ conn[o].flag = flag
              /\ \E i \in ToSet(userConnMap[u]) : GetConn(connMap[i]) = o
         /\ Len(GetConnsWithUID(u)) =
              Cardinality({k \in DOMAIN userConnMap[u] : GetConn(connMap[userConnMap[u][k]]) \in Objs})
<1> DEFINE list == userConnMap[u]
           s == [k \in DOMAIN list |-> GetConn(connMap[list[k]])]
           A == {s[k] : k \in DOMAIN list}
           F == {o \in Objs : conn[o].flag = flag}
<1>1. list \in Seq(Ids)
  BY DEF Lists
<1>2. s \in Seq(A) /\ DOMAIN s = DOMAIN list /\ \A k \in DOMAIN list : s[k] = GetConn(connMap[list[k]])
  <2>1. Len(list) \in Nat /\ DOMAIN list = 1 .. Len(list)
    BY <1>1
  <2>2. s \in [1 .. Len(list) -> A]
    BY <2>1
  <2> HIDE DEF s, A
  <2>3. s \in Seq(A)
    BY <2>1, <2>2
  <2> QED
    BY <2>3 DEF s
<1>3. GetConnsWithUID(u) = Only(s, Objs)
  BY DEF GetConnsWithUID
<1>4. GetConnsWith(u, flag) = Only(GetConnsWithUID(u), F)
  BY DEF GetConnsWith
<1>5. ToSet(s) = {GetConn(connMap[i]) : i \in ToSet(list)}
  BY <1>2 DEF ToSet
<1> HIDE DEF s, A, F
<1>6. /\ Only(s, Objs) \in Seq(A) /\ ToSet(Only(s, Objs)) = ToSet(s) \cap Objs
      /\ Len(Only(s, Objs)) = Cardinality(PlacesOf(s, Objs))
  BY <1>2, OnlyKeeps
<1> DEFINE c == GetConnsWithUID(u)
<1>7. c \in Seq(Objs) /\ ToSet(c) = ToSet(s) \cap Objs
  <2>1. c \in Seq(A) /\ ToSet(c) \subseteq Objs /\ ToSet(c) = ToSet(s) \cap Objs
    BY <1>3, <1>6
  <2> HIDE DEF c
  <2> QED
    BY <2>1 DEF ToSet
<1> HIDE DEF c
<1>8. Only(c, F) \in Seq(Objs) /\ ToSet(Only(c, F)) = ToSet(c) \cap F
  BY <1>7, OnlyKeeps
<1>9. PlacesOf(s, Objs) =
        {k \in DOMAIN userConnMap[u] : GetConn(connMap[userConnMap[u][k]]) \in Objs}
  BY <1>2 DEF PlacesOf
<1>10. GetConnsWith(u, flag) = Only(c, F) /\ Len(c) = Cardinality(PlacesOf(s, Objs))
  BY <1>3, <1>4, <1>6 DEF c
<1>11. \A o : o \in ToSet(Only(c, F)) <=>
              /\ o \in Objs /\ conn[o].flag = flag
              /\ \E i \in ToSet(userConnMap[u]) : GetConn(connMap[i]) = o
  BY <1>5, <1>7, <1>8 DEF F
<1> QED
  BY <1>8, <1>9, <1>10, <1>11 DEF c

\* A list of different ids has as many places of registered ids as ids.
LEMMA PlacesCount ==
  ASSUME Lists, NEW u \in Users, IsInjective(userConnMap[u])
  PROVE  Cardinality({k \in DOMAIN userConnMap[u] : connMap[userConnMap[u][k]] # 0})
           = Cardinality(Count(u))
<1> DEFINE list == userConnMap[u]
           K == {k \in DOMAIN list : connMap[list[k]] # 0}
           C == {i \in ToSet(list) : connMap[i] # 0}
           f == [k \in K |-> list[k]]
<1>1. list \in Seq(Ids) /\ DOMAIN list = 1 .. Len(list) /\ Len(list) \in Nat
  BY DEF Lists
<1>2. IsFiniteSet(K)
  <2>1. IsFiniteSet(1 .. Len(list))
    BY <1>1, FS_Interval
  <2>2. K \in SUBSET (1 .. Len(list))
    BY <1>1
  <2> HIDE DEF K
  <2> QED
    BY <2>1, <2>2, FS_Subset
<1>3. f \in Bijection(K, C)
  <2>1. f \in [K -> C]
    BY DEF ToSet
  <2>2. \A a, b \in K : f[a] = f[b] => a = b
    BY DEF IsInjective
  <2>3. \A i \in C : \E k \in K : f[k] = i
    BY DEF ToSet
  <2> QED
    BY <2>1, <2>2, <2>3 DEF Bijection, Injection, Surjection, IsInjective
<1>4. ExistsBijection(K, C)
  BY <1>3 DEF ExistsBijection
<1>5. Cardinality(C) = Cardinality(K)
  <2> HIDE DEF K, C
  <2> QED
    BY <1>2, <1>4, FS_Bijection
<1> QED
  BY <1>5 DEF Count

\* RemoveConnWithID takes ids out of lists; out of one list if the id leads to an object.
LEMMA Removal ==
  ASSUME Lists, NEW id, RemoveConnWithID(id)
  PROVE  /\ userConnMap' \in [Users -> Seq(Ids)]
         /\ \A u \in Users : /\ ToSet(userConnMap'[u]) \subseteq ToSet(userConnMap[u])
                             /\ IsInjective(userConnMap[u]) => IsInjective(userConnMap'[u])
         /\ \A u \in Users : userConnMap'[u] = userConnMap[u] \/
              (id # 0 /\ GetConn(connMap[id]) # None /\ u = conn[GetConn(connMap[id])].uid)
         /\ connMap' = [i \in Ids |-> connMap'[i]]
         /\ \A i \in Ids : connMap'[i] = IF i = id THEN 0 ELSE connMap[i]
<1> DEFINE o == IF id = 0 THEN None ELSE GetConn(connMap[id])
           v == conn[o].uid
           S == Ids \ {conn[o].id}
<1>1. connMap' = [i \in Ids |-> connMap'[i]] /\ \A i \in Ids : connMap'[i] = IF i = id THEN 0 ELSE connMap[i]
  BY DEF RemoveConnWithID
<1>2. userConnMap' = IF o # None /\ v # None THEN [userConnMap EXCEPT ![v] = Only(@, S)] ELSE userConnMap
  BY DEF RemoveConnWithID
<1>3. o # None => id # 0 /\ o = GetConn(connMap[id])
  OBVIOUS
<1>4. userConnMap \in [Users -> Seq(Ids)]
  BY DEF Lists
<1> HIDE DEF o, S
<1>5. \A u \in Users : userConnMap[u] \in Seq(Ids)
  BY <1>4
<1>6. \A u \in Users :
        /\ Only(userConnMap[u], S) \in Seq(Ids)
        /\ ToSet(Only(userConnMap[u], S)) \subseteq ToSet(userConnMap[u])
        /\ IsInjective(userConnMap[u]) => IsInjective(Only(userConnMap[u], S))
  <2> TAKE u \in Users
  <2> DEFINE s == userConnMap[u]
  <2>1. s \in Seq(Ids)
    BY <1>5
  <2> HIDE DEF s
  <2>2. /\ Only(s, S) \in Seq(Ids)
        /\ ToSet(Only(s, S)) = ToSet(s) \cap S
        /\ IsInjective(s) => IsInjective(Only(s, S))
    BY <2>1, OnlyKeeps
  <2> QED
    BY <2>2 DEF s
<1>7. CASE o # None /\ v # None
  <2>1. userConnMap' = [userConnMap EXCEPT ![v] = Only(userConnMap[v], S)]
    BY <1>2, <1>7
  <2>2. \A u \in Users : userConnMap'[u] = IF u = v THEN Only(userConnMap[u], S) ELSE userConnMap[u]
    BY <1>4, <2>1
  <2>3. userConnMap' = [u \in Users |-> userConnMap'[u]]
    BY <1>4, <2>1
  <2>4. userConnMap' \in [Users -> Seq(Ids)]
    BY <1>5, <1>6, <2>2, <2>3
  <2> QED
    BY <1>1, <1>3, <1>6, <1>7, <2>2, <2>4 DEF o
<1>8. CASE ~(o # None /\ v # None)
  <2>1. userConnMap' = userConnMap
    BY <1>2, <1>8
  <2> QED
    BY <1>1, <1>4, <2>1
<1> QED
  BY <1>7, <1>8

-----------------------------------------------------------------------------
\* In the beginning nobody is logged in.
LEMMA InitLogin == Init => LoginInv
<1> SUFFICES ASSUME Init PROVE LoginInv
  OBVIOUS
<1>1. /\ \A a \in Actors : act[a].pc = "idle" /\ act[a].obj = None /\ act[a].login = None
      /\ \A o \in Objs : /\ conn[o].id = 0 /\ conn[o].uid = None /\ conn[o].authed = FALSE
                         /\ pool[o] = 1
      /\ \A i \in Ids : connMap[i] = 0
      /\ userConnMap = [u \in Users |-> <<>>]
      /\ status = [u \in Users |-> 0]
  BY DEF Init, Idle, At, DefaultConn
<1>2. \A u \in Users : /\ userConnMap[u] = <<>> /\ userConnMap[u] \in Seq(Ids)
                       /\ ToSet(userConnMap[u]) = {} /\ IsInjective(userConnMap[u])
                       /\ status[u] = 0
  BY <1>1 DEF ToSet, IsInjective
<1>3. Lists
  <2>1. userConnMap \in [Users -> Seq(Ids)]
    BY <1>1, <1>2
  <2>2. status = [u \in Users |-> status[u]]
    BY <1>1
  <2>3. nextId <= MaxId + 1
    BY ConnConstants DEF Init
  <2> QED
    BY <1>1, <1>2, <2>1, <2>2, <2>3 DEF Lists, LoginPCs
<1>4. Calm
  BY <1>1, <1>2 DEF Calm, Fresh, OneOpener, Fields, OneLogin, Rivals, Masters, Opens, Ids
<1>5. Clean
  <2>1. \A u \in Users : Count(u) = {}
    BY <1>2 DEF Count
  <2>2. Counted
    BY <1>2, <2>1, FS_EmptySet DEF Counted
  <2>3. InTable /\ Theirs /\ Olds
    BY <1>1, <1>2 DEF InTable, Beyond, Theirs, Olds
  <2> QED
    BY <2>2, <2>3 DEF Clean
<1> QED
  BY <1>3, <1>4, <1>5 DEF LoginInv

\* The steps of a goroutine that is not in a login, and not beyond the table in a close.
Before == {"idle", "connected", "close", "mark", "untable"}

\* Goroutine a has the same step, object and packet as before.
Stays(a) == /\ act'[a].pc = act[a].pc /\ act'[a].obj = act[a].obj
            /\ act'[a].login = act[a].login /\ act'[a].olds = act[a].olds

\* Object o is the same connection.
SameConn(o) == /\ conn'[o].id = conn[o].id /\ conn'[o].fd = conn[o].fd /\ conn'[o].uid = conn[o].uid
               /\ conn'[o].flag = conn[o].flag /\ conn'[o].master = conn[o].master
               /\ conn'[o].authed = conn[o].authed

\* Steps that change neither registry nor table.
LEMMA QuietStep ==
  ASSUME ConnInv, LoginInv,
         UNCHANGED <<pool, table, connMap, userConnMap, nextId, status>>,
         faults \subseteq faults',
         \A p \in Objs : SameConn(p),
         \A a \in Actors : Stays(a) \/ (act[a].pc \in Before /\ act'[a].pc \in Before /\ act'[a].login = None)
  PROVE  LoginInv'
<1>0. Typed /\ Lists
  BY DEF ConnInv, LoginInv
<1>1. /\ \A a \in Actors : act'[a].pc \notin Before \/ act[a].pc \notin Before => Stays(a)
      /\ \A a \in Actors : act[a].pc \in Before => act[a].login = None
      /\ \A a \in Actors : act'[a].login = act[a].login
  BY <1>0 DEF Lists, LoginPCs, Before, Stays
<1>2. Lists'
  BY <1>0, <1>1 DEF Lists, LoginPCs, Before, Stays, SameConn
<1>3. \A a \in Actors : act[a].pc \notin Before => act[a].obj \in Objs
  BY <1>0 DEF Typed, Before
<1>4. ASSUME faults' \cap {"close", "cross"} = {}
      PROVE  Calm'
  <2>0. Calm
    BY <1>4 DEF LoginInv
  <2>1. Fresh'
    BY <1>1, <2>0 DEF Calm, Fresh, SameConn, Stays, Before
  <2>2. OneOpener'
    BY <1>1, <2>0 DEF Calm, OneOpener, Opens, SameConn, Stays, Before
  <2>3. Fields'
    BY <1>1, <1>3, <2>0 DEF Calm, Fields, SameConn, Stays, Before
  <2>4. OneLogin'
    BY <1>1, <2>0 DEF Calm, OneLogin
  <2>5. \A i \in Ids, o \in Objs : Leads(i, o)' <=> Leads(i, o)
    BY DEF Leads, SameConn
  <2>6. \A u \in Users : ToSet(userConnMap[u]) \subseteq Ids
    BY <1>0 DEF Lists, ToSet
  <2>8. Rivals'
    <3> SUFFICES ASSUME NEW a \in Actors, act'[a].pc \in {"kick", "add"}, act'[a].login.master,
                        NEW i \in ToSet(userConnMap'[act'[a].login.uid]), NEW o \in Objs,
                        Leads(i, o)', conn'[o].flag = act'[a].login.flag
                 PROVE  act'[a].pc = "kick" /\ o \in ToSet(act'[a].olds)
      BY DEF Rivals
    <3>1. Stays(a)
      BY <1>1 DEF Before
    <3>2. act[a].pc \in {"kick", "add"} /\ act[a].login.master /\ act[a].login.uid \in Users
      BY <1>0, <3>1, ConnConstants DEF Stays, Lists, LoginPCs
    <3>3. i \in ToSet(userConnMap[act[a].login.uid]) /\ Leads(i, o) /\ conn[o].flag = act[a].login.flag
      BY <2>5, <2>6, <3>1, <3>2 DEF Stays, SameConn
    <3>4. act[a].pc = "kick" /\ o \in ToSet(act[a].olds)
      BY <2>0, <3>2, <3>3 DEF Calm, Rivals
    <3> QED
      BY <3>1, <3>4 DEF Stays
  <2>9. Masters'
    BY <2>0, <2>5, <2>6 DEF Calm, Masters, SameConn
  <2> QED
    BY <2>1, <2>2, <2>3, <2>4, <2>8, <2>9 DEF Calm
<1>5. ASSUME faults' = {}
      PROVE  Clean'
  <2>0. Clean
    BY <1>5 DEF LoginInv
  <2>1. \A a \in Actors, o \in Objs : Beyond(a, o)' <=> Beyond(a, o)
    BY <1>1 DEF Beyond, Stays, Before
  <2>2. InTable'
    BY <2>0, <2>1 DEF Clean, InTable, SameConn
  <2>3. Theirs'
    BY <2>0 DEF Clean, Theirs, SameConn
  <2>4. Olds'
    <3>1. \A a \in Actors : act[a].pc = "kick" => ToSet(act[a].olds) \subseteq Objs
      BY <1>0 DEF Lists, LoginPCs, ToSet
    <3> QED
      BY <1>1, <2>0, <3>1 DEF Clean, Olds, SameConn, Stays, Before
  <2>5. \A u \in Users : Recounts(u) => Recounts(u)'
    BY <1>1, <1>3 DEF Recounts, Handles, SameConn, Stays, Before
  <2>6. \A u \in Users : Count(u)' = Count(u)
    BY DEF Count
  <2>7. Counted'
    BY <2>0, <2>5, <2>6 DEF Clean, Counted
  <2> QED
    BY <2>2, <2>3, <2>4, <2>7 DEF Clean
<1> QED
  BY <1>2, <1>4, <1>5 DEF LoginInv

\* Steps before a login and in a close up to the mark keep LoginInv.
LEMMA EarlySteps ==
  ASSUME ConnInv, LoginInv
  PROVE  /\ OnConnect => LoginInv'
         /\ \A r \in Reactors, fd \in Fds : PeerClose(r, fd) => LoginInv'
         /\ \A t \in Timers, o \in Objs : FireKick(t, o) \/ FireIdle(t, o) => LoginInv'
         /\ \A a \in Reactors \cup Timers : CloseCheck(a) \/ CloseMark(a) => LoginInv'
         /\ UNCHANGED vars => LoginInv'
<1>0. Typed /\ ActShape /\ ConnShape /\ Lists
  BY DEF ConnInv, Shape, LoginInv
<1>1. UNCHANGED conn => \A p \in Objs : SameConn(p)
  BY DEF SameConn
<1>2. ASSUME OnConnect
      PROVE  LoginInv'
  <2>1. /\ act' = [act EXCEPT !["acceptor"] = At("idle", None, None, <<>>)]
        /\ act["acceptor"].pc = "connected" /\ "acceptor" \in Actors
        /\ UNCHANGED <<conn, pool, table, connMap, userConnMap, nextId, status, faults>>
    BY <1>2 DEF OnConnect, Idle, tableVars, registry, Actors
  <2>2. /\ act'["acceptor"].pc = "idle" /\ act'["acceptor"].login = None
        /\ \A b \in Actors : b # "acceptor" => Stays(b)
    BY <1>0, <2>1 DEF ActShape, At, Stays
  <2> QED
    BY <1>1, <2>1, <2>2, QuietStep DEF Before
<1>3. ASSUME NEW r \in Reactors, NEW fd \in Fds, PeerClose(r, fd)
      PROVE  LoginInv'
  <2>1. /\ act' = [act EXCEPT ![r] = At("close", table[fd], None, <<>>)]
        /\ act[r].pc = "idle" /\ r \in Actors
        /\ UNCHANGED <<conn, pool, table, connMap, userConnMap, nextId, status, faults>>
    BY <1>3 DEF PeerClose, Readable, tableVars, registry, Actors
  <2>2. /\ act'[r].pc = "close" /\ act'[r].login = None
        /\ \A b \in Actors : b # r => Stays(b)
    BY <1>0, <2>1 DEF ActShape, At, Stays
  <2> QED
    BY <1>1, <2>1, <2>2, QuietStep DEF Before
<1>4. ASSUME NEW t \in Timers, NEW o \in Objs, FireKick(t, o)
      PROVE  LoginInv'
  <2>1. /\ act' = [act EXCEPT ![t] = At("close", o, None, <<>>)]
        /\ act[t].pc = "idle" /\ t \in Actors
        /\ UNCHANGED <<conn, pool, table, connMap, userConnMap, nextId, status, faults>>
    BY <1>4 DEF FireKick, tableVars, registry, Actors
  <2>2. /\ act'[t].pc = "close" /\ act'[t].login = None
        /\ \A b \in Actors : b # t => Stays(b)
    BY <1>0, <2>1 DEF ActShape, At, Stays
  <2> QED
    BY <1>1, <2>1, <2>2, QuietStep DEF Before
<1>5. ASSUME NEW t \in Timers, NEW o \in Objs, FireIdle(t, o)
      PROVE  LoginInv'
  <2>1. /\ act' = act \/ act' = [act EXCEPT ![t] = At("close", o, None, <<>>)]
        /\ act[t].pc = "idle" /\ t \in Actors
        /\ UNCHANGED <<conn, pool, table, connMap, userConnMap, nextId, status, faults>>
    BY <1>5 DEF FireIdle, tableVars, registry, Actors
  <2>2. act' = act => \A b \in Actors : Stays(b)
    BY DEF Stays
  <2>3. act' # act => /\ act'[t].pc = "close" /\ act'[t].login = None
                      /\ \A b \in Actors : b # t => Stays(b)
    BY <1>0, <2>1 DEF ActShape, At, Stays
  <2> QED
    BY <1>1, <2>1, <2>2, <2>3, QuietStep DEF Before
<1>6. ASSUME NEW a \in Reactors \cup Timers, CloseCheck(a)
      PROVE  LoginInv'
  <2>1. /\ \/ act' = [act EXCEPT ![a] = At("idle", None, None, <<>>)]
           \/ act' = [act EXCEPT ![a].pc = "mark"]
        /\ act[a].pc = "close" /\ a \in Actors
        /\ UNCHANGED <<conn, pool, table, connMap, userConnMap, nextId, status>>
        /\ faults \subseteq faults'
    BY <1>6 DEF CloseCheck, Idle, tableVars, registry, Actors
  <2>2. act[a].login = None
    BY <1>0, <2>1 DEF Lists, LoginPCs
  <2>3. /\ act'[a].pc \in {"idle", "mark"} /\ act'[a].login = None
        /\ \A b \in Actors : b # a => Stays(b)
    BY <1>0, <2>1, <2>2 DEF ActShape, At, Stays
  <2> QED
    BY <1>1, <2>1, <2>3, QuietStep DEF Before
<1>7. ASSUME NEW a \in Reactors \cup Timers, CloseMark(a)
      PROVE  LoginInv'
  <2>1. /\ act' = [act EXCEPT ![a].pc = "untable"]
        /\ act[a].pc = "mark" /\ a \in Actors
        /\ conn' = [conn EXCEPT ![act[a].obj].closed = TRUE]
        /\ UNCHANGED <<pool, table, connMap, userConnMap, nextId, status, faults>>
    BY <1>7 DEF CloseMark, Goto, registry, Actors
  <2>2. act[a].login = None
    BY <1>0, <2>1 DEF Lists, LoginPCs
  <2>3. /\ act'[a].pc = "untable" /\ act'[a].login = None
        /\ \A b \in Actors : b # a => Stays(b)
    BY <1>0, <2>1, <2>2 DEF ActShape, At, Stays
  <2>4. \A p \in Objs : SameConn(p)
    BY <1>0, <2>1 DEF ConnShape, SameConn
  <2> QED
    BY <2>1, <2>3, <2>4, QuietStep DEF Before
<1>8. ASSUME UNCHANGED vars
      PROVE  LoginInv'
  <2>1. UNCHANGED <<conn, pool, table, connMap, userConnMap, nextId, status, faults, act>>
    BY <1>8 DEF vars, tableVars, registry
  <2>2. \A b \in Actors : Stays(b)
    BY <2>1 DEF Stays
  <2> QED
    BY <1>1, <2>1, <2>2, QuietStep
<1> QED
  BY <1>2, <1>3, <1>4, <1>5, <1>6, <1>7, <1>8

\* Rivals and Masters stay true when ids only leave the registry and objects that
\* ids lead to keep their fields.
LEMMA LeadsShrink ==
  ASSUME Lists, Calm,
         \A u \in Users : ToSet(userConnMap'[u]) \subseteq ToSet(userConnMap[u]),
         \A u \in Users : \A i \in ToSet(userConnMap'[u]), o \in Objs :
           Leads(i, o)' => Leads(i, o) /\ conn'[o].flag = conn[o].flag /\ conn'[o].master = conn[o].master
  PROVE  /\ Masters'
         /\ (\A a \in Actors : act'[a].pc \in {"kick", "add"} => Stays(a)) => Rivals'
<1>1. Masters'
  <2> SUFFICES ASSUME NEW u \in Users, NEW i \in ToSet(userConnMap'[u]), NEW j \in ToSet(userConnMap'[u]),
                      NEW o \in Objs, NEW p \in Objs,
                      i # j, Leads(i, o)', Leads(j, p)', conn'[o].flag = conn'[p].flag
               PROVE  ~(conn'[o].master /\ conn'[p].master)
    BY DEF Masters
  <2>1. i \in ToSet(userConnMap[u]) /\ j \in ToSet(userConnMap[u])
    OBVIOUS
  <2>2. /\ Leads(i, o) /\ conn'[o].flag = conn[o].flag /\ conn'[o].master = conn[o].master
        /\ Leads(j, p) /\ conn'[p].flag = conn[p].flag /\ conn'[p].master = conn[p].master
    OBVIOUS
  <2>3. Leads(i, o) /\ Leads(j, p) /\ conn[o].flag = conn[p].flag
    BY <2>2
  <2>4. ~(conn[o].master /\ conn[p].master)
    <3>1. Masters
      BY DEF Calm
    <3> QED
      BY <2>1, <2>3, <3>1 DEF Masters
  <2> QED
    BY <2>2, <2>4
<1>2. ASSUME \A a \in Actors : act'[a].pc \in {"kick", "add"} => Stays(a)
      PROVE  Rivals'
  <2> SUFFICES ASSUME NEW a \in Actors, act'[a].pc \in {"kick", "add"}, act'[a].login.master,
                      NEW i \in ToSet(userConnMap'[act'[a].login.uid]), NEW o \in Objs,
                      Leads(i, o)', conn'[o].flag = act'[a].login.flag
               PROVE  act'[a].pc = "kick" /\ o \in ToSet(act'[a].olds)
    BY DEF Rivals
  <2>1. Stays(a)
    BY <1>2
  <2>2. act[a].pc \in {"kick", "add"} /\ act[a].login.master /\ act[a].login.uid \in Users
    BY <2>1, ConnConstants DEF Stays, Lists, LoginPCs
  <2>3. i \in ToSet(userConnMap'[act[a].login.uid])
    BY <2>1 DEF Stays
  <2>4. i \in ToSet(userConnMap[act[a].login.uid]) /\ Leads(i, o) /\ conn[o].flag = act[a].login.flag
    BY <2>1, <2>2, <2>3 DEF Stays
  <2>5. act[a].pc = "kick" /\ o \in ToSet(act[a].olds)
    BY <2>2, <2>4 DEF Calm, Rivals
  <2> QED
    BY <2>1, <2>5 DEF Stays
<1> QED
  BY <1>1, <1>2

\* acceptConn keeps LoginInv: the id is new, and if the descriptor is nobody's who is
\* being closed, the table still leads to everyone else.
LEMMA AcceptLogin ==
  ASSUME ConnInv, LoginInv, Accept
  PROVE  LoginInv'
<1>0. Shape /\ Typed /\ ActShape /\ ConnShape /\ Lists
  BY DEF ConnInv, Shape, LoginInv
<1>1. PICK fd \in Fds, o \in Objs :
        /\ pool[o] > 0 /\ socket[fd] = 0
        /\ pool' = [pool EXCEPT ![o] = @ - 1]
        /\ conn' = [conn EXCEPT ![o] = [id |-> nextId, fd |-> fd, uid |-> None, flag |-> None,
             dev |-> conn[o].dev, master |-> FALSE, authed |-> FALSE, closed |-> FALSE]]
        /\ table' = [table EXCEPT ![fd] = o]
        /\ act' = [act EXCEPT !["acceptor"] = At("connected", o, None, <<>>)]
        /\ faults \subseteq faults'
        /\ faults' = {} => ~Leaving(fd)
  BY DEF Accept
<1>2. /\ act["acceptor"].pc = "idle" /\ nextId <= MaxId /\ nextId' = nextId + 1
      /\ UNCHANGED <<connMap, userConnMap, status>> /\ "acceptor" \in Actors
  BY DEF Accept, registry, Actors
<1>3. /\ act'["acceptor"].pc = "connected" /\ act'["acceptor"].obj = o /\ act'["acceptor"].login = None
      /\ \A b \in Actors : b # "acceptor" => Stays(b)
  <2>1. act' = [act EXCEPT !["acceptor"] = At("connected", o, None, <<>>)]
    BY <1>1
  <2> QED
    BY <1>0, <1>2, <2>1 DEF ActShape, At, Stays
<1>4. /\ conn'[o].id = nextId /\ conn'[o].fd = fd /\ conn'[o].uid = None /\ conn'[o].authed = FALSE
      /\ \A p \in Objs : p # o => conn'[p] = conn[p]
  <2>1. conn' = [conn EXCEPT ![o] = [id |-> nextId, fd |-> fd, uid |-> None, flag |-> None,
             dev |-> conn[o].dev, master |-> FALSE, authed |-> FALSE, closed |-> FALSE]]
    BY <1>1
  <2> QED
    BY <1>0, <2>1 DEF ConnShape
<1>5. /\ \A f \in Fds : table'[f] = IF f = fd THEN o ELSE table[f]
      /\ \A p \in Objs : pool'[p] = IF p = o THEN pool[p] - 1 ELSE pool[p]
      /\ socket[fd] = 0 /\ pool[o] > 0 /\ faults \subseteq faults' /\ (faults' = {} => ~Leaving(fd))
  BY <1>0, <1>1 DEF Shape
<1>6. \A a \in Actors : act'[a].login = act[a].login /\ (act'[a].pc \notin Before => Stays(a) /\ act[a].pc \notin Before)
  BY <1>0, <1>2, <1>3 DEF Lists, LoginPCs, Stays, Before
<1>7. Lists'
  <2>1. \A u \in Users : \A i \in ToSet(userConnMap[u]) : i < nextId + 1
    <3>1. \A u \in Users : ToSet(userConnMap[u]) \subseteq Ids
      BY <1>0 DEF Lists, ToSet
    <3> QED
      BY <1>0, <3>1 DEF Lists, Typed, Ids
  <2>2. \A p \in Objs : conn'[p].uid \in Users \cup {None} /\ conn'[p].authed \in BOOLEAN
    BY <1>0, <1>4 DEF Lists
  <2>3. \A a \in Actors :
       /\ act'[a].pc \in LoginPCs => act'[a].login \in Logins /\ act'[a].olds \in Seq(Objs)
       /\ act'[a].pc \notin LoginPCs => act'[a].login = None
    BY <1>0, <1>3 DEF Lists, LoginPCs, Stays
  <2>4. nextId' <= MaxId + 1
    BY <1>0, <1>2, ConnConstants DEF Typed
  <2> QED
    BY <1>0, <1>2, <2>1, <2>2, <2>3, <2>4 DEF Lists
<1>8. ASSUME "close" \notin faults'
      PROVE  /\ Sound /\ pool[o] = 1 /\ \A a \in Actors : ~Closes(a, o) /\ ~Opens(a, o)
             /\ conn[o].closed
             /\ \A a \in Actors : act'[a].pc \notin Before => act[a].obj # o
  <2>1. Sound
    BY <1>5, <1>8 DEF ConnInv
  <2>2. pool[o] = 1 /\ conn[o].closed /\ \A a \in Actors : ~Closes(a, o) /\ ~Opens(a, o)
    BY <1>5, <2>1 DEF Sound, Custody, OneCloser
  <2>3. \A a \in Actors : act'[a].pc \notin Before => act[a].obj # o
    BY <1>0, <1>6, <2>2 DEF Typed, PCs, Closes, Opens, Before
  <2> QED
    BY <2>1, <2>2, <2>3
<1>9. ASSUME "close" \notin faults'
      PROVE  /\ nextId \in Ids /\ connMap[nextId] = 0
             /\ \A u \in Users : nextId \notin ToSet(userConnMap[u])
  <2>1. nextId \in Ids
    BY <1>0, <1>2, ConnConstants DEF Typed, Ids
  <2>2. \A p \in Objs : conn[p].id # nextId
    BY <1>0 DEF Typed
  <2>3. connMap[nextId] = 0
    BY <1>8, <1>9, <2>1, <2>2 DEF Sound, Registered
  <2>4. \A u \in Users : nextId \notin ToSet(userConnMap[u])
    <3>1. ~(nextId < nextId)
      BY <1>0 DEF Typed
    <3> QED
      BY <1>0, <3>1 DEF Lists
  <2> QED
    BY <2>1, <2>3, <2>4
<1>10. ASSUME faults' \cap {"close", "cross"} = {}
       PROVE  Calm'
  <2>0. Calm
    BY <1>5, <1>10 DEF LoginInv
  <2>a. "close" \notin faults'
    BY <1>10
  <2>1. Fresh'
    BY <1>2, <1>4, <1>6, <1>8, <1>9, <2>a, <2>0 DEF Calm, Fresh, Stays, Before
  <2>2. OneOpener'
    BY <1>4, <1>6, <1>8, <2>a, <2>0 DEF Calm, OneOpener, Opens, Stays, Before
  <2>3. Fields'
    <3>1. \A a \in Actors : act[a].pc \in {"kick", "add"} => act[a].obj \in Objs
      BY <1>0 DEF Typed
    <3> QED
      BY <1>4, <1>6, <1>8, <2>a, <2>0, <3>1 DEF Calm, Fields, Stays, Before
  <2>4. OneLogin'
    BY <1>6, <2>0 DEF Calm, OneLogin
  <2>5. \A u \in Users : \A i \in ToSet(userConnMap'[u]), q \in Objs :
           Leads(i, q)' => Leads(i, q) /\ conn'[q].flag = conn[q].flag /\ conn'[q].master = conn[q].master
    <3> SUFFICES ASSUME NEW u \in Users, NEW i \in ToSet(userConnMap'[u]), NEW q \in Objs, Leads(i, q)'
                 PROVE  Leads(i, q) /\ conn'[q].flag = conn[q].flag /\ conn'[q].master = conn[q].master
      OBVIOUS
    <3>1. i \in ToSet(userConnMap[u]) /\ i \in Ids /\ connMap[i] \in Fds \cup {0}
      BY <1>0, <1>2 DEF Lists, ToSet, Typed
    <3>2. i # nextId
      BY <1>9, <2>a, <3>1
    <3>3. q # o
      BY <1>4, <3>2 DEF Leads
    <3>4. connMap[i] # 0 /\ table'[connMap[i]] = q
      BY <1>2 DEF Leads
    <3>5. connMap[i] \in Fds /\ table[connMap[i]] = q
      BY <1>5, <3>1, <3>3, <3>4
    <3> QED
      BY <1>4, <3>3, <3>4, <3>5 DEF Leads
  <2>6. Masters' /\ Rivals'
    <3>1. \A a \in Actors : act'[a].pc \in {"kick", "add"} => Stays(a)
      BY <1>6 DEF Before
    <3>2. \A u \in Users : ToSet(userConnMap'[u]) \subseteq ToSet(userConnMap[u])
      BY <1>2
    <3> QED
      BY <1>0, <2>0, <2>5, <3>1, <3>2, LeadsShrink
  <2> QED
    BY <2>1, <2>2, <2>3, <2>4, <2>6 DEF Calm
<1>11. ASSUME faults' = {}
       PROVE  Clean'
  <2>0. Clean /\ "close" \notin faults' /\ ~Leaving(fd)
    BY <1>5, <1>11 DEF LoginInv
  <2>1. \A a \in Actors, p \in Objs : Beyond(a, p)' <=> Beyond(a, p)
    BY <1>2, <1>3, <1>6 DEF Beyond, Stays, Before
  <2>2. \A a \in Actors, p \in Objs : Beyond(a, p) => Closes(a, p)
    BY DEF Beyond, Closes
  <2>3. \A p \in Objs, a \in Actors : Closes(a, p) => conn[p].fd # fd
    BY <2>0 DEF Leaving, Closing, Closes
  <2>4. \A p \in Objs : p # o /\ pool[p] = 0 => conn[p].fd # fd
    <3>1. \A p \in Objs : ~conn[p].closed => conn[p].fd # fd
      BY <1>0, <1>5, <1>8, <2>0 DEF Sound, OwnSocket, Typed
    <3> QED
      BY <1>8, <2>0, <2>3, <3>1 DEF Sound, Custody
  <2>5. InTable'
    <3>1. \A p \in Objs : pool'[p] = 0 => conn'[p].fd \in Fds
      BY <1>4, <1>5, <2>0 DEF Clean, InTable
    <3>2. \A p \in Objs : pool'[p] = 0 /\ (\A a \in Actors : ~Beyond(a, p)') => table'[conn'[p].fd] = p
      BY <1>4, <1>5, <2>0, <2>1, <2>4 DEF Clean, InTable
    <3>3. \A p \in Objs, a \in Actors : Beyond(a, p) => p # o /\ pool[p] = 0
      BY <1>8, <2>0, <2>2 DEF Sound, Custody
    <3>4. \A p \in Objs, a \in Actors : Beyond(a, p)' => table'[conn'[p].fd] = None
      BY <1>4, <1>5, <2>0, <2>1, <2>4, <3>3 DEF Clean, InTable
    <3> QED
      BY <3>1, <3>2, <3>4 DEF InTable
  <2>6. Theirs'
    BY <1>2, <1>4, <1>9, <2>0 DEF Clean, Theirs
  <2>7. Olds'
    <3>1. \A a \in Actors : act[a].pc = "kick" => \A p \in ToSet(act[a].olds) : p \in Objs /\ p # o
      <4>1. \A a \in Actors : act[a].pc = "kick" => ToSet(act[a].olds) \subseteq Objs
        BY <1>0 DEF Lists, LoginPCs, ToSet
      <4> QED
        BY <1>5, <2>0, <4>1 DEF Clean, Olds
    <3> QED
      BY <1>4, <1>5, <1>6, <2>0, <3>1 DEF Clean, Olds, Stays, Before
  <2>8. \A u \in Users : Recounts(u) => Recounts(u)'
    <3>1. \A a \in Actors : act[a].pc \in {"offline", "onclose"} => Stays(a) /\ act[a].obj # o /\ act[a].obj \in Objs
      BY <1>0, <1>2, <1>3, <1>8, <2>0 DEF Typed, Closes
    <3> QED
      BY <1>4, <1>6, <3>1 DEF Recounts, Handles, Stays
  <2>9. Counted'
    BY <1>2, <2>0, <2>8 DEF Clean, Counted, Count
  <2> QED
    BY <2>5, <2>6, <2>7, <2>9 DEF Clean
<1> QED
  BY <1>7, <1>10, <1>11 DEF LoginInv

\* Engine.RemoveConn keeps LoginInv: the object leaves the table.
LEMMA CloseUntableLogin ==
  ASSUME ConnInv, LoginInv, NEW a \in Reactors \cup Timers, CloseUntable(a)
  PROVE  LoginInv'
<1>0. Shape /\ Typed /\ ActShape /\ ConnShape /\ Lists
  BY DEF ConnInv, Shape, LoginInv
<1> DEFINE o == act[a].obj
           fd == conn[o].fd
<1>1. /\ a \in Actors /\ act[a].pc = "untable" /\ o \in Objs /\ Closes(a, o) /\ act[a].login = None
      /\ UNCHANGED <<conn, pool, connMap, userConnMap, nextId, status, faults>>
  BY <1>0 DEF CloseUntable, registry, Actors, Typed, Closes, Lists, LoginPCs
<1>2. \A f \in Fds : table'[f] = IF f = fd THEN None ELSE table[f]
  BY DEF CloseUntable
<1>3. /\ act'[a].pc = "onclose" /\ act'[a].obj = o /\ act'[a].login = None
      /\ \A b \in Actors : b # a => Stays(b)
  <2>1. act' = [act EXCEPT ![a].pc = "onclose"]
    BY DEF CloseUntable, Goto
  <2> QED
    BY <1>0, <1>1, <2>1 DEF ActShape, Stays
<1> HIDE DEF o
<1>4. \A b \in Actors : /\ act'[b].login = act[b].login /\ act'[b].obj = act[b].obj
                        /\ act'[b].pc \notin {"untable", "onclose"} \/ act[b].pc \notin {"untable", "onclose"} => Stays(b)
  BY <1>1, <1>3 DEF Stays, o
<1>5. Lists'
  BY <1>0, <1>1, <1>3 DEF Lists, LoginPCs, Stays
<1>6. ASSUME faults' \cap {"close", "cross"} = {}
      PROVE  Calm'
  <2>0. Calm
    BY <1>1, <1>6 DEF LoginInv
  <2>1. Fresh' /\ OneOpener' /\ Fields' /\ OneLogin'
    BY <1>1, <1>4, <2>0 DEF Calm, Fresh, OneOpener, Opens, Fields, OneLogin, Stays
  <2>2. \A u \in Users : \A i \in ToSet(userConnMap'[u]), q \in Objs :
           Leads(i, q)' => Leads(i, q) /\ conn'[q].flag = conn[q].flag /\ conn'[q].master = conn[q].master
    <3>1. \A u \in Users : \A i \in ToSet(userConnMap[u]) : connMap[i] \in Fds \cup {0}
      BY <1>0 DEF Lists, ToSet, Typed
    <3>2. \A f \in Fds, q \in Objs : table'[f] = q => table[f] = q
      BY <1>2, ConnConstants
    <3> SUFFICES ASSUME NEW u \in Users, NEW i \in ToSet(userConnMap'[u]), NEW q \in Objs, Leads(i, q)'
                 PROVE  Leads(i, q)
      BY <1>1
    <3>3. connMap[i] \in Fds /\ table'[connMap[i]] = q /\ conn[q].id = i /\ connMap[i] # 0
      BY <1>1, <3>1 DEF Leads
    <3> QED
      BY <3>2, <3>3 DEF Leads
  <2>3. Masters' /\ Rivals'
    <3>1. \A b \in Actors : act'[b].pc \in {"kick", "add"} => Stays(b)
      BY <1>4
    <3>2. \A u \in Users : ToSet(userConnMap'[u]) \subseteq ToSet(userConnMap[u])
      BY <1>1
    <3> QED
      BY <1>0, <2>0, <2>2, <3>1, <3>2, LeadsShrink
  <2> QED
    BY <2>1, <2>3 DEF Calm
<1>7. ASSUME faults' = {}
      PROVE  Clean'
  <2>0. Clean /\ Sound
    BY <1>1, <1>7 DEF LoginInv, ConnInv
  <2>1. pool[o] = 0 /\ fd \in Fds /\ \A b \in Actors : ~Beyond(b, o)
    <3>1. pool[o] = 0
      BY <1>1, <2>0 DEF Sound, Custody
    <3>2. \A b \in Actors : Closes(b, o) => b = a
      BY <1>1, <2>0 DEF Sound, OneCloser
    <3> QED
      BY <1>1, <2>0, <3>1, <3>2 DEF Clean, InTable, Beyond, Closes
  <2>2. table[fd] = o
    BY <1>1, <2>0, <2>1 DEF Clean, InTable
  <2>3. \A b \in Actors, p \in Objs : Beyond(b, p)' <=> Beyond(b, p) \/ (b = a /\ p = o)
    BY <1>1, <1>3, <1>4 DEF Beyond, Stays
  <2>4. InTable'
    <3>1. \A p \in Objs : pool'[p] = 0 => conn'[p].fd \in Fds
      BY <1>1, <2>0 DEF Clean, InTable
    <3>2. \A p \in Objs : pool'[p] = 0 /\ (\A b \in Actors : ~Beyond(b, p)') => table'[conn'[p].fd] = p
      BY <1>1, <1>2, <2>0, <2>2, <2>3 DEF Clean, InTable
    <3>3. \A p \in Objs, b \in Actors : Beyond(b, p) => pool[p] = 0
      BY <2>0 DEF Sound, Custody, Beyond, Closes
    <3>4. \A p \in Objs, b \in Actors : Beyond(b, p)' => table'[conn'[p].fd] = None
      BY <1>1, <1>2, <2>0, <2>1, <2>3, <3>3 DEF Clean, InTable
    <3> QED
      BY <3>1, <3>2, <3>4 DEF InTable
  <2>5. Theirs'
    BY <1>1, <2>0 DEF Clean, Theirs
  <2>6. Olds'
    BY <1>1, <1>4, <2>0 DEF Clean, Olds, Stays
  <2>7. \A u \in Users : Recounts(u) => Recounts(u)'
    <3>1. \A b \in Actors : act[b].pc \in {"offline", "onclose"} => Stays(b)
      BY <1>1, <1>3
    <3> QED
      BY <1>1, <1>4, <3>1 DEF Recounts, Handles, Stays
  <2>8. Counted'
    BY <1>1, <2>0, <2>7 DEF Clean, Counted, Count
  <2> QED
    BY <2>4, <2>5, <2>6, <2>8 DEF Clean
<1> QED
  BY <1>5, <1>6, <1>7 DEF LoginInv

\* release keeps LoginInv: nobody counts on the object.
LEMMA ReleaseLogin ==
  ASSUME ConnInv, LoginInv, NEW a \in Reactors \cup Timers, Release(a)
  PROVE  LoginInv'
<1>0. Shape /\ Typed /\ ActShape /\ ConnShape /\ Lists
  BY DEF ConnInv, Shape, LoginInv
<1> DEFINE o == act[a].obj
<1>1. /\ a \in Actors /\ act[a].pc = "release" /\ o \in Objs /\ Closes(a, o) /\ act[a].login = None
      /\ UNCHANGED <<table, connMap, userConnMap, nextId, status, faults>>
  BY <1>0 DEF Release, registry, Actors, Typed, Closes, Lists, LoginPCs
<1>2. /\ act'[a].pc = "idle" /\ act'[a].login = None
      /\ \A b \in Actors : b # a => Stays(b)
  <2>1. act' = [act EXCEPT ![a] = Idle]
    BY DEF Release
  <2> QED
    BY <1>0, <1>1, <2>1 DEF ActShape, Stays, Idle, At
<1>3. /\ conn' = [conn EXCEPT ![o].fd = 0]
      /\ pool' = [pool EXCEPT ![o] = @ + 1]
  BY DEF Release
<1> HIDE DEF o
<1>4. /\ conn'[o].id = conn[o].id /\ conn'[o].uid = conn[o].uid /\ conn'[o].authed = conn[o].authed
      /\ conn'[o].flag = conn[o].flag /\ conn'[o].master = conn[o].master
      /\ \A p \in Objs : p # o => conn'[p] = conn[p]
      /\ \A p \in Objs : pool'[p] = IF p = o THEN pool[p] + 1 ELSE pool[p]
  BY <1>0, <1>1, <1>3 DEF ConnShape, Shape
<1>5. \A b \in Actors : /\ act'[b].login = act[b].login
                        /\ act'[b].pc # "idle" => Stays(b) /\ b # a
                        /\ act[b].pc # "release" => Stays(b)
  BY <1>1, <1>2 DEF Stays
<1>6. Lists'
  BY <1>0, <1>1, <1>2, <1>4 DEF Lists, LoginPCs, Stays
<1>7. \A b \in Actors : act[b].pc # "idle" => act[b].obj \in Objs
  BY <1>0 DEF Typed
<1>8. ASSUME faults' \cap {"close", "cross"} = {}
      PROVE  Calm'
  <2>0. Calm /\ Sound
    BY <1>1, <1>8 DEF LoginInv, ConnInv
  <2>1. Fresh' /\ OneLogin'
    BY <1>1, <1>4, <1>5, <2>0 DEF Calm, Fresh, OneLogin, Stays
  <2>2. Fields'
    BY <1>4, <1>5, <1>7, <2>0 DEF Calm, Fields, Stays
  <2>3. OneOpener'
    <3>1. \A b \in Actors : ~Opens(b, o)
      BY <1>1, <2>0 DEF Sound, OneCloser
    <3> QED
      BY <1>4, <1>5, <2>0, <3>1 DEF Calm, OneOpener, Opens, Stays
  <2>4. \A u \in Users : \A i \in ToSet(userConnMap'[u]), q \in Objs :
           Leads(i, q)' => Leads(i, q) /\ conn'[q].flag = conn[q].flag /\ conn'[q].master = conn[q].master
    BY <1>1, <1>4 DEF Leads
  <2>5. Masters' /\ Rivals'
    <3>1. \A b \in Actors : act'[b].pc \in {"kick", "add"} => Stays(b)
      BY <1>5
    <3>2. \A u \in Users : ToSet(userConnMap'[u]) \subseteq ToSet(userConnMap[u])
      BY <1>1
    <3> QED
      BY <1>0, <2>0, <2>4, <3>1, <3>2, LeadsShrink
  <2> QED
    BY <2>1, <2>2, <2>3, <2>5 DEF Calm
<1>9. ASSUME faults' = {}
      PROVE  Clean'
  <2>0. Clean /\ Sound
    BY <1>1, <1>9 DEF LoginInv, ConnInv
  <2>1. pool[o] = 0 /\ pool'[o] = 1 /\ \A b \in Actors : Closes(b, o) => b = a
    BY <1>1, <1>4, <2>0 DEF Sound, Custody, OneCloser
  <2>2. \A b \in Actors, p \in Objs : Beyond(b, p)' <=> Beyond(b, p) /\ p # o
    <3>1. \A b \in Actors : Beyond(b, o) => b = a
      BY <2>1 DEF Beyond, Closes
    <3>2. \A b \in Actors, p \in Objs : Beyond(b, p)' => b # a /\ Beyond(b, p)
      BY <1>5 DEF Beyond, Stays
    <3>3. \A b \in Actors, p \in Objs : Beyond(b, p) /\ p # o => Beyond(b, p)'
      BY <1>2 DEF Beyond, Stays, o
    <3> QED
      BY <3>1, <3>2, <3>3
  <2>3. InTable'
    BY <1>1, <1>4, <2>0, <2>1, <2>2 DEF Clean, InTable
  <2>4. Theirs'
    BY <1>1, <1>4, <2>0 DEF Clean, Theirs
  <2>5. Olds'
    <3>1. \A b \in Actors : act[b].pc = "kick" => \A p \in ToSet(act[b].olds) : p \in Objs /\ p # o
      <4>1. \A b \in Actors : act[b].pc = "kick" => ToSet(act[b].olds) \subseteq Objs
        BY <1>0 DEF Lists, LoginPCs, ToSet
      <4> QED
        BY <1>1, <2>0, <4>1 DEF Clean, Olds, o
    <3> QED
      BY <1>4, <1>5, <2>0, <3>1 DEF Clean, Olds, Stays
  <2>6. \A u \in Users : Recounts(u) => Recounts(u)'
    BY <1>4, <1>5, <1>7 DEF Recounts, Handles, Stays
  <2>7. Counted'
    BY <1>1, <2>0, <2>6 DEF Clean, Counted, Count
  <2> QED
    BY <2>3, <2>4, <2>5, <2>7 DEF Clean
<1> QED
  BY <1>6, <1>8, <1>9 DEF LoginInv

\* Without trouble a registered id leads to its object until the object's closer has
\* taken it out of the table, and to none from then on until it leaves the registry.
LEMMA CleanLeads ==
  ASSUME ConnInv, Sound, Clean, NEW i \in Ids, connMap[i] # 0
  PROVE  /\ connMap[i] \in Fds
         /\ \E q \in Objs :
              /\ conn[q].id = i
              /\ \/ /\ table[connMap[i]] = q /\ pool[q] = 0
                    /\ \A a \in Actors : ~Beyond(a, q)
                 \/ /\ table[connMap[i]] = None
                    /\ \E a \in Actors : act[a].pc = "onclose" /\ act[a].obj = q
<1>1. connMap[i] \in Fds
  BY DEF ConnInv, Typed
<1>2. PICK q \in Objs :
        /\ conn[q].id = i /\ conn[q].fd = connMap[i]
        /\ conn[q].closed => \E a \in Actors : Closes(a, q) /\ act[a].pc \in {"untable", "onclose"}
  BY DEF Sound, Registered
<1>3. CASE \E a \in Actors : act[a].pc = "onclose" /\ act[a].obj = q
  <2>1. table[connMap[i]] = None
    BY <1>2, <1>3 DEF Clean, InTable, Beyond
  <2> QED
    BY <1>1, <1>2, <1>3, <2>1
<1>4. CASE ~\E a \in Actors : act[a].pc = "onclose" /\ act[a].obj = q
  <2>1. \A a \in Actors : ~Beyond(a, q)
    BY <1>2, <1>4 DEF Sound, OneCloser, Closes, Beyond
  <2>2. pool[q] = 0
    <3>1. pool[q] = 1 => conn[q].closed /\ \A a \in Actors : ~Closes(a, q)
      BY DEF Sound, Custody
    <3>2. pool[q] \in {0, 1}
      BY DEF Sound, Custody
    <3> QED
      BY <1>2, <3>1, <3>2
  <2>3. table[connMap[i]] = q
    BY <1>2, <2>1, <2>2 DEF Clean, InTable
  <2> QED
    BY <1>1, <1>2, <2>1, <2>2, <2>3
<1> QED
  BY <1>3, <1>4

\* A listed id that is registered is of an authenticated object.
LEMMA ListedAuthed ==
  ASSUME Calm, NEW u \in Users, NEW i \in ToSet(userConnMap[u]), NEW q \in Objs, conn[q].id = i
  PROVE  conn[q].authed
BY DEF Calm, Fresh

\* The start of an authentication keeps LoginInv: it finds every rival.
LEMMA AuthLookupLogin ==
  ASSUME ConnInv, LoginInv, NEW r \in Reactors, NEW fd \in Fds, NEW l \in Logins, AuthLookup(r, fd, l)
  PROVE  LoginInv'
<1>0. Shape /\ Typed /\ ActShape /\ ConnShape /\ Lists
  BY DEF ConnInv, Shape, LoginInv
<1> DEFINE o == table[fd]
           olds == GetConnsWith(l.uid, l.flag)
<1>1. /\ r \in Actors /\ act[r].pc = "idle" /\ o \in Objs /\ r = ReactorOf[fd] /\ ~conn[o].authed
      /\ UNCHANGED <<conn, pool, table, connMap, userConnMap, nextId, status>>
      /\ faults \subseteq faults'
      /\ "cross" \notin faults' => \A b \in Actors : ~Handles(b, l.uid)
      /\ l.uid \in Users /\ act[r].login = None
  BY <1>0, ConnConstants DEF AuthLookup, Readable, tableVars, registry, Actors, Typed, Lists, LoginPCs
<1>2. act' = [act EXCEPT ![r] = At("kick", o, l, olds)]
  BY DEF AuthLookup
<1>3. o # None /\ o = table[fd]
  BY <1>1, ConnConstants
<1>4. /\ olds \in Seq(Objs)
      /\ \A q : q \in ToSet(olds) <=>
           /\ q \in Objs /\ conn[q].flag = l.flag
           /\ \E i \in ToSet(userConnMap[l.uid]) : GetConn(connMap[i]) = q
  BY <1>0, <1>1, Lookups
<1> HIDE DEF o, olds
<1>5. /\ act'[r].pc = "kick" /\ act'[r].obj = o /\ act'[r].login = l /\ act'[r].olds = olds
      /\ \A b \in Actors : b # r => Stays(b)
  BY <1>0, <1>1, <1>2 DEF ActShape, At, Stays
<1>6. Lists'
  <2>1. \A a \in Actors :
       /\ act'[a].pc \in LoginPCs => act'[a].login \in Logins /\ act'[a].olds \in Seq(Objs)
       /\ act'[a].pc \notin LoginPCs => act'[a].login = None
    BY <1>0, <1>4, <1>5 DEF Lists, LoginPCs, Stays
  <2> QED
    BY <1>0, <1>1, <2>1 DEF Lists
<1>7. ASSUME faults' \cap {"close", "cross"} = {}
      PROVE  Calm'
  <2>0. Calm /\ Sound
    BY <1>1, <1>7 DEF LoginInv, ConnInv
  <2>1. Fresh'
    BY <1>1, <1>5, <2>0 DEF Calm, Fresh, Stays
  <2>2. OneOpener'
    <3>1. conn[o].fd = fd
      BY <1>3, <2>0 DEF Sound, TableLeads
    <3> QED
      BY <1>1, <1>5, <2>0, <3>1 DEF Calm, OneOpener, Opens, Stays
  <2>3. Fields'
    BY <1>1, <1>5, <2>0 DEF Calm, Fields, Stays
  <2>4. OneLogin'
    <3>1. \A b \in Actors : act[b].login # None => act[b].login.uid # l.uid
      BY <1>1, <1>7 DEF Handles
    <3> QED
      BY <1>1, <1>5, <2>0, <3>1 DEF Calm, OneLogin, Stays
  <2>5. \A i, q : Leads(i, q)' <=> Leads(i, q)
    BY <1>1 DEF Leads
  <2>6. Masters'
    BY <1>1, <2>0, <2>5 DEF Calm, Masters
  <2>7. Rivals'
    <3> SUFFICES ASSUME NEW a \in Actors, act'[a].pc \in {"kick", "add"}, act'[a].login.master,
                        NEW i \in ToSet(userConnMap'[act'[a].login.uid]), NEW q \in Objs,
                        Leads(i, q)', conn'[q].flag = act'[a].login.flag
                 PROVE  act'[a].pc = "kick" /\ q \in ToSet(act'[a].olds)
      BY DEF Rivals
    <3>1. CASE a = r
      <4>1. i \in ToSet(userConnMap[l.uid]) /\ conn[q].flag = l.flag /\ Leads(i, q)
        BY <1>1, <1>5, <2>5, <3>1
      <4>2. GetConn(connMap[i]) = q
        BY <4>1 DEF Leads, GetConn
      <4> QED
        BY <1>4, <1>5, <3>1, <4>1, <4>2
    <3>2. CASE a # r
      <4>1. Stays(a)
        BY <1>5, <3>2
      <4> QED
        BY <1>1, <2>0, <2>5, <4>1 DEF Calm, Rivals, Stays
    <3> QED
      BY <3>1, <3>2
  <2> QED
    BY <2>1, <2>2, <2>3, <2>4, <2>6, <2>7 DEF Calm
<1>8. ASSUME faults' = {}
      PROVE  Clean'
  <2>0. Clean /\ Calm /\ Sound
    BY <1>1, <1>8 DEF LoginInv, ConnInv
  <2>1. \A a \in Actors, p \in Objs : Beyond(a, p)' <=> Beyond(a, p)
    BY <1>1, <1>5 DEF Beyond, Stays
  <2>2. InTable' /\ Theirs'
    BY <1>1, <2>0, <2>1 DEF Clean, InTable, Theirs
  <2>3. \A q \in ToSet(olds) :
          /\ q \in Objs /\ conn[q].authed /\ conn[q].uid = l.uid /\ pool[q] = 0
          /\ \A b \in Actors : ~Beyond(b, q)
    <3> TAKE q \in ToSet(olds)
    <3>1. q \in Objs /\ q # None
      BY <1>4, ConnConstants
    <3>2. PICK i \in ToSet(userConnMap[l.uid]) : GetConn(connMap[i]) = q
      BY <1>4
    <3>3. i \in Ids
      BY <1>0, <1>1 DEF Lists, ToSet
    <3>4. connMap[i] # 0 /\ table[connMap[i]] = q
      BY <3>1, <3>2 DEF GetConn
    <3>5. conn[q].id = i /\ pool[q] = 0 /\ \A a \in Actors : ~Beyond(a, q)
      BY <2>0, <3>1, <3>3, <3>4, CleanLeads
    <3>6. conn[q].authed
      BY <1>1, <2>0, <3>1, <3>5, ListedAuthed
    <3>7. conn[q].uid = l.uid
      BY <1>1, <2>0, <3>1, <3>4, <3>5 DEF Clean, Theirs
    <3> QED
      BY <3>1, <3>5, <3>6, <3>7
  <2>4. Olds'
    <3>1. \A b \in Actors : act'[b].pc \in {"offline", "release"} => act[b].pc = act'[b].pc /\ act'[b].obj = act[b].obj
      BY <1>5 DEF Stays
    <3>2. \A q \in ToSet(olds) : \A b \in Actors : act'[b].pc \in {"offline", "release"} => act'[b].obj # q
      BY <2>3, <3>1 DEF Beyond
    <3>3. \A a \in Actors : a # r /\ act'[a].pc = "kick" =>
            \A q \in ToSet(act'[a].olds) :
              /\ conn[q].authed /\ conn[q].uid = act'[a].login.uid /\ pool[q] = 0
              /\ \A b \in Actors : act'[b].pc \in {"offline", "release"} => act'[b].obj # q
      BY <1>5, <2>0, <3>1 DEF Clean, Olds, Stays
    <3> QED
      BY <1>1, <1>5, <2>3, <3>2, <3>3 DEF Olds
  <2>5. \A u \in Users : Recounts(u) => Recounts(u)'
    BY <1>1, <1>5 DEF Recounts, Handles, Stays
  <2>6. Counted'
    BY <1>1, <2>0, <2>5 DEF Clean, Counted, Count
  <2> QED
    BY <2>2, <2>4, <2>6 DEF Clean
<1> QED
  BY <1>6, <1>7, <1>8 DEF LoginInv

\* A turn of the loop over oldConns keeps LoginInv: the connection that it takes out of the
\* registry is no rival any more, and is of the user who logs in.
LEMMA AuthKickLogin ==
  ASSUME ConnInv, LoginInv, NEW r \in Reactors, AuthKick(r)
  PROVE  LoginInv'
<1>0. Shape /\ Typed /\ ActShape /\ ConnShape /\ Lists
  BY DEF ConnInv, Shape, LoginInv
<1> DEFINE olds == act[r].olds
           l == act[r].login
           old == Head(olds)
           id == conn[old].id
           out == l.master \/ conn[old].dev = l.dev
<1>1. /\ r \in Actors /\ act[r].pc = "kick" /\ olds # <<>> /\ l \in Logins /\ olds \in Seq(Objs)
      /\ UNCHANGED <<conn, pool, table, nextId, status, faults>>
  BY <1>0 DEF AuthKick, tableVars, Actors, Lists, LoginPCs
<1>2. act' = [act EXCEPT ![r].olds = Tail(olds)]
  BY DEF AuthKick
<1>3. IF out THEN RemoveConnWithID(id) ELSE UNCHANGED <<connMap, userConnMap>>
  BY DEF AuthKick, registry
<1>4. l.uid \in Users /\ l # None
  BY <1>1, ConnConstants
<1>5. /\ old \in Objs /\ old \in ToSet(olds) /\ Tail(olds) \in Seq(Objs)
      /\ \A q \in ToSet(olds) : q = old \/ q \in ToSet(Tail(olds))
      /\ ToSet(Tail(olds)) \subseteq ToSet(olds)
  <2>1. olds \in Seq(Objs) /\ olds # <<>>
    BY <1>1
  <2> HIDE DEF olds
  <2>2. Len(olds) \in Nat \ {0} /\ DOMAIN olds = 1 .. Len(olds) /\ old = olds[1]
    BY <2>1
  <2>3. /\ Tail(olds) \in Seq(Objs) /\ DOMAIN Tail(olds) = 1 .. Len(olds) - 1
        /\ \A k \in 1 .. Len(olds) - 1 : Tail(olds)[k] = olds[k + 1]
    BY <2>1
  <2>4. old \in Objs /\ old \in ToSet(olds)
    BY <2>1, <2>2 DEF ToSet
  <2>5. \A q \in ToSet(olds) : q = old \/ q \in ToSet(Tail(olds))
    <3> TAKE q \in ToSet(olds)
    <3>1. PICK k \in 1 .. Len(olds) : q = olds[k]
      BY <2>2 DEF ToSet
    <3>2. CASE k = 1
      BY <2>2, <3>1, <3>2
    <3>3. CASE k # 1
      <4>1. k - 1 \in 1 .. Len(olds) - 1 /\ (k - 1) + 1 = k
        BY <2>2, <3>1, <3>3
      <4>2. Tail(olds)[k - 1] = q
        BY <2>3, <3>1, <4>1
      <4> QED
        BY <2>3, <4>1, <4>2 DEF ToSet
    <3> QED
      BY <3>2, <3>3
  <2>6. ToSet(Tail(olds)) \subseteq ToSet(olds)
    <3>1. \A k \in 1 .. Len(olds) - 1 : k + 1 \in 1 .. Len(olds)
      BY <2>2
    <3> QED
      BY <2>2, <2>3, <3>1 DEF ToSet
  <2> QED
    BY <2>3, <2>4, <2>5, <2>6
<1>6. /\ act'[r].pc = "kick" /\ act'[r].obj = act[r].obj
      /\ act'[r].login = l /\ act'[r].olds = Tail(olds)
      /\ \A b \in Actors : b # r => Stays(b)
  BY <1>0, <1>1, <1>2 DEF ActShape, Stays
<1>7. /\ userConnMap' \in [Users -> Seq(Ids)]
      /\ \A u \in Users : /\ ToSet(userConnMap'[u]) \subseteq ToSet(userConnMap[u])
                          /\ IsInjective(userConnMap[u]) => IsInjective(userConnMap'[u])
      /\ \A u \in Users : userConnMap'[u] = userConnMap[u] \/
           (id # 0 /\ GetConn(connMap[id]) # None /\ u = conn[GetConn(connMap[id])].uid)
      /\ \A i \in Ids : connMap'[i] = IF out /\ i = id THEN 0 ELSE connMap[i]
  <2>1. CASE out
    BY <1>0, <1>3, <2>1, Removal
  <2>2. CASE ~out
    BY <1>0, <1>3, <2>2 DEF Lists
  <2> QED
    BY <2>1, <2>2
<1>8. l.master => out
  OBVIOUS
<1>9. \A b \in Actors : act'[b].pc = act[b].pc /\ act'[b].obj = act[b].obj /\ act'[b].login = act[b].login
  BY <1>1, <1>6 DEF Stays
<1> HIDE DEF olds, l, old, id, out
<1>10. \A u \in Users : ToSet(userConnMap[u]) \subseteq Ids
  BY <1>0 DEF Lists, ToSet
<1>11. Lists'
  <2>1. \A a \in Actors :
       /\ act'[a].pc \in LoginPCs => act'[a].login \in Logins /\ act'[a].olds \in Seq(Objs)
       /\ act'[a].pc \notin LoginPCs => act'[a].login = None
    BY <1>0, <1>1, <1>5, <1>6 DEF Lists, LoginPCs, Stays
  <2> QED
    BY <1>0, <1>1, <1>7, <2>1 DEF Lists
<1>12. ASSUME faults' \cap {"close", "cross"} = {}
       PROVE  Calm'
  <2>0. Calm /\ Sound
    BY <1>1, <1>12 DEF LoginInv, ConnInv
  <2>1. Fresh'
    <3> SUFFICES ASSUME NEW p \in Objs,
                        ~conn'[p].authed \/ \E b \in Actors : act'[b].pc = "add" /\ act'[b].obj = p
                 PROVE  /\ \A u \in Users : conn'[p].id \notin ToSet(userConnMap'[u])
                        /\ conn'[p].id \in Ids => connMap'[conn'[p].id] = 0
      BY DEF Fresh
    <3>1. ~conn[p].authed \/ \E b \in Actors : act[b].pc = "add" /\ act[b].obj = p
      BY <1>1, <1>9
    <3>2. /\ \A u \in Users : conn[p].id \notin ToSet(userConnMap[u])
          /\ conn[p].id \in Ids => connMap[conn[p].id] = 0
      BY <2>0, <3>1 DEF Calm, Fresh
    <3>3. \A u \in Users : conn[p].id \notin ToSet(userConnMap'[u])
      BY <1>7, <3>2
    <3>4. conn[p].id \in Ids => connMap'[conn[p].id] = 0
      BY <1>7, <3>2
    <3> QED
      BY <1>1, <3>3, <3>4
  <2>2. OneOpener' /\ Fields' /\ OneLogin'
    BY <1>1, <1>9, <2>0 DEF Calm, OneOpener, Opens, Fields, OneLogin
  <2>3. \A i \in Ids, q \in Objs : Leads(i, q)' => Leads(i, q) /\ connMap'[i] # 0
    BY <1>1, <1>7 DEF Leads
  <2>4. Masters'
    BY <1>0, <1>1, <1>7, <1>10, <2>0, <2>3, LeadsShrink
  <2>5. Rivals'
    <3> SUFFICES ASSUME NEW a \in Actors, act'[a].pc \in {"kick", "add"}, act'[a].login.master,
                        NEW i \in ToSet(userConnMap'[act'[a].login.uid]), NEW q \in Objs,
                        Leads(i, q)', conn'[q].flag = act'[a].login.flag
                 PROVE  act'[a].pc = "kick" /\ q \in ToSet(act'[a].olds)
      BY DEF Rivals
    <3>1. /\ act[a].pc \in {"kick", "add"} /\ act[a].login.master /\ act[a].login.uid \in Users
          /\ conn[q].flag = act[a].login.flag
      BY <1>0, <1>1, <1>9, ConnConstants DEF Lists, LoginPCs
    <3>2. i \in ToSet(userConnMap[act[a].login.uid]) /\ i \in Ids
      BY <1>7, <1>9, <1>10, <3>1
    <3>3. Leads(i, q) /\ connMap'[i] # 0 /\ conn[q].id = i
      BY <2>3, <3>2 DEF Leads
    <3>4. act[a].pc = "kick" /\ q \in ToSet(act[a].olds)
      BY <2>0, <3>1, <3>2, <3>3 DEF Calm, Rivals
    <3>5. CASE a = r
      <4>1. out
        BY <1>8, <3>1, <3>5 DEF l
      <4>2. q # old
        BY <1>7, <3>2, <3>3, <4>1 DEF id
      <4>3. q \in ToSet(olds)
        BY <3>4, <3>5 DEF olds
      <4> QED
        BY <1>5, <1>6, <3>5, <4>2, <4>3
    <3>6. CASE a # r
      BY <1>6, <3>4, <3>6 DEF Stays
    <3> QED
      BY <3>5, <3>6
  <2> QED
    BY <2>1, <2>2, <2>4, <2>5 DEF Calm
<1>13. ASSUME faults' = {}
       PROVE  Clean'
  <2>0. Clean /\ Calm /\ Sound
    BY <1>1, <1>13 DEF LoginInv, ConnInv
  <2>1. conn[old].authed /\ conn[old].uid = l.uid
    BY <1>1, <1>5, <2>0 DEF Clean, Olds, olds, l
  <2>2. id \in 0 .. MaxId
    BY <1>0, <1>5, ConnConstants DEF Typed, Lists, id
  <2>3. InTable'
    <3>1. \A a \in Actors, p \in Objs : Beyond(a, p)' <=> Beyond(a, p)
      BY <1>9 DEF Beyond
    <3> QED
      BY <1>1, <2>0, <3>1 DEF Clean, InTable
  <2>4. Theirs'
    BY <1>1, <1>7, <1>10, <2>0 DEF Clean, Theirs
  <2>5. Olds'
    <3>1. \A a \in Actors : act'[a].pc = "kick" => ToSet(act'[a].olds) \subseteq ToSet(act[a].olds)
      BY <1>5, <1>6 DEF Stays, olds
    <3> SUFFICES ASSUME NEW a \in Actors, act'[a].pc = "kick", NEW q \in ToSet(act'[a].olds)
                 PROVE  /\ conn'[q].authed /\ conn'[q].uid = act'[a].login.uid /\ pool'[q] = 0
                        /\ \A b \in Actors : act'[b].pc \in {"offline", "release"} => act'[b].obj # q
      BY DEF Olds
    <3>2. act[a].pc = "kick" /\ q \in ToSet(act[a].olds)
      BY <1>9, <3>1
    <3>3. /\ conn[q].authed /\ conn[q].uid = act[a].login.uid /\ pool[q] = 0
          /\ \A b \in Actors : act[b].pc \in {"offline", "release"} => act[b].obj # q
      BY <2>0, <3>2 DEF Clean, Olds
    <3> QED
      BY <1>1, <1>9, <3>3
  <2>6. \A u \in Users : Recounts(u) => Recounts(u)'
    BY <1>1, <1>9 DEF Recounts, Handles
  <2>a. PICK w \in Users : w = l.uid
    BY <1>4
  <2>7. Recounts(w)'
    BY <1>1, <1>4, <1>6, <2>a DEF Recounts, Handles
  <2>8. \A u \in Users : u # w => Count(u)' = Count(u)
    <3> SUFFICES ASSUME NEW u \in Users, u # w
                 PROVE  Count(u)' = Count(u)
      OBVIOUS
    <3>0. u # l.uid
      BY <2>a
    <3>1. userConnMap'[u] = userConnMap[u]
      <4> SUFFICES ASSUME id # 0, GetConn(connMap[id]) # None, u = conn[GetConn(connMap[id])].uid
                   PROVE  FALSE
        BY <1>7
      <4>1. id \in Ids /\ connMap[id] # 0 /\ GetConn(connMap[id]) = table[connMap[id]]
        BY <2>2 DEF Ids, GetConn
      <4>2. conn[table[connMap[id]]].id = id /\ table[connMap[id]] \in Objs
        BY <2>0, <4>1, CleanLeads
      <4>3. table[connMap[id]] = old
        BY <1>5, <2>0, <4>2 DEF Sound, OwnId, id
      <4> QED
        BY <2>1, <3>0, <4>1, <4>3
    <3>2. \A i \in ToSet(userConnMap[u]) : connMap'[i] # connMap[i] => FALSE
      <4> SUFFICES ASSUME NEW i \in ToSet(userConnMap[u]), connMap'[i] # connMap[i]
                   PROVE  FALSE
        OBVIOUS
      <4>1. i = id /\ connMap[i] # 0
        BY <1>7, <1>10
      <4>2. conn[old].uid = u
        BY <1>5, <2>0, <4>1 DEF Clean, Theirs, id
      <4> QED
        BY <2>1, <3>0, <4>2
    <3> QED
      BY <3>1, <3>2 DEF Count
  <2>9. Counted'
    BY <1>1, <2>0, <2>6, <2>7, <2>8 DEF Clean, Counted
  <2> QED
    BY <2>3, <2>4, <2>5, <2>9 DEF Clean
<1> QED
  BY <1>11, <1>12, <1>13 DEF LoginInv

\* Setting the fields keeps LoginInv: the connection is not registered yet.
LEMMA AuthSetLogin ==
  ASSUME ConnInv, LoginInv, NEW r \in Reactors, AuthSet(r)
  PROVE  LoginInv'
<1>0. Shape /\ Typed /\ ActShape /\ ConnShape /\ Lists
  BY DEF ConnInv, Shape, LoginInv
<1>1. PICK o \in Objs, l \in Logins : o = act[r].obj /\ l = act[r].login
  BY <1>0 DEF AuthSet, Typed, Lists, LoginPCs, Actors
<1>2. /\ r \in Actors /\ act[r].pc = "kick" /\ act[r].olds = <<>>
      /\ UNCHANGED <<pool, table, connMap, userConnMap, nextId, status, faults>>
      /\ act' = [act EXCEPT ![r].pc = "add"]
  BY DEF AuthSet, registry, Actors, Goto
<1>3. conn' = [conn EXCEPT ![o] = [id |-> conn[o].id, fd |-> conn[o].fd, uid |-> l.uid,
                      flag |-> l.flag, dev |-> l.dev, master |-> l.master, authed |-> TRUE,
                      closed |-> conn[o].closed]]
  BY <1>0, <1>1 DEF AuthSet, ConnShape
<1>4. /\ act'[r].pc = "add" /\ act'[r].obj = o /\ act'[r].login = l
      /\ \A b \in Actors : b # r => Stays(b)
      /\ \A b \in Actors : act'[b].obj = act[b].obj /\ act'[b].login = act[b].login /\ act'[b].olds = act[b].olds
  BY <1>0, <1>1, <1>2 DEF ActShape, Stays
<1>5. /\ conn'[o].uid = l.uid /\ conn'[o].flag = l.flag /\ conn'[o].master = l.master
      /\ conn'[o].authed = TRUE
      /\ \A p \in Objs : conn'[p].id = conn[p].id /\ conn'[p].fd = conn[p].fd
      /\ \A p \in Objs : p # o => conn'[p] = conn[p]
  BY <1>0, <1>3 DEF ConnShape
<1>6. l.uid \in Users
  BY ConnConstants
<1>7. Lists'
  <2>1. \A a \in Actors :
       /\ act'[a].pc \in LoginPCs => act'[a].login \in Logins /\ act'[a].olds \in Seq(Objs)
       /\ act'[a].pc \notin LoginPCs => act'[a].login = None
    BY <1>0, <1>2, <1>4 DEF Lists, LoginPCs, Stays
  <2>2. \A p \in Objs : conn'[p].uid \in Users \cup {None} /\ conn'[p].authed \in BOOLEAN
    <3>1. \A p \in Objs : p # o => conn'[p].uid \in Users \cup {None} /\ conn'[p].authed \in BOOLEAN
      BY <1>0, <1>5 DEF Lists
    <3> QED
      BY <1>5, <1>6, <3>1
  <2> QED
    BY <1>0, <1>2, <2>1, <2>2 DEF Lists
<1>8. \A b \in Actors : act[b].pc # "idle" => act[b].obj \in Objs
  BY <1>0 DEF Typed
<1>9. ASSUME faults' \cap {"close", "cross"} = {}
      PROVE  /\ Calm /\ Sound /\ ~conn[o].authed
             /\ \A u \in Users : conn[o].id \notin ToSet(userConnMap[u])
             /\ \A b \in Actors : Opens(b, o) => b = r
             /\ \A b \in Actors : ~Closes(b, o)
  <2>1. Calm /\ Sound
    BY <1>2, <1>9 DEF LoginInv, ConnInv
  <2>2. Opens(r, o)
    BY <1>1, <1>2 DEF Opens
  <2>3. ~conn[o].authed
    BY <1>1, <1>2, <2>1 DEF Calm, Fields
  <2>4. \A b \in Actors : Opens(b, o) => b = r
    BY <1>2, <2>1, <2>2 DEF Calm, OneOpener
  <2> QED
    BY <1>2, <2>1, <2>2, <2>3, <2>4 DEF Calm, Fresh, Sound, OneCloser
<1>10. ASSUME faults' \cap {"close", "cross"} = {}
       PROVE  Calm'
  <2>1. Fresh'
    <3> SUFFICES ASSUME NEW p \in Objs,
                        ~conn'[p].authed \/ \E a \in Actors : act'[a].pc = "add" /\ act'[a].obj = p
                 PROVE  /\ \A u \in Users : conn'[p].id \notin ToSet(userConnMap'[u])
                        /\ conn'[p].id \in Ids => connMap'[conn'[p].id] = 0
      BY DEF Fresh
    <3>1. ~conn[p].authed \/ \E a \in Actors : act[a].pc = "add" /\ act[a].obj = p
      BY <1>4, <1>5, <1>9, <1>10 DEF Stays
    <3> QED
      BY <1>2, <1>5, <1>9, <1>10, <3>1 DEF Calm, Fresh
  <2>2. OneOpener'
    BY <1>2, <1>4, <1>5, <1>9, <1>10 DEF Calm, OneOpener, Opens, Stays
  <2>3. Fields'
    <3>1. \A b \in Actors : b # r /\ act'[b].pc \in {"kick", "add"} => act[b].obj # o /\ act[b].obj \in Objs /\ Stays(b)
      BY <1>4, <1>8, <1>9, <1>10 DEF Opens, Stays
    <3> QED
      BY <1>4, <1>5, <1>9, <1>10, <3>1 DEF Calm, Fields, Stays
  <2>4. OneLogin'
    BY <1>4, <1>9, <1>10 DEF Calm, OneLogin
  <2>5. \A u \in Users : \A i \in ToSet(userConnMap'[u]), q \in Objs :
           Leads(i, q)' => q # o /\ Leads(i, q) /\ conn'[q] = conn[q]
    BY <1>2, <1>5, <1>9, <1>10 DEF Leads
  <2>6. Masters'
    BY <1>0, <1>2, <1>9, <1>10, <2>5, LeadsShrink
  <2>7. Rivals'
    <3> SUFFICES ASSUME NEW a \in Actors, act'[a].pc \in {"kick", "add"}, act'[a].login.master,
                        NEW i \in ToSet(userConnMap'[act'[a].login.uid]), NEW q \in Objs,
                        Leads(i, q)', conn'[q].flag = act'[a].login.flag
                 PROVE  act'[a].pc = "kick" /\ q \in ToSet(act'[a].olds)
      BY DEF Rivals
    <3>1. act[a].pc \in {"kick", "add"} /\ act[a].login.master /\ act[a].login.uid \in Users
      BY <1>0, <1>2, <1>4, ConnConstants DEF Lists, LoginPCs, Stays
    <3>2. i \in ToSet(userConnMap[act[a].login.uid])
      BY <1>2, <1>4
    <3>3. Leads(i, q) /\ conn[q].flag = act[a].login.flag
      BY <1>2, <1>4, <2>5, <3>1, <3>2
    <3>4. act[a].pc = "kick" /\ q \in ToSet(act[a].olds)
      BY <1>9, <1>10, <3>1, <3>2, <3>3 DEF Calm, Rivals
    <3>5. a # r
      BY <1>2, <3>4 DEF ToSet
    <3> QED
      BY <1>4, <3>4, <3>5 DEF Stays
  <2> QED
    BY <2>1, <2>2, <2>3, <2>4, <2>6, <2>7 DEF Calm
<1>11. ASSUME faults' = {}
       PROVE  Clean'
  <2>0. Clean
    BY <1>2, <1>11 DEF LoginInv
  <2>a. faults' \cap {"close", "cross"} = {}
    BY <1>11
  <2>1. InTable'
    <3>1. \A a \in Actors, p \in Objs : Beyond(a, p)' <=> Beyond(a, p)
      BY <1>2, <1>4 DEF Beyond, Stays
    <3> QED
      BY <1>2, <1>5, <2>0, <3>1 DEF Clean, InTable
  <2>2. Theirs'
    BY <1>2, <1>5, <1>6, <1>9, <2>a, <2>0 DEF Clean, Theirs
  <2>3. Olds'
    <3>1. \A a \in Actors : act[a].pc = "kick" => ToSet(act[a].olds) \subseteq Objs
      BY <1>0 DEF Lists, LoginPCs, ToSet
    <3>2. \A a \in Actors : act'[a].pc = "kick" => Stays(a)
      BY <1>4
    <3>3. \A a \in Actors : act'[a].pc \in {"offline", "release"} => Stays(a)
      BY <1>4
    <3> QED
      BY <1>2, <1>5, <1>9, <2>a, <2>0, <3>1, <3>2, <3>3 DEF Clean, Olds, Stays
  <2>4. \A u \in Users : Recounts(u) => Recounts(u)'
    <3>1. \A b \in Actors : act[b].pc \in {"offline", "onclose"} => Stays(b) /\ act[b].obj # o /\ act[b].obj \in Objs
      BY <1>2, <1>4, <1>8, <1>9, <2>a DEF Closes
    <3> QED
      BY <1>4, <1>5, <3>1 DEF Recounts, Handles, Stays
  <2>5. Counted'
    BY <1>2, <2>0, <2>4 DEF Clean, Counted, Count
  <2> QED
    BY <2>1, <2>2, <2>3, <2>5 DEF Clean
<1> QED
  BY <1>7, <1>10, <1>11 DEF LoginInv

\* ConnManager.AddConn keeps LoginInv: no rival is left of the connection it registers.
LEMMA AddConnLogin ==
  ASSUME ConnInv, LoginInv, "close" \notin faults, NEW r \in Reactors, AddConn(r)
  PROVE  LoginInv'
<1>0. Shape /\ Typed /\ ActShape /\ ConnShape /\ Lists /\ Sound
  BY DEF ConnInv, Shape, LoginInv
<1>1. PICK o \in Objs, l \in Logins : o = act[r].obj /\ l = act[r].login
  BY <1>0 DEF AddConn, Typed, Lists, LoginPCs, Actors
<1>2. /\ r \in Actors /\ act[r].pc = "add"
      /\ UNCHANGED <<conn, pool, table, nextId, status, faults>>
      /\ act' = [act EXCEPT ![r].pc = "online"]
  BY DEF AddConn, tableVars, Actors, Goto
<1>3. PICK v, id : v = conn[o].uid /\ id = conn[o].id
  OBVIOUS
<1>4. /\ \A i \in Ids : connMap'[i] = IF i = id THEN conn[o].fd ELSE connMap[i]
      /\ userConnMap' = IF v = None THEN userConnMap
                        ELSE [userConnMap EXCEPT ![v] = Append(userConnMap[v], id)]
  BY <1>1, <1>3 DEF AddConn
<1>5. /\ act'[r].pc = "online" /\ act'[r].obj = o /\ act'[r].login = l
      /\ \A b \in Actors : b # r => Stays(b)
      /\ \A b \in Actors : act'[b].obj = act[b].obj /\ act'[b].login = act[b].login /\ act'[b].olds = act[b].olds
  BY <1>0, <1>1, <1>2 DEF ActShape, Stays
<1>6. id \in Ids /\ id < nextId /\ l.uid \in Users /\ conn[o].fd \in Fds
  <2>1. ~conn[o].closed
    BY <1>1, <1>2, <1>0 DEF Opens, Sound, OneCloser
  <2>2. id # 0 /\ conn[o].fd \in Fds
    BY <1>0, <1>3, <2>1 DEF Sound, OwnSocket
  <2>3. id \in Nat /\ id < nextId
    BY <1>0, <1>3 DEF Typed
  <2> QED
    BY <1>0, <2>2, <2>3, ConnConstants DEF Typed, Lists, Ids
<1>7. /\ userConnMap' \in [Users -> Seq(Ids)]
      /\ \A u \in Users :
           /\ u # v => userConnMap'[u] = userConnMap[u]
           /\ u = v => userConnMap'[u] = Append(userConnMap[u], id)
           /\ u = v => ToSet(userConnMap'[u]) = ToSet(userConnMap[u]) \cup {id}
  <2>1. userConnMap \in [Users -> Seq(Ids)] /\ None \notin Users
    BY <1>0, ConnConstants DEF Lists
  <2>2. \A u \in Users : u # v => userConnMap'[u] = userConnMap[u]
    BY <1>4, <2>1
  <2>3. \A u \in Users : u = v => userConnMap'[u] = Append(userConnMap[u], id)
    BY <1>4, <2>1
  <2>4. \A u \in Users : userConnMap[u] \in Seq(Ids)
    BY <2>1
  <2>5. \A u \in Users : Append(userConnMap[u], id) \in Seq(Ids)
                         /\ ToSet(Append(userConnMap[u], id)) = ToSet(userConnMap[u]) \cup {id}
    <3> TAKE u \in Users
    <3> DEFINE s == userConnMap[u]
    <3>1. s \in Seq(Ids)
      BY <2>4
    <3> HIDE DEF s
    <3>2. /\ Append(s, id) \in Seq(Ids) /\ DOMAIN Append(s, id) = 1 .. Len(s) + 1
          /\ Append(s, id)[Len(s) + 1] = id /\ \A k \in 1 .. Len(s) : Append(s, id)[k] = s[k]
          /\ DOMAIN s = 1 .. Len(s) /\ Len(s) \in Nat
      BY <1>6, <3>1
    <3>3. ToSet(Append(s, id)) = ToSet(s) \cup {id}
      <4>1. \A x \in ToSet(Append(s, id)) : x \in ToSet(s) \cup {id}
        BY <3>2 DEF ToSet
      <4>2. \A x \in ToSet(s) : x \in ToSet(Append(s, id))
        BY <3>2 DEF ToSet
      <4>3. id \in ToSet(Append(s, id))
        BY <3>2 DEF ToSet
      <4> QED
        BY <4>1, <4>2, <4>3
    <3> QED
      BY <3>2, <3>3 DEF s
  <2>6. userConnMap' = [u \in Users |-> userConnMap'[u]]
    BY <1>4, <2>1
  <2>7. \A u \in Users : userConnMap'[u] \in Seq(Ids)
    BY <2>2, <2>3, <2>4, <2>5
  <2>8. userConnMap' \in [Users -> Seq(Ids)]
    BY <2>6, <2>7
  <2> QED
    BY <2>2, <2>3, <2>5, <2>8
<1>7a. \A u \in Users : \A i : i \in ToSet(userConnMap'[u]) => i = id \/ i \in ToSet(userConnMap[u])
  BY <1>7
<1>7b. \A u \in Users : \A i \in ToSet(userConnMap[u]) : i < nextId
  BY <1>0 DEF Lists
<1>8. Lists'
  <2>1. \A a \in Actors :
       /\ act'[a].pc \in LoginPCs => act'[a].login \in Logins /\ act'[a].olds \in Seq(Objs)
       /\ act'[a].pc \notin LoginPCs => act'[a].login = None
    BY <1>0, <1>2, <1>5 DEF Lists, LoginPCs, Stays
  <2>2. \A u \in Users : \A i \in ToSet(userConnMap'[u]) : i < nextId
    BY <1>6, <1>7a, <1>7b
  <2> QED
    BY <1>0, <1>2, <1>7, <2>1, <2>2 DEF Lists
<1>9. ASSUME faults' \cap {"close", "cross"} = {}
      PROVE  /\ Calm /\ conn[o].authed /\ v = l.uid /\ conn[o].flag = l.flag /\ conn[o].master = l.master
             /\ \A u \in Users : id \notin ToSet(userConnMap[u])
             /\ connMap[id] = 0
             /\ \A b \in Actors : Opens(b, o) => b = r
  <2>1. Calm
    BY <1>2, <1>9 DEF LoginInv
  <2>2. Opens(r, o)
    BY <1>1, <1>2 DEF Opens
  <2>3. \A b \in Actors : Opens(b, o) => b = r
    BY <1>2, <2>1, <2>2 DEF Calm, OneOpener
  <2>4. conn[o].authed /\ v = l.uid /\ conn[o].flag = l.flag /\ conn[o].master = l.master
    BY <1>1, <1>2, <1>3, <2>1 DEF Calm, Fields
  <2> QED
    BY <1>1, <1>2, <1>3, <1>6, <2>1, <2>3, <2>4 DEF Calm, Fresh
<1>10. \A p \in Objs : conn[p].id = id => p = o
  BY <1>0, <1>3, <1>6 DEF Sound, OwnId, Ids
<1>11. ASSUME faults' \cap {"close", "cross"} = {}
       PROVE  Calm'
  <2>0. Calm
    BY <1>9, <1>11
  <2>1. Fresh'
    <3> SUFFICES ASSUME NEW p \in Objs,
                        ~conn'[p].authed \/ \E a \in Actors : act'[a].pc = "add" /\ act'[a].obj = p
                 PROVE  /\ \A u \in Users : conn'[p].id \notin ToSet(userConnMap'[u])
                        /\ conn'[p].id \in Ids => connMap'[conn'[p].id] = 0
      BY DEF Fresh
    <3>1. p # o /\ conn[p].id # id
      BY <1>2, <1>5, <1>9, <1>10, <1>11 DEF Opens, Stays
    <3>2. ~conn[p].authed \/ \E a \in Actors : act[a].pc = "add" /\ act[a].obj = p
      BY <1>2, <1>5 DEF Stays
    <3>3. /\ \A u \in Users : conn[p].id \notin ToSet(userConnMap[u])
          /\ conn[p].id \in Ids => connMap[conn[p].id] = 0
      BY <2>0, <3>2 DEF Calm, Fresh
    <3>4. \A u \in Users : conn[p].id \notin ToSet(userConnMap'[u])
      BY <1>7a, <3>1, <3>3
    <3>5. conn[p].id \in Ids => connMap'[conn[p].id] = 0
      BY <1>4, <3>1, <3>3
    <3> QED
      BY <1>2, <3>4, <3>5
  <2>2. OneOpener' /\ OneLogin'
    BY <1>2, <1>5, <2>0 DEF Calm, OneOpener, Opens, OneLogin, Stays
  <2>3. Fields'
    BY <1>2, <1>5, <2>0 DEF Calm, Fields, Stays
  <2>4. \A u \in Users : \A i \in ToSet(userConnMap'[u]) :
          i \in Ids /\ (i # id => i \in ToSet(userConnMap[u])) /\ (i = id => u = v)
    <3>1. \A u \in Users : ToSet(userConnMap[u]) \subseteq Ids
      BY <1>0 DEF Lists, ToSet
    <3> QED
      BY <1>6, <1>7, <1>9, <1>11, <3>1
  <2>5. \A i \in Ids, q \in Objs : i # id /\ Leads(i, q)' => Leads(i, q)
    BY <1>2, <1>4 DEF Leads
  <2>6. \A q \in Objs : Leads(id, q)' => q = o
    BY <1>2, <1>10 DEF Leads
  <2>7. l.master => \A i \in ToSet(userConnMap[l.uid]), q \in Objs : Leads(i, q) => conn[q].flag # l.flag
    BY <1>1, <1>2, <2>0 DEF Calm, Rivals
  <2>8. Masters'
    <3> SUFFICES ASSUME NEW u \in Users, NEW i \in ToSet(userConnMap'[u]), NEW j \in ToSet(userConnMap'[u]),
                        NEW p \in Objs, NEW q \in Objs,
                        i # j, Leads(i, p)', Leads(j, q)', conn'[p].flag = conn'[q].flag
                 PROVE  ~(conn'[p].master /\ conn'[q].master)
      BY DEF Masters
    <3>1. CASE i = id
      <4>1. u = v /\ p = o /\ j \in ToSet(userConnMap[u]) /\ Leads(j, q)
        BY <2>4, <2>5, <2>6, <3>1
      <4> QED
        BY <1>2, <1>9, <1>11, <2>7, <4>1
    <3>2. CASE j = id
      <4>1. u = v /\ q = o /\ i \in ToSet(userConnMap[u]) /\ Leads(i, p)
        BY <2>4, <2>5, <2>6, <3>2
      <4> QED
        BY <1>2, <1>9, <1>11, <2>7, <4>1
    <3>3. CASE i # id /\ j # id
      <4>1. i \in ToSet(userConnMap[u]) /\ j \in ToSet(userConnMap[u]) /\ Leads(i, p) /\ Leads(j, q)
        BY <2>4, <2>5, <3>3
      <4> QED
        BY <1>2, <2>0, <4>1 DEF Calm, Masters
    <3> QED
      BY <3>1, <3>2, <3>3
  <2>9. Rivals'
    <3> SUFFICES ASSUME NEW a \in Actors, act'[a].pc \in {"kick", "add"}, act'[a].login.master,
                        NEW i \in ToSet(userConnMap'[act'[a].login.uid]), NEW q \in Objs,
                        Leads(i, q)', conn'[q].flag = act'[a].login.flag
                 PROVE  act'[a].pc = "kick" /\ q \in ToSet(act'[a].olds)
      BY DEF Rivals
    <3>1. a # r /\ Stays(a)
      BY <1>5
    <3>2. act[a].pc \in {"kick", "add"} /\ act[a].login.master /\ act[a].login.uid \in Users /\ act[a].login # None
      BY <1>0, <3>1, ConnConstants DEF Lists, LoginPCs, Stays
    <3>3. act[a].login.uid # v
      <4>1. l # None
        BY ConnConstants
      <4> QED
        BY <1>1, <1>2, <1>9, <1>11, <2>0, <3>1, <3>2, <4>1 DEF Calm, OneLogin
    <3>4. i \in ToSet(userConnMap'[act[a].login.uid])
      BY <3>1 DEF Stays
    <3>5. i \in ToSet(userConnMap[act[a].login.uid]) /\ Leads(i, q) /\ conn[q].flag = act[a].login.flag
      BY <1>2, <2>4, <2>5, <3>1, <3>2, <3>3, <3>4 DEF Stays
    <3>6. act[a].pc = "kick" /\ q \in ToSet(act[a].olds)
      BY <2>0, <3>2, <3>5 DEF Calm, Rivals
    <3> QED
      BY <3>1, <3>6 DEF Stays
  <2> QED
    BY <2>1, <2>2, <2>3, <2>8, <2>9 DEF Calm
<1>12. ASSUME faults' = {}
       PROVE  Clean'
  <2>0. Clean
    BY <1>2, <1>12 DEF LoginInv
  <2>a. /\ Calm /\ conn[o].authed /\ v = l.uid /\ v \in Users
        /\ \A u \in Users : id \notin ToSet(userConnMap[u])
    BY <1>6, <1>9, <1>12
  <2>1. InTable'
    <3>1. \A a \in Actors, p \in Objs : Beyond(a, p)' <=> Beyond(a, p)
      BY <1>2, <1>5 DEF Beyond, Stays
    <3> QED
      BY <1>2, <2>0, <3>1 DEF Clean, InTable
  <2>2. Theirs'
    <3>1. \A u \in Users : IsInjective(userConnMap'[u])
      <4> TAKE u \in Users
      <4>1. CASE u = v
        <5> DEFINE s == userConnMap[u]
        <5>1. s \in Seq(Ids) /\ IsInjective(s) /\ id \notin ToSet(s)
          BY <1>0, <2>0, <2>a DEF Lists, Clean, Theirs
        <5>2. userConnMap'[u] = Append(s, id)
          BY <1>7, <4>1
        <5> HIDE DEF s
        <5>3. IsInjective(Append(s, id))
          <6>1. /\ DOMAIN Append(s, id) = 1 .. Len(s) + 1 /\ Append(s, id)[Len(s) + 1] = id
                /\ \A k \in 1 .. Len(s) : Append(s, id)[k] = s[k]
                /\ DOMAIN s = 1 .. Len(s) /\ Len(s) \in Nat
            BY <1>6, <5>1
          <6>2. \A k \in 1 .. Len(s) : s[k] # id
            BY <5>1, <6>1 DEF ToSet
          <6> QED
            BY <5>1, <6>1, <6>2 DEF IsInjective
        <5> QED
          BY <5>2, <5>3
      <4>2. CASE u # v
        BY <1>7, <2>0, <4>2 DEF Clean, Theirs
      <4> QED
        BY <4>1, <4>2
    <3>2. \A u \in Users : \A i \in ToSet(userConnMap'[u]) : connMap'[i] # 0 =>
            \A p \in Objs : conn[p].id = i => conn[p].uid = u
      <4> SUFFICES ASSUME NEW u \in Users, NEW i \in ToSet(userConnMap'[u]), connMap'[i] # 0,
                          NEW p \in Objs, conn[p].id = i
                   PROVE  conn[p].uid = u
        OBVIOUS
      <4>1. CASE i = id
        <5>1. u = v
          BY <1>7, <2>a, <4>1
        <5> QED
          BY <1>3, <1>10, <4>1, <5>1
      <4>2. CASE i # id
        <5>1. i \in ToSet(userConnMap[u])
          BY <1>7, <4>2
        <5>2. i \in Ids
          BY <1>0, <5>1 DEF Lists, ToSet
        <5> QED
          BY <1>4, <2>0, <4>2, <5>1, <5>2 DEF Clean, Theirs
      <4> QED
        BY <4>1, <4>2
    <3> QED
      BY <1>2, <2>0, <3>1, <3>2 DEF Clean, Theirs
  <2>3. Olds'
    <3>1. \A a \in Actors : act'[a].pc = "kick" => Stays(a)
      BY <1>5
    <3>2. \A a \in Actors : act'[a].pc \in {"offline", "release"} => Stays(a)
      BY <1>5
    <3> QED
      BY <1>2, <2>0, <3>1, <3>2 DEF Clean, Olds, Stays
  <2>4. \A u \in Users : Recounts(u) => Recounts(u)'
    BY <1>2, <1>5 DEF Recounts, Handles, Stays
  <2>5. Recounts(v)'
    <3>1. l # None
      BY ConnConstants
    <3> QED
      BY <1>2, <1>5, <2>a, <3>1 DEF Recounts, Handles
  <2>6. \A u \in Users : u # v => Count(u)' = Count(u)
    <3>1. \A u \in Users : \A i \in ToSet(userConnMap[u]) : connMap'[i] = connMap[i]
      <4>1. \A u \in Users : ToSet(userConnMap[u]) \subseteq Ids
        BY <1>0 DEF Lists, ToSet
      <4> QED
        BY <1>4, <2>a, <4>1
    <3> QED
      BY <1>7, <3>1 DEF Count
  <2>7. Counted'
    BY <1>2, <2>0, <2>4, <2>5, <2>6 DEF Clean, Counted
  <2> QED
    BY <2>1, <2>2, <2>3, <2>7 DEF Clean
<1> QED
  BY <1>8, <1>11, <1>12 DEF LoginInv

\* A count of a user's connections finds every registered id of the user's list, unless
\* one of them is on its way out.
LEMMA Recount ==
  ASSUME ConnInv, Sound, Lists, Calm, Clean, NEW u \in Users,
         \A a \in Actors : ~(act[a].pc = "onclose" /\ conn[act[a].obj].authed /\ conn[act[a].obj].uid = u)
  PROVE  Len(GetConnsWithUID(u)) = Cardinality(Count(u))
<1> DEFINE K == {k \in DOMAIN userConnMap[u] : GetConn(connMap[userConnMap[u][k]]) \in Objs}
           M == {k \in DOMAIN userConnMap[u] : connMap[userConnMap[u][k]] # 0}
<1>1. Typed /\ IsInjective(userConnMap[u])
  BY DEF ConnInv, Clean, Theirs
<1>2. Len(GetConnsWithUID(u)) = Cardinality(K)
  BY <1>1, Lookups
<1>3. Cardinality(M) = Cardinality(Count(u))
  BY <1>1, PlacesCount
<1>4. \A i \in ToSet(userConnMap[u]) : GetConn(connMap[i]) \in Objs <=> connMap[i] # 0
  <2> TAKE i \in ToSet(userConnMap[u])
  <2>1. CASE connMap[i] = 0
    BY <2>1, ConnConstants DEF GetConn
  <2>2. CASE connMap[i] # 0
    <3>1. i \in Ids
      BY DEF Lists, ToSet
    <3>2. PICK q \in Objs :
            /\ conn[q].id = i
            /\ \/ table[connMap[i]] = q
               \/ \E a \in Actors : act[a].pc = "onclose" /\ act[a].obj = q
      BY <2>2, <3>1, CleanLeads
    <3>3. conn[q].authed
      BY <3>2, ListedAuthed
    <3>4. conn[q].uid = u
      BY <2>2, <3>2 DEF Clean, Theirs
    <3> QED
      BY <2>2, <3>2, <3>3, <3>4 DEF GetConn
  <2> QED
    BY <2>1, <2>2
<1>5. K = M
  BY <1>4 DEF ToSet
<1> QED
  BY <1>2, <1>3, <1>5

\* A notice keeps LoginInv: its count is right, or will be taken again.
LEMMA NoticeLogin ==
  ASSUME ConnInv, LoginInv, NEW a \in Actors, NEW u,
         UNCHANGED <<conn, pool, table, connMap, userConnMap, nextId, faults>>,
         \A b \in Actors : b # a => Stays(b),
         \/ act[a].pc = "online" /\ u = act[a].login.uid /\ act'[a].pc = "idle"
         \/ act[a].pc = "offline" /\ u = conn[act[a].obj].uid
              /\ act'[a].pc = "release" /\ act'[a].obj = act[a].obj,
         act'[a].login = None,
         status' = [v \in Users |-> IF v = u THEN Len(GetConnsWithUID(u)) ELSE status[v]]
  PROVE  LoginInv'
<1>0. Shape /\ Typed /\ Lists
  BY DEF ConnInv, LoginInv
<1>1. /\ \A b \in Actors : act'[b].pc \notin {"idle", "release"} => Stays(b)
      /\ \A b \in Actors : act'[b].login # None => act'[b].login = act[b].login
      /\ act[a].pc # "online" => act[a].login = None
  BY <1>0 DEF Stays, Lists, LoginPCs
<1>2. \A v \in Users : v # u => status'[v] = status[v]
  OBVIOUS
<1>3. Lists'
  <2>1. \A b \in Actors :
       /\ act'[b].pc \in LoginPCs => act'[b].login \in Logins /\ act'[b].olds \in Seq(Objs)
       /\ act'[b].pc \notin LoginPCs => act'[b].login = None
    BY <1>0 DEF Lists, LoginPCs, Stays
  <2>2. status' = [v \in Users |-> status'[v]]
    OBVIOUS
  <2> QED
    BY <1>0, <2>1, <2>2 DEF Lists
<1>4. ASSUME faults' \cap {"close", "cross"} = {}
      PROVE  Calm'
  <2>0. Calm
    BY <1>4 DEF LoginInv
  <2>1. Fresh' /\ OneLogin'
    BY <1>1, <2>0 DEF Calm, Fresh, OneLogin, Stays
  <2>2. OneOpener' /\ Fields'
    BY <1>1, <2>0 DEF Calm, OneOpener, Opens, Fields, Stays
  <2>3. \A v \in Users : \A i \in ToSet(userConnMap'[v]), q \in Objs :
           Leads(i, q)' => Leads(i, q) /\ conn'[q].flag = conn[q].flag /\ conn'[q].master = conn[q].master
    BY DEF Leads
  <2>4. Masters' /\ Rivals'
    <3>1. \A b \in Actors : act'[b].pc \in {"kick", "add"} => Stays(b)
      BY <1>1
    <3>2. \A v \in Users : ToSet(userConnMap'[v]) \subseteq ToSet(userConnMap[v])
      OBVIOUS
    <3> QED
      BY <1>0, <2>0, <2>3, <3>1, <3>2, LeadsShrink
  <2> QED
    BY <2>1, <2>2, <2>4 DEF Calm
<1>5. ASSUME faults' = {}
      PROVE  Clean'
  <2>0. Clean /\ Calm /\ Sound
    BY <1>5 DEF LoginInv, ConnInv
  <2>1. \A b \in Actors, p \in Objs : Beyond(b, p)' <=> Beyond(b, p)
    BY DEF Beyond, Stays
  <2>2. InTable' /\ Theirs'
    BY <2>0, <2>1 DEF Clean, InTable, Theirs
  <2>3. Olds'
    <3>1. \A b \in Actors : act'[b].pc \in {"offline", "release"} =>
             act[b].pc \in {"offline", "release"} /\ act'[b].obj = act[b].obj
      BY DEF Stays
    <3>2. \A b \in Actors : act'[b].pc = "kick" => Stays(b)
      BY <1>1
    <3> QED
      BY <2>0, <3>1, <3>2 DEF Clean, Olds, Stays
  <2>4. \A v \in Users : v # u /\ Recounts(v) => Recounts(v)'
    BY <1>1 DEF Recounts, Handles, Stays
  <2>5. u \in Users => status'[u] = Cardinality(Count(u)) \/ Recounts(u)'
    <3>1. CASE \E b \in Actors : act[b].pc = "onclose" /\ conn[act[b].obj].authed /\ conn[act[b].obj].uid = u
      <4>1. PICK b \in Actors : act[b].pc = "onclose" /\ conn[act[b].obj].authed /\ conn[act[b].obj].uid = u
        BY <3>1
      <4>2. Stays(b)
        BY <4>1
      <4> QED
        BY <4>1, <4>2 DEF Recounts, Stays
    <3>2. CASE ~\E b \in Actors : act[b].pc = "onclose" /\ conn[act[b].obj].authed /\ conn[act[b].obj].uid = u
      <4>1. u \in Users => Len(GetConnsWithUID(u)) = Cardinality(Count(u))
        BY <1>0, <2>0, <3>2, Recount
      <4> QED
        BY <4>1
    <3> QED
      BY <3>1, <3>2
  <2>6. \A v \in Users : Count(v)' = Count(v)
    BY DEF Count
  <2>7. Counted'
    BY <1>2, <2>0, <2>4, <2>5, <2>6 DEF Clean, Counted
  <2> QED
    BY <2>2, <2>3, <2>7 DEF Clean
<1> QED
  BY <1>3, <1>4, <1>5 DEF LoginInv

\* webhook.Online keeps LoginInv.
LEMMA OnlineLogin ==
  ASSUME ConnInv, LoginInv, NEW r \in Reactors, Online(r)
  PROVE  LoginInv'
<1>0. ActShape /\ Lists
  BY DEF ConnInv, Shape, LoginInv
<1>1. PICK u : u = act[r].login.uid
  OBVIOUS
<1>2. PICK n : n = Len(GetConnsWithUID(u))
  OBVIOUS
<1>3. /\ r \in Actors /\ act[r].pc = "online"
      /\ UNCHANGED <<conn, pool, table, connMap, userConnMap, nextId, faults>>
      /\ act' = [act EXCEPT ![r] = Idle]
      /\ status' = [status EXCEPT ![u] = n]
  BY <1>1, <1>2 DEF Online, tableVars, registry, Actors
<1>4. /\ act'[r].pc = "idle" /\ act'[r].login = None
      /\ \A b \in Actors : b # r => Stays(b)
  BY <1>0, <1>3 DEF ActShape, Stays, Idle, At
<1>5. status' = [v \in Users |-> IF v = u THEN n ELSE status[v]]
  BY <1>0, <1>3 DEF Lists
<1>6. status' = [v \in Users |-> IF v = u THEN Len(GetConnsWithUID(u)) ELSE status[v]]
  BY <1>2, <1>5
<1>7. \/ act[r].pc = "online" /\ u = act[r].login.uid /\ act'[r].pc = "idle"
      \/ act[r].pc = "offline" /\ u = conn[act[r].obj].uid
           /\ act'[r].pc = "release" /\ act'[r].obj = act[r].obj
  BY <1>1, <1>3, <1>4
<1> QED
  BY <1>3, <1>4, <1>6, <1>7, NoticeLogin

\* webhook.Offline keeps LoginInv.
LEMMA OfflineLogin ==
  ASSUME ConnInv, LoginInv, NEW a \in Reactors \cup Timers, Offline(a)
  PROVE  LoginInv'
<1>0. ActShape /\ Lists
  BY DEF ConnInv, Shape, LoginInv
<1>1. PICK u : u = conn[act[a].obj].uid
  OBVIOUS
<1>2. PICK n : n = Len(GetConnsWithUID(u))
  OBVIOUS
<1>3. /\ a \in Actors /\ act[a].pc = "offline"
      /\ UNCHANGED <<conn, pool, table, connMap, userConnMap, nextId, faults>>
      /\ act' = [act EXCEPT ![a].pc = "release"]
      /\ status' = IF u = None THEN status ELSE [status EXCEPT ![u] = n]
  BY <1>1, <1>2 DEF Offline, tableVars, registry, Actors, Goto
<1>4. /\ act'[a].pc = "release" /\ act'[a].login = act[a].login /\ act'[a].obj = act[a].obj
      /\ \A b \in Actors : b # a => Stays(b)
  BY <1>0, <1>3 DEF ActShape, Stays
<1>5. act[a].login = None
  BY <1>0, <1>3 DEF Lists, LoginPCs
<1>6. status' = [v \in Users |-> IF v = u THEN n ELSE status[v]]
  BY <1>0, <1>3, ConnConstants DEF Lists
<1> QED
  BY <1>1, <1>2, <1>3, <1>4, <1>5, <1>6, NoticeLogin

\* RemoveConn by a closer keeps LoginInv: the closer will count again.
LEMMA CloseRemoveLogin ==
  ASSUME ConnInv, LoginInv, NEW a \in Reactors \cup Timers, CloseRemove(a)
  PROVE  LoginInv'
<1>0. Shape /\ Typed /\ ActShape /\ Lists
  BY DEF ConnInv, Shape, LoginInv
<1>1. PICK o \in Objs : o = act[a].obj
  BY <1>0 DEF CloseRemove, Typed, Actors
<1>2. PICK id, v, pc : /\ id = conn[o].id /\ v = conn[o].uid
                       /\ pc = IF conn[o].authed /\ v # None THEN "offline" ELSE "release"
  OBVIOUS
<1>3. /\ a \in Actors /\ act[a].pc = "onclose" /\ act[a].login = None
      /\ RemoveConnWithID(id)
      /\ act' = [act EXCEPT ![a].pc = pc]
      /\ UNCHANGED <<conn, pool, table, nextId, status>>
      /\ faults \subseteq faults'
      /\ "cross" \notin faults' => \A b \in Actors \ {a} : ~Handles(b, v)
  BY <1>0, <1>1, <1>2 DEF CloseRemove, tableVars, Actors, Goto, Lists, LoginPCs
<1>4. /\ act'[a].pc = pc /\ act'[a].obj = o /\ act'[a].login = None
      /\ \A b \in Actors : b # a => Stays(b)
  BY <1>0, <1>1, <1>3 DEF ActShape, Stays
<1>5. /\ userConnMap' \in [Users -> Seq(Ids)]
      /\ \A u \in Users : /\ ToSet(userConnMap'[u]) \subseteq ToSet(userConnMap[u])
                          /\ IsInjective(userConnMap[u]) => IsInjective(userConnMap'[u])
      /\ \A u \in Users : userConnMap'[u] = userConnMap[u] \/ (id # 0 /\ GetConn(connMap[id]) # None)
      /\ \A i \in Ids : connMap'[i] = IF i = id THEN 0 ELSE connMap[i]
  BY <1>0, <1>3, Removal
<1>6. \A u \in Users : ToSet(userConnMap[u]) \subseteq Ids
  BY <1>0 DEF Lists, ToSet
<1>7. id = 0 \/ id \in Ids
  BY <1>0, <1>2, ConnConstants DEF Typed, Lists, Ids
<1>8. pc \in {"offline", "release"}
  BY <1>2
<1>9. \A b \in Actors : /\ act'[b].login = act[b].login /\ act'[b].obj = act[b].obj
                        /\ act'[b].pc \notin {"offline", "release"} => Stays(b)
                        /\ act[b].pc # "onclose" => Stays(b)
  BY <1>1, <1>3, <1>4, <1>8 DEF Stays
<1>10. Lists'
  <2>1. \A b \in Actors :
       /\ act'[b].pc \in LoginPCs => act'[b].login \in Logins /\ act'[b].olds \in Seq(Objs)
       /\ act'[b].pc \notin LoginPCs => act'[b].login = None
    BY <1>0, <1>4, <1>8 DEF Lists, LoginPCs, Stays
  <2>2. \A u \in Users : \A i \in ToSet(userConnMap'[u]) : i < nextId
    BY <1>0, <1>5 DEF Lists
  <2> QED
    BY <1>0, <1>3, <1>5, <2>1, <2>2 DEF Lists
<1>11. ASSUME faults' \cap {"close", "cross"} = {}
       PROVE  Calm'
  <2>0. Calm
    BY <1>3, <1>11 DEF LoginInv
  <2>1. Fresh'
    <3> SUFFICES ASSUME NEW p \in Objs,
                        ~conn'[p].authed \/ \E b \in Actors : act'[b].pc = "add" /\ act'[b].obj = p
                 PROVE  /\ \A u \in Users : conn'[p].id \notin ToSet(userConnMap'[u])
                        /\ conn'[p].id \in Ids => connMap'[conn'[p].id] = 0
      BY DEF Fresh
    <3>1. ~conn[p].authed \/ \E b \in Actors : act[b].pc = "add" /\ act[b].obj = p
      BY <1>3, <1>9 DEF Stays
    <3>2. /\ \A u \in Users : conn[p].id \notin ToSet(userConnMap[u])
          /\ conn[p].id \in Ids => connMap[conn[p].id] = 0
      BY <2>0, <3>1 DEF Calm, Fresh
    <3> QED
      BY <1>3, <1>5, <3>2
  <2>2. OneOpener' /\ OneLogin'
    BY <1>3, <1>9, <2>0 DEF Calm, OneOpener, Opens, OneLogin, Stays
  <2>3. Fields'
    BY <1>3, <1>9, <2>0 DEF Calm, Fields, Stays
  <2>4. \A u \in Users : \A i \in ToSet(userConnMap'[u]), q \in Objs :
           Leads(i, q)' => Leads(i, q) /\ conn'[q].flag = conn[q].flag /\ conn'[q].master = conn[q].master
    <3>1. \A u \in Users : \A i \in ToSet(userConnMap'[u]) : i \in Ids
      BY <1>5, <1>6
    <3>2. \A i \in Ids, q \in Objs : Leads(i, q)' => Leads(i, q)
      BY <1>3, <1>5 DEF Leads
    <3> QED
      BY <1>3, <3>1, <3>2
  <2>5. Masters' /\ Rivals'
    <3>1. \A b \in Actors : act'[b].pc \in {"kick", "add"} => Stays(b)
      BY <1>9
    <3> QED
      BY <1>0, <1>5, <2>0, <2>4, <3>1, LeadsShrink
  <2> QED
    BY <2>1, <2>2, <2>3, <2>5 DEF Calm
<1>12. ASSUME faults' = {}
       PROVE  Clean'
  <2>0. Clean /\ Calm /\ Sound
    BY <1>3, <1>12 DEF LoginInv, ConnInv
  <2>1. InTable'
    <3>1. \A b \in Actors, p \in Objs : Beyond(b, p)' <=> Beyond(b, p)
      BY <1>1, <1>3, <1>4, <1>8 DEF Beyond, Stays
    <3> QED
      BY <1>3, <2>0, <3>1 DEF Clean, InTable
  <2>2. Theirs'
    <3>1. \A u \in Users : \A i \in ToSet(userConnMap'[u]) : connMap'[i] # 0 =>
            i \in ToSet(userConnMap[u]) /\ connMap[i] # 0
      BY <1>5, <1>6
    <3> QED
      BY <1>3, <1>5, <2>0, <3>1 DEF Clean, Theirs
  <2>3. Olds'
    <3>1. \A b \in Actors : act[b].pc = "kick" => o \notin ToSet(act[b].olds)
      <4> SUFFICES ASSUME NEW b \in Actors, act[b].pc = "kick", o \in ToSet(act[b].olds)
                   PROVE  FALSE
        OBVIOUS
      <4>1. b # a /\ conn[o].uid = act[b].login.uid
        BY <1>3, <2>0 DEF Clean, Olds
      <4>2. act[b].login # None
        BY <1>0, ConnConstants DEF Lists, LoginPCs
      <4> QED
        BY <1>2, <1>3, <1>12, <4>1, <4>2 DEF Handles
    <3>2. \A b \in Actors : act'[b].pc = "kick" => Stays(b)
      BY <1>9
    <3>3. \A b \in Actors : act'[b].pc \in {"offline", "release"} =>
            act'[b].obj = o \/ (act[b].pc \in {"offline", "release"} /\ act'[b].obj = act[b].obj)
      BY <1>4 DEF Stays
    <3> QED
      BY <1>3, <2>0, <3>1, <3>2, <3>3 DEF Clean, Olds, Stays
  <2>4. \A u \in Users : userConnMap'[u] = userConnMap[u]
    <3>1. CASE id # 0 /\ connMap[id] # 0
      <4>1. id \in Ids
        BY <1>7, <3>1
      <4>2. PICK q \in Objs : conn[q].id = id /\ ((\A b \in Actors : ~Beyond(b, q)) \/ table[connMap[id]] = None)
        BY <2>0, <3>1, <4>1, CleanLeads
      <4>3. q = o
        BY <1>2, <2>0, <3>1, <4>2 DEF Sound, OwnId
      <4>4. Beyond(a, o)
        BY <1>1, <1>3 DEF Beyond
      <4> QED
        BY <1>3, <1>5, <3>1, <4>2, <4>3, <4>4 DEF GetConn
    <3>2. CASE ~(id # 0 /\ connMap[id] # 0)
      BY <1>5, <3>2 DEF GetConn
    <3> QED
      BY <3>1, <3>2
  <2>5. \A u \in Users : id \in Count(u) => u = v /\ conn[o].authed
    <3> SUFFICES ASSUME NEW u \in Users, id \in Count(u)
                 PROVE  u = v /\ conn[o].authed
      OBVIOUS
    <3>1. id \in ToSet(userConnMap[u]) /\ connMap[id] # 0
      BY DEF Count
    <3>2. conn[o].authed
      BY <1>2, <2>0, <3>1, ListedAuthed
    <3> QED
      BY <1>2, <2>0, <3>1, <3>2 DEF Clean, Theirs
  <2>6. \A u \in Users : id \notin Count(u) => Count(u)' = Count(u)
    BY <1>5, <1>6, <2>4 DEF Count
  <2>7. \A u \in Users : u = v /\ conn[o].authed => Recounts(u)'
    <3> SUFFICES ASSUME NEW u \in Users, u = v, conn[o].authed
                 PROVE  Recounts(u)'
      OBVIOUS
    <3>1. pc = "offline"
      BY <1>2, ConnConstants
    <3> QED
      BY <1>2, <1>3, <1>4, <3>1 DEF Recounts, Handles
  <2>8. \A u \in Users : Recounts(u) => Recounts(u)'
    <3> SUFFICES ASSUME NEW u \in Users, Recounts(u)
                 PROVE  Recounts(u)'
      OBVIOUS
    <3>1. PICK b \in Actors : \/ Handles(b, u)
                              \/ act[b].pc = "onclose" /\ conn[act[b].obj].authed /\ conn[act[b].obj].uid = u
      BY DEF Recounts
    <3>2. CASE b = a
      BY <1>1, <1>2, <1>3, <2>7, <3>1, <3>2 DEF Handles
    <3>3. CASE b # a
      <4>1. Stays(b)
        BY <1>4, <3>3
      <4> QED
        BY <1>3, <3>1, <4>1 DEF Recounts, Handles, Stays
    <3> QED
      BY <3>2, <3>3
  <2>9. Counted'
    BY <1>3, <2>0, <2>5, <2>6, <2>7, <2>8 DEF Clean, Counted
  <2> QED
    BY <2>1, <2>2, <2>3, <2>9 DEF Clean
<1> QED
  BY <1>10, <1>11, <1>12 DEF LoginInv

-----------------------------------------------------------------------------
\* While no object is closed twice at a time or during its authentication, LoginInv holds.
LoginInvUnless == "close" \notin faults => LoginInv

\* Every step keeps it, and no step takes a race out of the history.
LEMMA NextLogin ==
  ASSUME ConnInv, LoginInvUnless, [Next]_vars
  PROVE  LoginInvUnless'
<1> SUFFICES ASSUME "close" \notin faults'
             PROVE  LoginInv'
  BY DEF LoginInvUnless
<1>1. faults \subseteq faults'
  <2>1. CASE UNCHANGED vars
    BY <2>1 DEF vars
  <2>2. CASE Next
    BY <2>2 DEF Next, Auth, Close, Accept, OnConnect, PeerClose, AuthLookup, AuthKick, AuthSet,
       AddConn, Online, FireKick, FireIdle, CloseCheck, CloseMark, CloseUntable, CloseRemove,
       Offline, Release
  <2> QED
    BY <2>1, <2>2
<1>2. "close" \notin faults /\ LoginInv
  BY <1>1 DEF LoginInvUnless
<1>3. CASE UNCHANGED vars
  BY <1>2, <1>3, EarlySteps
<1>4. CASE Next
  BY <1>2, <1>4, EarlySteps, AcceptLogin, AuthLookupLogin, AuthKickLogin, AuthSetLogin,
     AddConnLogin, OnlineLogin, CloseUntableLogin, CloseRemoveLogin, OfflineLogin, ReleaseLogin
     DEF Next, Auth, Close
<1> QED
  BY <1>3, <1>4

\* It holds in every state of every behaviour.
LEMMA LoginInvAlways == Spec => []LoginInvUnless
<1>1. Init => LoginInvUnless
  BY InitLogin DEF LoginInvUnless
<1> QED
  BY <1>1, ConnInvAlways, NextLogin, PTL DEF Spec

\* The invariant says who is master.
LEMMA LoginInvMaster == ConnInv /\ LoginInvUnless => MasterAlone
<1> SUFFICES ASSUME ConnInv, LoginInvUnless, faults \cap {"close", "cross"} = {},
                    NEW u \in Users, NEW i \in Ids, NEW j \in Ids, NEW o, NEW p,
                    o = GetConn(connMap[i]), p = GetConn(connMap[j]),
                    i # j, i \in ToSet(userConnMap[u]), j \in ToSet(userConnMap[u]),
                    o # None, p # None, conn[o].id = i, conn[p].id = j, conn[o].flag = conn[p].flag
             PROVE  ~(conn[o].master /\ conn[p].master)
  BY DEF MasterAlone
<1>1. Calm
  BY DEF LoginInvUnless, LoginInv
<1>2. o \in Objs /\ Leads(i, o)
  BY DEF GetConn, Leads, ConnInv, Typed
<1>3. p \in Objs /\ Leads(j, p)
  BY DEF GetConn, Leads, ConnInv, Typed
<1> QED
  BY <1>1, <1>2, <1>3 DEF Calm, Masters

\* The invariant says what the last notice counted.
LEMMA LoginInvStatus == LoginInvUnless => StatusAgrees
<1> SUFFICES ASSUME LoginInvUnless, faults = {},
                    \A a \in Actors : act[a].pc \in {"idle", "connected"}, NEW u \in Users
             PROVE  status[u] = Cardinality({i \in ToSet(userConnMap[u]) : connMap[i] # 0})
  BY DEF StatusAgrees
<1>1. Clean /\ Lists
  BY DEF LoginInvUnless, LoginInv
<1>2. ~Recounts(u)
  BY <1>1 DEF Recounts, Handles, Lists, LoginPCs
<1>3. status[u] = Cardinality(Count(u))
  BY <1>1, <1>2 DEF Clean, Counted
<1> QED
  BY <1>3 DEF Count

\* A master device that logs in has kicked every other connection of its user and flag
\* out of the registry before it is in it (processor.go:160-179), for any number of
\* users, devices and goroutines, as long as logins and closes of one user do not overlap.
THEOREM MasterCorrect == Spec => []MasterAlone
  BY ConnInvAlways, LoginInvAlways, LoginInvMaster, PTL

\* Whoever changes a user's connections counts them afterwards, and the last to do so
\* counts what is left (processor.go:236, 665).
THEOREM StatusCorrect == Spec => []StatusAgrees
  BY LoginInvAlways, LoginInvStatus, PTL
=============================================================================
