----------------------------- MODULE FrameStream -----------------------------
(***************************************************************************)
(* Frames between a client and the server over one TCP connection: the     *)
(* client (pkg/client) encodes and writes, the kernel cuts the bytes as it *)
(* likes, the reactor appends what it reads to the inbound ring buffer and *)
(* dataIn takes whole frames out of it; the other way, dataOut appends     *)
(* encoded frames to the outbound ring buffer, flush hands the kernel as   *)
(* much as it takes, and the client's readLoop puts the frames together.   *)
(*                                                                         *)
(* The first frame of a client is a CONNECT, and it waits for the CONNACK  *)
(* before it sends anything else.  The server lists the connection among   *)
(* those of its user before it writes the CONNACK, so that a message of    *)
(* another goroutine may be written first.                                 *)
(***************************************************************************)
EXTENDS Wire, RingBuffer, FiniteSets

CONSTANTS Versions,             \* protocol versions of clients
          Plans(_),             \* what a client of a version sends, and what it is sent
          Connect(_), Connack(_),  \* the opening of a connection
          ReadSizes,            \* how much one read of a socket returns at most
          ReadBufferSize,       \* size of the reactor's read buffer
          MaxReadBufferSize     \* limit of the inbound buffer

LatestVersion == 3
ReasonSuccess == 1

VARIABLES version,      \* ConnectPacket.Version
          toSend,       \* frames the client has still to send
          up,           \* bytes between the client and the server
          inbound,      \* the connection's inbound buffer
          authed,       \* IsAuthed, with the context and its place in connManager
          answered,     \* processAuth has written the CONNACK
          got,          \* frames handed to the processor
          toPush,       \* frames the server has still to send
          outbound,     \* the connection's outbound buffer
          down,         \* bytes between the server and the client
          tmpBuff,      \* bytes the client has not parsed yet
          client,       \* sendConnect waits for the CONNACK, or what came of it
          seen,         \* frames the client has handled
          pool,         \* sizes of the ring buffers in the pool
          closed,       \* the connection is closed
          sentUp,       \* history: the frames the client has sent
          sentDown      \* history: the frames the server has sent

vars == <<version, toSend, up, inbound, authed, answered, got, toPush, outbound, down, tmpBuff,
          client, seen, pool, closed, sentUp, sentDown>>

Init == /\ version \in Versions
        /\ \E p \in Plans(version) :
              /\ toSend = <<Connect(version)>> \o p.client
              /\ toPush = p.server
        /\ up = <<>> /\ down = <<>> /\ tmpBuff = <<>>
        /\ inbound = NoBuffer /\ outbound = NoBuffer
        /\ authed = FALSE /\ answered = FALSE /\ closed = FALSE
        /\ client = "waiting"
        /\ got = <<>> /\ seen = <<>>
        /\ pool = {}
        /\ sentUp = <<>> /\ sentDown = <<>>

\* RingBuffer.instance: the buffer there is, or any of the pool, or a new one.
Instances(e) == IF e # NoBuffer THEN {e}
                ELSE {New(0)} \cup {[New(0) EXCEPT !.size = n, !.buf = Fresh(n)] : n \in pool}

\* What goes back to the pool when e becomes NoBuffer.
Returned(before, after) == IF after = NoBuffer /\ before # NoBuffer THEN {before.size} ELSE {}

\* The client writes a frame of its own to the socket: sendConnect first,
\* and nothing more until it has read the CONNACK.
ClientSend ==
    /\ toSend # <<>> /\ ~closed
    /\ Head(toSend).type # "CONNECT" => client = "connected"
    /\ up' = up \o EncodeFrame(Head(toSend), version)
    /\ toSend' = Tail(toSend)
    /\ sentUp' = Append(sentUp, Head(toSend))
    /\ UNCHANGED <<version, inbound, authed, answered, got, toPush, outbound, down, tmpBuff,
                   client, seen, pool, closed, sentDown>>

\* The bytes that are whole frames.
WholeFrames(bytes) == SubSeq(bytes, 1, gnetUnpacket(bytes))

\* What dataIn makes of the whole frames in the inbound buffer: the frames it
\* hands over, how much it discards, and whether it closes the connection.
\* Before authentication all whole frames go at once and one is looked at.
dataIn(data) ==
    LET first == DecodeFrame(data, LatestVersion)
        idle == [frames |-> <<>>, size |-> 0, err |-> FALSE]
    IN  CASE data = <<>> -> idle
          [] data # <<>> /\ ~authed ->
                 IF first.frame.type = "CONNECT"
                 THEN [frames |-> <<first.frame>>, size |-> Len(data), err |-> FALSE]
                 ELSE [idle EXCEPT !.err = first.err \/ first.frame # NoFrame]
          [] OTHER -> DecodeAll(data, version)

\* ReactorSub.read: ReadToInboundBuffer, then OnData.  A CONNECT brings the
\* connection to AddConn in processAuth; the reactor reads and flushes nothing
\* until that has written the CONNACK.  A frame that cannot be decoded ends
\* the connection before anything is discarded or processed.
ServerRead(n) ==
    LET k == IF n < Len(up) THEN n ELSE Len(up)
        full == (IF inbound = NoBuffer THEN 0 ELSE Buffered(inbound)) + k > MaxReadBufferSize
    IN  /\ ~closed /\ up # <<>> /\ authed = answered
        /\ n <= ReadBufferSize
        /\ up' = SubSeq(up, k + 1, Len(up))
        /\ \E e \in Instances(inbound) :
           \E filled \in {Write(e, SubSeq(up, 1, k))} :
           \E in \in {dataIn(data) : data \in {WholeFrames(PeekAll(filled))}} :
              LET after == Done(Discard(filled, IF in.err THEN 0 ELSE in.size))
              IN  IF full
                  THEN closed' = TRUE /\ UNCHANGED <<inbound, got, authed, pool>>
                  ELSE /\ inbound' = after
                       /\ got' = IF in.err THEN got ELSE got \o in.frames
                       /\ authed' = (authed \/ in.frames # <<>>)
                       /\ closed' = in.err
                       /\ pool' = (pool \ (IF inbound = NoBuffer THEN {e.size} ELSE {}))
                                      \cup Returned(filled, after)
        /\ UNCHANGED <<version, toSend, answered, toPush, outbound, down, tmpBuff,
                       client, seen, sentUp, sentDown>>

\* Dispatch.dataOut of one frame.
dataOut(f) ==
    /\ \E e \in Instances(outbound) :
          /\ outbound' = Write(e, EncodeFrame(f, version))
          /\ pool' = pool \ (IF outbound = NoBuffer THEN {e.size} ELSE {})
    /\ sentDown' = Append(sentDown, f)

\* processAuth answers, on the reactor's goroutine.
processAuth ==
    /\ ~closed /\ authed /\ ~answered
    /\ dataOut(Connack(version))
    /\ answered' = TRUE
    /\ UNCHANGED <<version, toSend, up, inbound, authed, got, toPush, down, tmpBuff,
                   client, seen, closed, sentUp>>

\* Another goroutine has a frame for the connection, which it finds from
\* AddConn on.
Push ==
    /\ ~closed /\ authed /\ toPush # <<>>
    /\ dataOut(Head(toPush))
    /\ toPush' = Tail(toPush)
    /\ UNCHANGED <<version, toSend, up, inbound, authed, answered, got, down, tmpBuff,
                   client, seen, closed, sentUp>>

\* ReactorSub.write: the kernel takes n bytes of what is buffered.
flush(n) ==
    /\ ~closed /\ ~IsEmpty(outbound) /\ authed = answered
    /\ LET k == IF n < Buffered(outbound) THEN n ELSE Buffered(outbound)
       IN  /\ down' = down \o SubSeq(PeekAll(outbound), 1, k)
           /\ outbound' = Done(Discard(outbound, k))
    /\ pool' = pool \cup Returned(outbound, outbound')
    /\ UNCHANGED <<version, toSend, up, inbound, authed, answered, got, toPush, tmpBuff,
                   client, seen, closed, sentUp, sentDown>>

\* The end of sendConnect: DecodePacketWithConn takes one frame, and no byte
\* more, from the socket.  Anything but a CONNACK of success makes the client
\* give the connection up; it does not close it.
ReadConnack ==
    LET end == FrameEnd(down, 0)
        ok(d) == /\ ~d.err /\ d.frame.type = "CONNACK"
                 /\ d.frame.body["ReasonCode"] = ReasonSuccess
    IN  /\ client = "waiting" /\ end > 0
        /\ down' = SubSeq(down, end + 1, Len(down))
        /\ \E d \in {DecodeFrame(SubSeq(down, 1, end), version)} :
              IF ok(d) THEN client' = "connected" /\ seen' = <<d.frame>>
                       ELSE client' = "failed" /\ UNCHANGED seen
        /\ UNCHANGED <<version, toSend, up, inbound, authed, answered, got, toPush, outbound,
                       tmpBuff, pool, closed, sentUp, sentDown>>

\* readLoop: what was read is appended, whole frames are decoded and, when
\* all of them can be, handled; the rest is kept.
ClientRead(n) ==
    LET k == IF n < Len(down) THEN n ELSE Len(down)
        buf == tmpBuff \o SubSeq(down, 1, k)
    IN  /\ client = "connected" /\ down # <<>>
        /\ down' = SubSeq(down, k + 1, Len(down))
        /\ \E whole \in {WholeFrames(buf)} :
           \E all \in {DecodeAll(whole, version)} :
              /\ tmpBuff' = SubSeq(buf, Len(whole) + 1, Len(buf))
              /\ seen' = IF all.err THEN seen ELSE seen \o all.frames
              /\ closed' = (closed \/ all.err)
        /\ UNCHANGED <<version, toSend, up, inbound, authed, answered, got, toPush, outbound,
                       client, pool, sentUp, sentDown>>

Next == \/ ClientSend
        \/ \E n \in ReadSizes : ServerRead(n)
        \/ processAuth
        \/ Push
        \/ \E n \in ReadSizes : flush(n)
        \/ ReadConnack
        \/ \E n \in ReadSizes : ClientRead(n)

Spec == Init /\ [][Next]_vars

-----------------------------------------------------------------------------

\* What a decoder makes of a frame that was sent: the flags of the header
\* it travels with (a PING and a PONG carry none), and the fields.
Sent(f) == [f EXCEPT !.flags = IF f.type \in {"PING", "PONG"} THEN {}
                               ELSE FramerFromUint8(ToFixHeaderUint8(f))]

SentAll(fs) == [i \in DOMAIN fs |-> Sent(fs[i])]

\* The positions of a ring buffer are inside it and its bytes were written.
RingOK(e) == e # NoBuffer =>
    /\ e.size = Cardinality(DOMAIN e.buf)
    /\ e.r \in 0 .. e.size - 1 /\ e.w \in 0 .. e.size - 1
    /\ e.isEmpty => e.r = e.w
    /\ Junk \notin {PeekAll(e)[i] : i \in 1 .. Buffered(e)}

\* Type invariant: the buffers of a connection are well formed and hold
\* nothing that was not written to them, however often they grow and wrap
\* (ring.Buffer: Write, Discard, grow).
TypeOK == /\ RingOK(inbound) /\ RingOK(outbound)
          /\ \A i \in DOMAIN up : up[i] \in Byte
          /\ \A i \in DOMAIN down : down[i] \in Byte

\* Both ends see the frames the other sent, whole, unchanged and in their
\* order, wherever the kernel cuts the bytes (EncodeFrame, gnetUnpacket,
\* DecodeFrame and the two buffers together).
InOrder == /\ IsPrefix(got, SentAll(sentUp))
           /\ IsPrefix(seen, SentAll(sentDown))

\* A frame is handed over by the read that completes it: once no bytes are
\* under way none is left in a buffer, and no frame that was sent ends the
\* connection.  The exception is a frame that was written before the CONNACK,
\* between AddConn and the answer of processAuth: the client takes it for the
\* answer and gives the connection up, and nothing else makes it do so
\* (dataIn, sendConnect, readLoop, overflowForInbound).
NothingLeft == /\ ~closed
               /\ client = "failed" => Head(sentDown).type # "CONNACK"
               /\ up = <<>> => inbound = NoBuffer /\ Len(got) = Len(sentUp)
               /\ client # "failed" /\ down = <<>> /\ outbound = NoBuffer =>
                      tmpBuff = <<>> /\ Len(seen) = Len(sentDown)
=============================================================================
