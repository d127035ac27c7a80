--------------------------- MODULE MCFrameStream ---------------------------
(* Every packet with and without its optional fields, empty and not.       *)
EXTENDS FrameStream

A == <<97>>
Long == [i \in 1 .. 120 |-> i]
\* Settings with every choice of a stream and a topic, and all header flags.
Marks == {<<0, {"NoPersist", "SyncOnce"}>>, <<4, {"RedDot", "DUP"}>>, <<8, {}>>, <<12, {"DUP"}>>}

F(t, flags, body) == [type |-> t, flags |-> flags, body |-> body]

MCConnect(v) == F("CONNECT", {}, [Version |-> v, DeviceFlag |-> 1, DeviceID |-> A, UID |-> <<>>,
                                  Token |-> A, ClientTimestamp |-> 258, ClientKey |-> A])

MCConnack(v) ==
    LET b == [TimeDiff |-> -2, ReasonCode |-> 1, ServerKey |-> A, Salt |-> <<>>]
    IN  IF v > 3 THEN F("CONNACK", {"HasServerVersion"}, b @@ ("ServerVersion" :> 3))
        ELSE F("CONNACK", {}, b)

\* The optional fields of a packet with setting s in version v.
Optional(s, v, stream) ==
    (IF v >= 2 /\ SettingStream(s) THEN stream ELSE <<>>) @@
    (IF v >= 3 THEN "Expire" :> 70000 ELSE <<>>) @@
    (IF SettingTopic(s) THEN "Topic" :> A ELSE <<>>)

Send(v, s, fl, p) ==
    F("SEND", fl, [Setting |-> s, ClientSeq |-> 513, ClientMsgNo |-> A, ChannelID |-> <<98, 99>>,
                   ChannelType |-> 2, MsgKey |-> <<>>, Payload |-> p] @@ Optional(s, v, "StreamNo" :> A))

Recv(v, s, fl, p) ==
    F("RECV", fl, [Setting |-> s, MsgKey |-> A, FromUID |-> <<>>, ChannelID |-> <<98>>, ChannelType |-> 1,
                   ClientMsgNo |-> <<>>, MessageID |-> 7, MessageSeq |-> 65536, Timestamp |-> -1, Payload |-> p]
                  @@ Optional(s, v, ("StreamNo" :> <<>>) @@ ("StreamSeq" :> 1) @@ ("StreamFlag" :> 2)))

Ping == F("PING", {}, <<>>)
Pong == F("PONG", {}, <<>>)
Sendack == F("SENDACK", {}, [MessageID |-> -5, ClientSeq |-> 1, MessageSeq |-> 256, ReasonCode |-> 200])
Recvack == F("RECVACK", {"RedDot"}, [MessageID |-> 3, MessageSeq |-> 9])
Sub == F("SUB", {}, [Setting |-> 0, SubNo |-> A, ChannelID |-> A, ChannelType |-> 7, Action |-> 1, Param |-> <<>>])
Suback == F("SUBACK", {}, [SubNo |-> A, ChannelID |-> A, ChannelType |-> 7, Action |-> 1, ReasonCode |-> 1])
Disconnect == F("DISCONNECT", {}, [ReasonCode |-> 12, Reason |-> A])

Upstream(v) ==
    {<<Send(v, m[1], m[2], A), Ping>> : m \in Marks} \cup
    {<<Ping, Send(v, 12, {}, Long)>>, <<Recvack, Sub, Ping>>}

Downstream(v) ==
    {<<Recv(v, m[1], m[2], <<>>), Pong>> : m \in Marks} \cup
    {<<Recv(v, 4, {}, Long)>>, <<Sendack, Suback, Disconnect>>}

\* One direction at a time is busy: the two share nothing but the pool.
MCPlans(v) == [client : Upstream(v), server : {<<>>}] \cup
              [client : {<<Ping>>}, server : Downstream(v)]
=============================================================================
