-------------------------------- MODULE Wire --------------------------------
(***************************************************************************)
(* The wire protocol (pkg/proto): the fixed header, the remaining length,  *)
(* the body of every packet and the splitting of a byte stream into        *)
(* frames.                                                                 *)
(*                                                                         *)
(* A byte is a number below 256 and a string is a sequence of bytes.  A    *)
(* frame is a record [type, flags, body]: the set of its header flags and  *)
(* a function from the names of the packet's fields to their values.  The  *)
(* three routines that the code keeps per packet (encodeX, encodeXSize,    *)
(* decodeX) are three separate lists of fields here, as they are there.    *)
(* Integers stay below 2^31 in absolute value, where TLC can count.        *)
(***************************************************************************)
EXTENDS Integers, Sequences, SequencesExt, TLC

CONSTANT MaxRemaingLength       \* 1 MB in the code

NoFrame == [type |-> "NONE"]

\* FrameType: the upper half of the first byte.
FrameTypes == <<"CONNECT", "CONNACK", "SEND", "SENDACK", "RECV", "RECVACK",
                "PING", "PONG", "DISCONNECT", "SUB", "SUBACK">>

TypeCode(t) == CHOOSE i \in DOMAIN FrameTypes : FrameTypes[i] = t

Byte == 0 .. 255

\* Bit k of a number, and the two settings that change a layout.
Bit(v, k) == (v \div 2^k) % 2 = 1
SettingTopic(s) == Bit(s, 3)
SettingStream(s) == Bit(s, 2)

-----------------------------------------------------------------------------
(* The encoder and the decoder of single fields. *)

\* v >> 8k, with its sign.
Shift(v, k) == IF k > 3 THEN (IF v < 0 THEN -1 ELSE 0) ELSE v \div 256^k

\* WriteUint8, WriteInt16, WriteUint32, WriteInt64: n bytes, the highest first.
WriteInt(v, n) == [i \in 1 .. n |-> Shift(v, n - i) % 256]

\* WriteBinary: a length of two bytes and the bytes.
WriteBinary(s) == WriteInt(Len(s), 2) \o s

\* Int16, Int32, Int64: the first byte carries the sign.
Signed(bs) == FoldLeft(LAMBDA acc, b : acc * 256 + b,
                       IF bs[1] > 127 THEN bs[1] - 256 ELSE bs[1], Tail(bs))

Width == [u8 |-> 1, u32 |-> 4, i64 |-> 8]

WriteField(kind, v) ==
    CASE kind = "str" -> WriteBinary(v)
      [] kind = "rest" -> v
      [] OTHER -> WriteInt(v, Width[kind])

FieldSize(kind, v) ==
    CASE kind = "str" -> Len(v) + 2
      [] kind = "rest" -> Len(v)
      [] OTHER -> Width[kind]

\* A decoder is [p, offset, body, err]; a read past the end sets err.
NewDecoder(data) == [p |-> data, offset |-> 0, body |-> <<>>, err |-> FALSE]

\* What bytes are worth.  Uint8 has no sign.
Value(kind, bs) ==
    CASE kind = "u8" -> bs[1]
      [] kind \in {"str", "rest"} -> bs
      [] OTHER -> Signed(bs)

\* The next n bytes as field f, or an error when there are fewer.
Take(d, f, n, kind) ==
    IF d.offset + n > Len(d.p)
    THEN [d EXCEPT !.err = TRUE]
    ELSE [d EXCEPT !.offset = @ + n,
                   !.body = @ @@ (f :> Value(kind, SubSeq(d.p, d.offset + 1, d.offset + n)))]

\* Binary: the length, then as many bytes.  The length is an Int16: 32768
\* bytes and more read as a negative one, which passes the check and makes the
\* slice panic.  Nothing recovers from that, so it is no less than an error.
TakeBinary(d, f) ==
    LET l == Take(d, "len", 2, "i16")
    IN  IF l.err THEN l
        ELSE IF l.body["len"] < 0 THEN [d EXCEPT !.err = TRUE]
        ELSE Take([l EXCEPT !.body = d.body], f, l.body["len"], "str")

\* One field; after an error nothing more is read.
ReadField(d, fk) ==
    CASE d.err -> d
      [] fk[2] = "str" -> TakeBinary(d, fk[1])
      [] fk[2] = "rest" -> Take(d, fk[1], Len(d.p) - d.offset, "rest")
      [] OTHER -> Take(d, fk[1], Width[fk[2]], fk[2])

-----------------------------------------------------------------------------
(* The bodies.  A layout is a sequence of <<field, kind>>; s is the setting *)
(* of the packet, h whether a CONNACK carries the server's version and v   *)
(* the version of the protocol.                                            *)

U8(f) == << <<f, "u8">> >>
U32(f) == << <<f, "u32">> >>
I64(f) == << <<f, "i64">> >>
Str(f) == << <<f, "str">> >>
Rest(f) == << <<f, "rest">> >>
If(c, layout) == IF c THEN layout ELSE <<>>

encodeConnect ==
    U8("Version") \o U8("DeviceFlag") \o Str("DeviceID") \o Str("UID") \o Str("Token")
        \o I64("ClientTimestamp") \o Str("ClientKey")
encodeConnectSize ==
    U8("Version") \o U8("DeviceFlag") \o Str("DeviceID") \o Str("UID") \o Str("Token")
        \o I64("ClientTimestamp") \o Str("ClientKey")
decodeConnect ==
    U8("Version") \o U8("DeviceFlag") \o Str("DeviceID") \o Str("UID") \o Str("Token")
        \o I64("ClientTimestamp") \o Str("ClientKey")

encodeConnack(h) ==
    If(h, U8("ServerVersion")) \o I64("TimeDiff") \o U8("ReasonCode")
        \o Str("ServerKey") \o Str("Salt")
encodeConnackSize(h) ==
    If(h, U8("ServerVersion")) \o I64("TimeDiff") \o U8("ReasonCode")
        \o Str("ServerKey") \o Str("Salt")
decodeConnack(h) ==
    If(h, U8("ServerVersion")) \o I64("TimeDiff") \o U8("ReasonCode")
        \o Str("ServerKey") \o Str("Salt")

encodeSend(s, v) ==
    U8("Setting") \o U32("ClientSeq") \o Str("ClientMsgNo")
        \o If(v >= 2 /\ SettingStream(s), Str("StreamNo"))
        \o Str("ChannelID") \o U8("ChannelType") \o If(v >= 3, U32("Expire"))
        \o Str("MsgKey") \o If(SettingTopic(s), Str("Topic")) \o Rest("Payload")
\* Faulty variant: the size counts the expiry from version 2 on.
encodeSendSizeEarly(s, v) ==
    U8("Setting") \o U32("ClientSeq") \o Str("ClientMsgNo")
        \o If(v >= 2 /\ SettingStream(s), Str("StreamNo"))
        \o Str("ChannelID") \o U8("ChannelType") \o If(v >= 2, U32("Expire"))
        \o Str("MsgKey") \o If(SettingTopic(s), Str("Topic")) \o Rest("Payload")
encodeSendSize(s, v) ==
    U8("Setting") \o U32("ClientSeq") \o Str("ClientMsgNo")
        \o If(v >= 2 /\ SettingStream(s), Str("StreamNo"))
        \o Str("ChannelID") \o U8("ChannelType") \o If(v >= 3, U32("Expire"))
        \o Str("MsgKey") \o If(SettingTopic(s), Str("Topic")) \o Rest("Payload")
decodeSend(s, v) ==
    U8("Setting") \o U32("ClientSeq") \o Str("ClientMsgNo")
        \o If(v >= 2 /\ SettingStream(s), Str("StreamNo"))
        \o Str("ChannelID") \o U8("ChannelType") \o If(v >= 3, U32("Expire"))
        \o Str("MsgKey") \o If(SettingTopic(s), Str("Topic")) \o Rest("Payload")

encodeSendack == I64("MessageID") \o U32("ClientSeq") \o U32("MessageSeq") \o U8("ReasonCode")
encodeSendackSize == I64("MessageID") \o U32("ClientSeq") \o U32("MessageSeq") \o U8("ReasonCode")
decodeSendack == I64("MessageID") \o U32("ClientSeq") \o U32("MessageSeq") \o U8("ReasonCode")

encodeRecv(s, v) ==
    U8("Setting") \o Str("MsgKey") \o Str("FromUID") \o Str("ChannelID") \o U8("ChannelType")
        \o If(v >= 3, U32("Expire")) \o Str("ClientMsgNo")
        \o If(v >= 2 /\ SettingStream(s), Str("StreamNo") \o U32("StreamSeq") \o U8("StreamFlag"))
        \o I64("MessageID") \o U32("MessageSeq") \o U32("Timestamp")
        \o If(SettingTopic(s), Str("Topic")) \o Rest("Payload")
encodeRecvSize(s, v) ==
    U8("Setting") \o Str("MsgKey") \o Str("FromUID") \o Str("ChannelID") \o U8("ChannelType")
        \o If(v >= 3, U32("Expire")) \o Str("ClientMsgNo")
        \o If(v >= 2 /\ SettingStream(s), Str("StreamNo") \o U32("StreamSeq") \o U8("StreamFlag"))
        \o I64("MessageID") \o U32("MessageSeq") \o U32("Timestamp")
        \o If(SettingTopic(s), Str("Topic")) \o Rest("Payload")
decodeRecv(s, v) ==
    U8("Setting") \o Str("MsgKey") \o Str("FromUID") \o Str("ChannelID") \o U8("ChannelType")
        \o If(v >= 3, U32("Expire")) \o Str("ClientMsgNo")
        \o If(v >= 2 /\ SettingStream(s), Str("StreamNo") \o U32("StreamSeq") \o U8("StreamFlag"))
        \o I64("MessageID") \o U32("MessageSeq") \o U32("Timestamp")
        \o If(SettingTopic(s), Str("Topic")) \o Rest("Payload")

encodeRecvack == I64("MessageID") \o U32("MessageSeq")
encodeRecvackSize == I64("MessageID") \o U32("MessageSeq")
decodeRecvack == I64("MessageID") \o U32("MessageSeq")

encodeDisConnect == U8("ReasonCode") \o Str("Reason")
encodeDisConnectSize == U8("ReasonCode") \o Str("Reason")
decodeDisConnect == U8("ReasonCode") \o Str("Reason")

encodeSub ==
    U8("Setting") \o Str("SubNo") \o Str("ChannelID") \o U8("ChannelType") \o U8("Action") \o Str("Param")
encodeSubSize ==
    U8("Setting") \o Str("SubNo") \o Str("ChannelID") \o U8("ChannelType") \o U8("Action") \o Str("Param")
decodeSub ==
    U8("Setting") \o Str("SubNo") \o Str("ChannelID") \o U8("ChannelType") \o U8("Action") \o Str("Param")

encodeSuback ==
    Str("SubNo") \o Str("ChannelID") \o U8("ChannelType") \o U8("Action") \o U8("ReasonCode")
encodeSubackSize ==
    Str("SubNo") \o Str("ChannelID") \o U8("ChannelType") \o U8("Action") \o U8("ReasonCode")
decodeSuback ==
    Str("SubNo") \o Str("ChannelID") \o U8("ChannelType") \o U8("Action") \o U8("ReasonCode")

EncodeLayout(f, v) ==
    CASE f.type = "CONNECT" -> encodeConnect
      [] f.type = "CONNACK" -> encodeConnack("HasServerVersion" \in f.flags)
      [] f.type = "SEND" -> encodeSend(f.body["Setting"], v)
      [] f.type = "SENDACK" -> encodeSendack
      [] f.type = "RECV" -> encodeRecv(f.body["Setting"], v)
      [] f.type = "RECVACK" -> encodeRecvack
      [] f.type = "DISCONNECT" -> encodeDisConnect
      [] f.type = "SUB" -> encodeSub
      [] f.type = "SUBACK" -> encodeSuback

SizeLayout(f, v) ==
    CASE f.type = "CONNECT" -> encodeConnectSize
      [] f.type = "CONNACK" -> encodeConnackSize("HasServerVersion" \in f.flags)
      [] f.type = "SEND" -> encodeSendSize(f.body["Setting"], v)
      [] f.type = "SENDACK" -> encodeSendackSize
      [] f.type = "RECV" -> encodeRecvSize(f.body["Setting"], v)
      [] f.type = "RECVACK" -> encodeRecvackSize
      [] f.type = "DISCONNECT" -> encodeDisConnectSize
      [] f.type = "SUB" -> encodeSubSize
      [] f.type = "SUBACK" -> encodeSubackSize

\* packetDecodeMap: what to read, given the flags of the header and the
\* first byte of the body, which is the setting where there is one.
packetDecodeMap(t, flags, data, v) ==
    LET s == IF data = <<>> THEN 0 ELSE data[1]
    IN  CASE t = "CONNECT" -> decodeConnect
          [] t = "CONNACK" -> decodeConnack("HasServerVersion" \in flags)
          [] t = "SEND" -> decodeSend(s, v)
          [] t = "SENDACK" -> decodeSendack
          [] t = "RECV" -> decodeRecv(s, v)
          [] t = "RECVACK" -> decodeRecvack
          [] t = "DISCONNECT" -> decodeDisConnect
          [] t = "SUB" -> decodeSub
          [] t = "SUBACK" -> decodeSuback

-----------------------------------------------------------------------------
(* The header. *)

HeaderBits == << "NoPersist", "RedDot", "SyncOnce", "DUP" >>

ToFixHeaderUint8(f) ==
    16 * TypeCode(f.type) +
    IF f.type = "CONNACK"
    THEN (IF "HasServerVersion" \in f.flags THEN 1 ELSE 0)
    ELSE FoldLeft(LAMBDA acc, i : acc + IF HeaderBits[i] \in f.flags THEN 2^(i - 1) ELSE 0,
                  0, <<1, 2, 3, 4>>)

\* The flags of a first byte.  A CONNACK that has the server's version also
\* reads as one that is not to be stored: the two share a bit.
FramerFromUint8(b) ==
    {HeaderBits[i] : i \in {k \in 1 .. 4 : Bit(b, k - 1)}} \cup
    (IF b \div 16 = TypeCode("CONNACK") /\ Bit(b, 0) THEN {"HasServerVersion"} ELSE {})

\* encodeVariable2: groups of seven bits, the lowest first; nothing for 0.
encodeVariable(size) ==
    LET n == IF size = 0 THEN 0 ELSE CHOOSE k \in 1 .. 4 : size < 128^k /\ size >= 128^(k - 1)
    IN  [i \in 1 .. n |-> ((size \div 128^(i - 1)) % 128) + IF i < n THEN 128 ELSE 0]

\* How many digits the loop of decodeLength takes: up to the first without
\* a continuation bit, four at the most; 0 when the data ends before.
Digits(data) ==
    LET last == {i \in 1 .. 4 : i <= Len(data) /\ data[i] < 128}
    IN  CASE last # {} -> CHOOSE i \in last : \A j \in last : i <= j
          [] last = {} /\ Len(data) >= 4 -> 4
          [] OTHER -> 0

LengthOf(data) ==
    FoldLeft(LAMBDA acc, i : acc + (data[i] % 128) * 128^(i - 1), 0, [i \in 1 .. Digits(data) |-> i])

\* decodeLength of pkg/proto counts its last digit even when it has no end.
decodeLength(data) ==
    [length |-> LengthOf(data),
     size |-> IF Digits(data) = 4 /\ data[4] > 127 THEN 5 ELSE Digits(data)]

-----------------------------------------------------------------------------
(* Frames. *)

EncodeFrame(f, v) ==
    IF f.type \in {"PING", "PONG"}
    THEN <<16 * TypeCode(f.type)>>
    ELSE LET size == FoldLeft(LAMBDA acc, fk : acc + FieldSize(fk[2], f.body[fk[1]]), 0, SizeLayout(f, v))
         IN  <<ToFixHeaderUint8(f)>> \o encodeVariable(size)
                 \o FlattenSeq([i \in DOMAIN EncodeLayout(f, v) |->
                        WriteField(EncodeLayout(f, v)[i][2], f.body[EncodeLayout(f, v)[i][1]])])

Incomplete == [frame |-> NoFrame, size |-> 0, err |-> FALSE]
Malformed == [frame |-> NoFrame, size |-> 0, err |-> TRUE]

\* The frame at the start of the data and its size; no frame and no error
\* when more bytes are needed (or the type is the reserved 0).
DecodeFrame(data, v) ==
    LET code == data[1] \div 16
        len == decodeLength(Tail(data))
        end == 1 + len.size + len.length
        body == SubSeq(data, 2 + len.size, end)
        flags == FramerFromUint8(data[1])
        d == FoldLeft(ReadField, NewDecoder(body), packetDecodeMap(FrameTypes[code], flags, body, v))
    IN  CASE code \in {TypeCode("PING"), TypeCode("PONG")} ->
                 [frame |-> [type |-> FrameTypes[code], flags |-> flags, body |-> <<>>],
                  size |-> 1, err |-> FALSE]
          [] code = 0 \/ (code # 0 /\ len.size = 0) -> Incomplete
          [] len.length > MaxRemaingLength -> Malformed
          [] Len(data) < end -> Incomplete
          [] code > Len(FrameTypes) -> Malformed
          [] d.err -> Malformed
          [] OTHER -> [frame |-> [type |-> FrameTypes[code], flags |-> flags, body |-> d.body],
                       size |-> end, err |-> FALSE]

\* The end of the frame that starts at offset, 0 when it is not all there.
FrameEnd(buff, offset) ==
    LET rest == SubSeq(buff, offset + 1, Len(buff))
        n == Digits(Tail(rest))
        end == offset + 1 + n + LengthOf(Tail(rest))
    IN  CASE rest = <<>> -> 0
          [] rest # <<>> /\ rest[1] \div 16 \in {TypeCode("PING"), TypeCode("PONG")} -> offset + 1
          [] OTHER -> IF n = 0 \/ Len(buff) < end THEN 0 ELSE end

\* gnetUnpacket and the client's parse: how many bytes are whole frames.
gnetUnpacket(buff) ==
    LET ends[offset \in 0 .. Len(buff)] ==
            LET e == FrameEnd(buff, offset) IN IF e = 0 THEN offset ELSE ends[e]
    IN  ends[0]

\* A loop over whole frames that ends at the first it cannot read: the
\* frames, the bytes they take, and whether the last was malformed.
DecodeAll(data, v) ==
    LET from[offset \in 0 .. Len(data)] ==
            IF offset = Len(data)
            THEN [frames |-> <<>>, size |-> offset, err |-> FALSE]
            ELSE LET d == DecodeFrame(SubSeq(data, offset + 1, Len(data)), v)
                     r == from[offset + d.size]
                 IN  IF d.err \/ d.frame = NoFrame
                     THEN [frames |-> <<>>, size |-> offset, err |-> d.err]
                     ELSE [r EXCEPT !.frames = <<d.frame>> \o @]
    IN  from[0]
=============================================================================
