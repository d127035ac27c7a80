--------------------------- MODULE MessagesProofs ---------------------------
(***************************************************************************)
(* AnsweredOnce, AckTruth, DeliveredWhereSaid, SyncReturnsUnacked and      *)
(* StreamReadBack of Messages, proved for every number of users,           *)
(* goroutines, packets in a run, failed steps and evictions, with or       *)
(* without a webhook.                                                      *)
(*                                                                         *)
(* A run passes through many steps, each of which may fail, and what it    *)
(* promises at the end was done along the way.  The invariant MsgInv says: *)
(*   Types       what the variables hold;                                  *)
(*   Calls       a call to the store that appends is for an item of the    *)
(*               run that made it;                                         *)
(*   Custody     a message that was not answered is held once, by one      *)
(*               goroutine: to be looked at, in work or to be answered;    *)
(*   Shapes      what is held at which step; messages that are stored      *)
(*               together are of one sender and one channel;               *)
(*   Truth       what was done for the messages in work at each step, so   *)
(*               that every answer made from it holds; what nobody has     *)
(*               looked at is nowhere;                                     *)
(*   Deliveries  DeliveredWhereSaid, and that a delivered message is not   *)
(*               in work any more, so that its number stays;               *)
(*   Cursors     no cursor is, or will be, above what was acknowledged.    *)
(* Every action is shown to be a Step: one goroutine goes on, others are   *)
(* undisturbed because logs and queues only grow and only by what it has.  *)
(*                                                                         *)
(* For StreamReadBack a second invariant, ItemInv, follows an item from    *)
(* the packet that brings it to the file of its stream:                    *)
(*   Files       a file has an item once, and none of another stream;      *)
(*   Sent        items go to the channel of the stream that was started,   *)
(*               whose file the reader of the stream opens;                *)
(*   Objects     the stream objects that topics and calls refer to exist,  *)
(*               so that a look up finds one or has one left to make;      *)
(*   Handled     in a run, what is no longer to be written is filed, and   *)
(*               so is what will be answered with success.                 *)
(* Reading sorts a file by item number; it is shown to permute it, equal   *)
(* numbers included.                                                       *)
(***************************************************************************)
EXTENDS Messages, FiniteSetTheorems, WellFoundedInduction, TLAPS

-----------------------------------------------------------------------------
\* Every nonempty set of natural numbers has a least member,
LEMMA LeastMember ==
  ASSUME NEW T, T \subseteq Nat, T # {}
  PROVE  \E n \in T : \A m \in T : n <= m
<1> DEFINE R == OpToRel(<, Nat)
<1>1. IsWellFoundedOn(R, Nat)
  BY NatLessThanWellFounded
<1>2. \A x, y \in Nat : <<y, x>> \in R <=> y < x
  BY DEF OpToRel
<1> HIDE DEF R
<1>3. PICK x \in T : \A y \in T : ~ (<<y, x>> \in R)
  BY <1>1, WFMin
<1>4. \A y \in T : ~ (y < x)
  BY <1>2, <1>3
<1> QED
  BY <1>3, <1>4

\* so that induction over a set needs no operator as a parameter.
LEMMA Induction ==
  ASSUME NEW T, 0 \in T, \A n \in Nat : n \in T => n + 1 \in T
  PROVE  \A n \in Nat : n \in T
<1> DEFINE U == {n \in Nat : n \notin T}
<1>1. CASE U = {}
  BY <1>1
<1>2. CASE U # {}
  <2>1. PICK n \in U : \A m \in U : n <= m
    <3>1. U \subseteq Nat
      OBVIOUS
    <3> HIDE DEF U
    <3> QED
      BY <1>2, <3>1, LeastMember
  <2>2. n # 0 /\ n - 1 \in Nat /\ n - 1 \notin U
    BY <2>1
  <2> QED
    BY <2>1, <2>2
<1> QED
  BY <1>1, <1>2

-----------------------------------------------------------------------------
(* What Only returns. *)

\* The function that Only defines by recursion, on the first n elements of s.
Kept(f, s, S, n) ==
  f = [i \in 0 .. n |->
        IF i = 0 THEN <<>> ELSE IF s[i] \in S THEN Append(f[i - 1], s[i]) ELSE f[i - 1]]

\* There is such a function.
LEMMA KeptExists ==
  ASSUME NEW s, NEW S
  PROVE  \A n \in Nat : \E f : Kept(f, s, S, n)
<1> DEFINE T == {n \in Nat : \E f : Kept(f, s, S, n)}
<1>1. 0 \in T
  <2> DEFINE f == [i \in 0 .. 0 |-> <<>>]
  <2>1. Kept(f, s, S, 0)
    BY DEF Kept
  <2> QED
    BY <2>1
<1>2. ASSUME NEW n \in Nat, n \in T
      PROVE  n + 1 \in T
  <2>1. PICK f : Kept(f, s, S, n)
    BY <1>2
  <2> DEFINE g == [i \in 0 .. n + 1 |->
                    IF i <= n THEN f[i]
                    ELSE IF s[i] \in S THEN Append(f[n], s[i]) ELSE f[n]]
  <2>2. Kept(g, s, S, n + 1)
    <3>1. \A i \in 0 .. n : g[i] = f[i]
      OBVIOUS
    <3>2. \A i \in 0 .. n : f[i] = IF i = 0 THEN <<>>
                                   ELSE IF s[i] \in S THEN Append(f[i - 1], s[i]) ELSE f[i - 1]
      BY <2>1 DEF Kept
    <3>3. \A i \in 0 .. n : i # 0 => i - 1 \in 0 .. n
      OBVIOUS
    <3>4. g[n + 1] = IF s[n + 1] \in S THEN Append(g[n], s[n + 1]) ELSE g[n]
      BY <3>1
    <3>5. \A i \in 0 .. n + 1 : g[i] = IF i = 0 THEN <<>>
                                   ELSE IF s[i] \in S THEN Append(g[i - 1], s[i]) ELSE g[i - 1]
      <4> TAKE i \in 0 .. n + 1
      <4>1. CASE i = n + 1
        BY <3>4, <4>1
      <4>2. CASE i \in 0 .. n
        <5> HIDE DEF g
        <5> QED
          BY <3>1, <3>2, <3>3, <4>2
      <4> QED
        BY <4>1, <4>2
    <3>6. g = [i \in 0 .. n + 1 |-> g[i]]
      OBVIOUS
    <3> HIDE DEF g
    <3> QED
      BY <3>5, <3>6 DEF Kept
  <2> QED
    BY <2>2
<1>3. \A n \in Nat : n \in T
  <2> HIDE DEF T
  <2> QED
    BY <1>1, <1>2, Induction
<1> QED
  BY <1>3

\* The elements Only returns are those of s in S, each as often as in s or less.
LEMMA OnlyKeeps ==
  ASSUME NEW A, NEW s \in Seq(A), NEW S
  PROVE  /\ Only(s, S) \in Seq(A)
         /\ ToSet(Only(s, S)) = ToSet(s) \cap S
         /\ IsInjective(s) => IsInjective(Only(s, S))
<1>1. PICK g : Kept(g, s, S, Len(s))
  <2>1. Len(s) \in Nat
    OBVIOUS
  <2> QED
    BY <2>1, KeptExists
<1> DEFINE f == CHOOSE f : f = [n \in 0 .. Len(s) |->
              IF n = 0 THEN <<>> ELSE IF s[n] \in S THEN Append(f[n - 1], s[n]) ELSE f[n - 1]]
<1>2. Kept(f, s, S, Len(s))
  BY <1>1 DEF Kept
<1>3. Only(s, S) = f[Len(s)]
  BY DEF Only
<1> HIDE DEF f
<1>4. f[0] = <<>>
  BY <1>2 DEF Kept
<1>5. \A n \in 0 .. Len(s) : n # 0 =>
        f[n] = IF s[n] \in S THEN Append(f[n - 1], s[n]) ELSE f[n - 1]
  BY <1>2 DEF Kept
<1> DEFINE Good(n) == /\ f[n] \in Seq(A)
                      /\ \A x : (\E k \in DOMAIN f[n] : f[n][k] = x)
                                <=> x \in S /\ \E k \in 1 .. n : s[k] = x
                      /\ IsInjective(s) => IsInjective(f[n])
           T == {n \in Nat : n <= Len(s) => Good(n)}
<1>6. 0 \in T
  <2>1. f[0] \in Seq(A) /\ DOMAIN f[0] = {}
    BY <1>4
  <2>2. Good(0)
    BY <2>1 DEF IsInjective
  <2> QED
    BY <2>2
<1>7. ASSUME NEW n \in Nat, n \in T
      PROVE  n + 1 \in T
  <2> SUFFICES ASSUME n + 1 <= Len(s)
               PROVE  Good(n + 1)
    OBVIOUS
  <2>1. Good(n)
    <3>1. n <= Len(s)
      OBVIOUS
    <3>2. n <= Len(s) => Good(n)
      <4> HIDE DEF Good
      <4> QED
        BY <1>7
    <3> QED
      BY <3>1, <3>2
  <2>2. n + 1 \in 0 .. Len(s) /\ n + 1 # 0 /\ n + 1 - 1 = n /\ s[n + 1] \in A
    OBVIOUS
  <2>3. f[n + 1] = IF s[n + 1] \in S THEN Append(f[n], s[n + 1]) ELSE f[n]
    BY <1>5, <2>2
  <2>4. CASE s[n + 1] \notin S
    BY <2>1, <2>3, <2>4
  <2>5. CASE s[n + 1] \in S
    <3> DEFINE e == f[n]  h == f[n + 1]
    <3>1. h = Append(e, s[n + 1])
      BY <2>3, <2>5
    <3>2. /\ e \in Seq(A)
          /\ \A x : (\E k \in DOMAIN e : e[k] = x) <=> x \in S /\ \E k \in 1 .. n : s[k] = x
          /\ IsInjective(s) => IsInjective(e)
      BY <2>1
    <3> HIDE DEF e, h
    <3>3. h \in Seq(A) /\ DOMAIN h = 1 .. Len(e) + 1 /\ h[Len(e) + 1] = s[n + 1]
          /\ \A k \in DOMAIN e : h[k] = e[k]
      BY <3>1, <3>2, <2>2
    <3>4. DOMAIN e = 1 .. Len(e) /\ Len(e) \in Nat
      BY <3>2
    <3>5. \A x : (\E k \in DOMAIN h : h[k] = x) <=> x \in S /\ \E k \in 1 .. n + 1 : s[k] = x
      <4> TAKE x
      <4>1. (\E k \in DOMAIN h : h[k] = x) <=> (\E k \in DOMAIN e : e[k] = x) \/ x = s[n + 1]
        BY <3>3, <3>4
      <4>2. (\E k \in 1 .. n + 1 : s[k] = x) <=> (\E k \in 1 .. n : s[k] = x) \/ s[n + 1] = x
        OBVIOUS
      <4> QED
        BY <4>1, <4>2, <3>2, <2>5
    <3>6. ASSUME IsInjective(s)
          PROVE  IsInjective(h)
      <4>1. \A k \in DOMAIN e : e[k] # s[n + 1]
        <5> SUFFICES ASSUME NEW k \in DOMAIN e, e[k] = s[n + 1]
                     PROVE  FALSE
          OBVIOUS
        <5>1. PICK l \in 1 .. n : s[l] = s[n + 1]
          BY <3>2
        <5>2. l \in DOMAIN s /\ n + 1 \in DOMAIN s /\ l # n + 1
          OBVIOUS
        <5> QED
          BY <5>1, <5>2, <3>6 DEF IsInjective
      <4> QED
        BY <4>1, <3>2, <3>3, <3>4, <3>6 DEF IsInjective
    <3> QED
      BY <3>3, <3>5, <3>6 DEF h
  <2> QED
    BY <2>4, <2>5
<1>8. Len(s) \in T
  <2>1. Len(s) \in Nat
    OBVIOUS
  <2> HIDE DEF T
  <2> QED
    BY <1>6, <1>7, <2>1, Induction
<1>9. Good(Len(s))
  BY <1>8
<1>10. ToSet(f[Len(s)]) = ToSet(s) \cap S
  <2>1. DOMAIN s = 1 .. Len(s)
    OBVIOUS
  <2> QED
    BY <1>9, <2>1 DEF ToSet
<1> QED
  BY <1>3, <1>9, <1>10

-----------------------------------------------------------------------------
(* The invariant. *)

Reasons == {"Success", "SystemError", "Refused", "NotSupportHeader", "PayloadDecodeError"}
Refusals == {"Refused", "NotSupportHeader", "PayloadDecodeError"}
AllKinds == PacketKinds \cup RequestKinds

\* Messages, sendacks, the local variables of goroutines, RECV packets and the
\* acknowledgements under way.
MsgRecs == [from : Users, to : Names, kind : AllKinds, api : BOOLEAN, seq : Nat]

AckRecs == [id : Nat, reason : Reasons, seq : Nat]

JobRecs == [pc : {"idle", "split", "store", "notify", "put", "meta", "end"},
            rest : Seq(Nat), msgs : Seq(Nat), items : Seq(Nat),
            subs : SUBSET Users, seqs : SUBSET (Users \X Nat \X Nat), acks : Seq(AckRecs)]

RecvRecs == [id : Nat, uid : Users, channel : Names, seq : Nat]

MoveRecs == [uid : Users, seq : Nat, last : Nat]

\* The types of the variables.  Of the store's calls only the fields that the
\* send path looks at matter, and of stream files that they are sequences.
Types ==
  /\ msg \in Seq(MsgRecs)
  /\ \A i \in DOMAIN msg : msg[i].from # msg[i].to
  /\ job \in [Procs -> JobRecs]
  /\ log \in [Topics -> Seq(Nat)]
  /\ queue \in [Users -> Seq(Nat)]
  /\ notify \subseteq Nat
  /\ replies \in Seq(Seq(AckRecs)) /\ Len(replies) = Len(msg)
  /\ delivered \subseteq RecvRecs
  /\ cursor \in [Users -> Nat \cup {None}]
  /\ moving \in [Ackers -> MoveRecs \cup {None}]
  /\ acked \in [Users -> Nat]

\* The calls to the store have a step, a kind and an item, and one that appends
\* appends an item of the run.
Appending(c, j) == c.op = "append" /\ c.pc \in {"made", "held", "write"}
                     => j.pc = "store" /\ j.items # <<>> /\ c.item = Head(j.items)

Calls ==
  /\ call = [p \in Procs |-> [pc |-> call[p].pc, op |-> call[p].op, topic |-> call[p].topic,
                              item |-> call[p].item, val |-> call[p].val, obj |-> call[p].obj,
                              seq |-> call[p].seq]]
  /\ \A p \in Procs : Appending(call[p], job[p]) /\ (call[p].pc = "write" => call[p].op = "append")
  /\ file = [t \in Topics |-> file[t]]
  /\ \A t \in Topics : \E Q : file[t] \in Seq(Q)

\* The messages a goroutine answers, and those it holds: it has yet to look at
\* them, is storing and delivering them, or has yet to answer them.
AckIds(j) == {r.id : r \in ToSet(j.acks)}
Holds(j) == ToSet(j.rest) \cup ToSet(j.msgs) \cup AckIds(j)

\* Each of them is held once.
OncePerId(rs) == \A k, l \in DOMAIN rs : rs[k].id = rs[l].id => k = l

Separate(j) ==
  /\ IsInjective(j.rest) /\ IsInjective(j.msgs) /\ OncePerId(j.acks)
  /\ ToSet(j.rest) \cap ToSet(j.msgs) = {}
  /\ ToSet(j.rest) \cap AckIds(j) = {}
  /\ ToSet(j.msgs) \cap AckIds(j) = {}

Custody ==
  /\ \A p \in Procs : Separate(job[p]) /\ Holds(job[p]) \subseteq DOMAIN msg
  /\ \A p, q \in Procs : p # q => Holds(job[p]) \cap Holds(job[q]) = {}
  /\ \A i \in DOMAIN msg :
       Len(replies[i]) = IF \E p \in Procs : i \in Holds(job[p]) THEN 0 ELSE 1

\* What a goroutine holds at which step.  A run is from one sender, what is stored
\* together goes to one channel, and a handler has one message; so the stream that
\* started is answered twice by nobody.
Shape(p, j) ==
  /\ j.pc = "idle" => j.rest = <<>>
  /\ j.pc \in {"idle", "end"} => j.acks = <<>>
  /\ j.pc \in {"store", "notify", "put"} <=> j.msgs # <<>>
  /\ j.pc = "meta" => j.rest = <<>> /\ AckIds(j) = {started} /\ Len(j.acks) = 1
  /\ j.pc \in {"meta", "end"} => p \in Handlers
  /\ p \in Handlers => Len(j.rest) + Len(j.msgs) + Len(j.acks) <= 1
  /\ ToSet(j.items) \subseteq ToSet(j.msgs)
  /\ j.pc \in {"notify", "put"} => j.items = <<>>
  /\ \A i \in ToSet(j.rest) \cup ToSet(j.msgs) :
       /\ msg[i].kind = "start" => p \in Handlers
       /\ j.pc = "end" => msg[i].kind = "end"
       /\ \A k \in ToSet(j.rest) \cup ToSet(j.msgs) : msg[i].from = msg[k].from
  /\ \A i, k \in ToSet(j.msgs) : msg[i].to = msg[k].to

Shapes ==
  /\ \A p \in Procs : Shape(p, job[p])
  /\ started # None => started \in DOMAIN msg
  /\ \A i \in DOMAIN msg : msg[i].kind = "start" => i = started

-----------------------------------------------------------------------------
\* Message i is in the sequence s at place n.
At(s, n, i) == n \in DOMAIN s /\ s[n] = i

\* What an answer to i claims.
Claims(i, r) ==
  /\ r.reason = "Success" =>
       /\ msg[i].kind \in {"plain", "start"} => At(log[FakeChannelID(msg[i].from, msg[i].to)], r.seq, i)
       /\ msg[i].kind = "syncOnce" => \A u \in Subscribers(msg[i]) : Contains(queue[u], i)
       /\ WebhookOn /\ msg[i].kind \notin {"ing", "command", "end"} => i \in notify
  /\ r.reason \in Refusals => ~Somewhere(i)

\* What was done for the messages at each step.
Done(j) ==
  /\ j.pc \in {"notify", "put"} =>
       \A i \in ToSet(j.msgs) : msg[i].kind \in {"plain", "start"} =>
         At(log[FakeChannelID(msg[i].from, msg[i].to)], msg[i].seq, i)
  /\ j.pc = "put" =>
       \A i \in ToSet(j.msgs) : WebhookOn /\ msg[i].kind \notin {"ing", "command"} => i \in notify
  /\ \A x \in j.seqs : At(queue[x[1]], x[3], x[2])
  /\ j.pc = "put" =>
       \A i \in ToSet(j.msgs) : msg[i].kind = "syncOnce" =>
         \A u \in Subscribers(msg[i]) \ j.subs : \E x \in j.seqs : x[1] = u /\ x[2] = i

Truth ==
  /\ \A p \in Procs : Done(job[p])
  /\ \A p \in Procs : \A r \in ToSet(job[p].acks) : Claims(r.id, r)
  /\ \A i \in DOMAIN msg : \A r \in ToSet(replies[i]) : Claims(i, r)
  \* What nobody has looked at yet is nowhere, and nothing is that has not come.
  /\ \A p \in Procs : \A i \in ToSet(job[p].rest) : ~Somewhere(i)
  /\ \A i \in Nat : Somewhere(i) => i <= Len(msg)

\* Delivered messages are not numbered again.
Deliveries ==
  /\ DeliveredWhereSaid
  /\ \A d \in delivered : d.id \in DOMAIN msg /\ FakeChannelID(d.uid, d.channel) \in Topics
  /\ \A d \in delivered : \A p \in Procs : d.id \notin ToSet(job[p].rest) \cup ToSet(job[p].msgs)

\* No cursor is above what was acknowledged, nor will be.
Cursors ==
  /\ \A u \in Users : cursor[u] # None => cursor[u] <= acked[u]
  /\ \A k \in Ackers : moving[k] # None => moving[k].seq <= acked[moving[k].uid]

MsgInv == Types /\ Calls /\ Custody /\ Shapes /\ Truth /\ Deliveries /\ Cursors

-----------------------------------------------------------------------------
(* Operators of the model. *)

\* The topic of a channel exists, and is the same seen from every subscriber.
LEMMA TopicSeen ==
  ASSUME NEW from \in Users, NEW to \in Names, from # to
  PROVE  /\ FakeChannelID(from, to) \in Topics
         /\ to # Group => FakeChannelID(to, from) = FakeChannelID(from, to)
         /\ \A u \in Users : to = Group => FakeChannelID(u, to) = FakeChannelID(from, to)
<1> USE DEF Names
<1>1. \A m, n \in Names : {<<n>>, GetFakeChannelIDWith(m, n)} \subseteq Topics \cup {<<n, n>>}
  BY MessageConstants
<1>2. Hash[from] \in Nat /\ Hash[to] \in Nat /\ Hash[from] # Hash[to]
  BY MessageConstants
<1>3. from # Group
  BY MessageConstants
<1>4. <<to>> \in Topics /\ GetFakeChannelIDWith(from, to) \in Topics
  <2>1. <<to>> # <<to, to>>
    OBVIOUS
  <2>2. GetFakeChannelIDWith(from, to) # <<to, to>>
    BY DEF GetFakeChannelIDWith
  <2> QED
    BY <1>1, <2>1, <2>2
<1>5. GetFakeChannelIDWith(from, to) = GetFakeChannelIDWith(to, from)
  BY <1>2 DEF GetFakeChannelIDWith
<1> QED
  BY <1>3, <1>4, <1>5 DEF FakeChannelID

\* Sendacks are as many as the messages they answer.
LEMMA Sendacks ==
  ASSUME NEW ids \in Seq(Nat), NEW reason \in Reasons
  PROVE  LET rs == getSendackPacketWithSendPacket(ids, reason)
         IN /\ rs \in Seq(AckRecs) /\ Len(rs) = Len(ids)
            /\ {r.id : r \in ToSet(rs)} = ToSet(ids)
            /\ \A r \in ToSet(rs) : r.reason = reason
            /\ IsInjective(ids) => OncePerId(rs)
<1> DEFINE rs == [k \in DOMAIN ids |-> [id |-> ids[k], reason |-> reason, seq |-> 0]]
<1>1. rs = [k \in 1 .. Len(ids) |-> [id |-> ids[k], reason |-> reason, seq |-> 0]]
      /\ DOMAIN ids = 1 .. Len(ids) /\ Len(ids) \in Nat
  OBVIOUS
<1>2. \A k \in 1 .. Len(ids) : [id |-> ids[k], reason |-> reason, seq |-> 0] \in AckRecs
  BY <1>1 DEF AckRecs
<1>3. rs \in Seq(AckRecs) /\ Len(rs) = Len(ids) /\ DOMAIN rs = DOMAIN ids
  BY <1>1, <1>2
<1>4. \A k \in DOMAIN ids : rs[k].id = ids[k] /\ rs[k].reason = reason
  OBVIOUS
<1> HIDE DEF rs
<1>5. {r.id : r \in ToSet(rs)} = ToSet(ids) /\ \A r \in ToSet(rs) : r.reason = reason
  BY <1>3, <1>4 DEF ToSet
<1>6. IsInjective(ids) => OncePerId(rs)
  BY <1>3, <1>4 DEF IsInjective, OncePerId
<1>7. getSendackPacketWithSendPacket(ids, reason) = rs
  BY DEF rs, getSendackPacketWithSendPacket
<1> QED
  BY <1>3, <1>5, <1>6, <1>7

\* The same for sendacks with the numbers of the messages.
LEMMA NumberedSendacks ==
  ASSUME NEW ms \in Seq(MsgRecs), NEW ids \in Seq(Nat), ToSet(ids) \subseteq DOMAIN ms,
         NEW reason \in Reasons
  PROVE  LET rs == getSendackPacket(ids, ms, reason)
         IN /\ rs \in Seq(AckRecs) /\ Len(rs) = Len(ids)
            /\ {r.id : r \in ToSet(rs)} = ToSet(ids)
            /\ \A r \in ToSet(rs) : r.reason = reason /\ r.seq = ms[r.id].seq
            /\ IsInjective(ids) => OncePerId(rs)
<1> DEFINE rs == [k \in DOMAIN ids |-> [id |-> ids[k], reason |-> reason, seq |-> ms[ids[k]].seq]]
<1>1. rs = [k \in 1 .. Len(ids) |-> [id |-> ids[k], reason |-> reason, seq |-> ms[ids[k]].seq]]
      /\ DOMAIN ids = 1 .. Len(ids) /\ Len(ids) \in Nat
  OBVIOUS
<1>2. \A k \in 1 .. Len(ids) : [id |-> ids[k], reason |-> reason, seq |-> ms[ids[k]].seq] \in AckRecs
  <2> TAKE k \in 1 .. Len(ids)
  <2>1. ids[k] \in DOMAIN ms
    BY <1>1 DEF ToSet
  <2>2. ms[ids[k]] \in MsgRecs
    BY <2>1
  <2>3. ms[ids[k]].seq \in Nat
    BY <2>2 DEF MsgRecs
  <2> QED
    BY <1>1, <2>3 DEF AckRecs
<1>3. rs \in Seq(AckRecs) /\ Len(rs) = Len(ids) /\ DOMAIN rs = DOMAIN ids
  BY <1>1, <1>2
<1>4. \A k \in DOMAIN ids : rs[k].id = ids[k] /\ rs[k].reason = reason /\ rs[k].seq = ms[ids[k]].seq
  OBVIOUS
<1> HIDE DEF rs
<1>5. {r.id : r \in ToSet(rs)} = ToSet(ids)
      /\ \A r \in ToSet(rs) : r.reason = reason /\ r.seq = ms[r.id].seq
  <2>1. {r.id : r \in ToSet(rs)} = ToSet(ids)
    BY <1>3, <1>4, SMTT(30) DEF ToSet
  <2>2. ASSUME NEW r \in ToSet(rs)
        PROVE  r.reason = reason /\ r.seq = ms[r.id].seq
    <3>1. PICK k \in DOMAIN rs : r = rs[k]
      BY DEF ToSet
    <3>2. r.reason = reason /\ r.id = ids[k] /\ r.seq = ms[ids[k]].seq
      BY <1>3, <1>4, <3>1
    <3> QED
      BY <3>2
  <2> QED
    BY <2>1, <2>2
<1>6. IsInjective(ids) => OncePerId(rs)
  BY <1>3, <1>4 DEF IsInjective, OncePerId
<1>7. getSendackPacket(ids, ms, reason) = rs
  BY DEF rs, getSendackPacket
<1> QED
  BY <1>3, <1>5, <1>6, <1>7

\* Two runs of sendacks, one after the other.
LEMMA SendacksJoined ==
  ASSUME NEW rs \in Seq(AckRecs), NEW ss \in Seq(AckRecs), OncePerId(rs), OncePerId(ss),
         {r.id : r \in ToSet(rs)} \cap {r.id : r \in ToSet(ss)} = {}
  PROVE  /\ rs \o ss \in Seq(AckRecs) /\ Len(rs \o ss) = Len(rs) + Len(ss)
         /\ ToSet(rs \o ss) = ToSet(rs) \cup ToSet(ss)
         /\ OncePerId(rs \o ss)
<1> DEFINE ts == rs \o ss
<1>1. ts \in Seq(AckRecs) /\ Len(ts) = Len(rs) + Len(ss) /\ DOMAIN ts = 1 .. Len(rs) + Len(ss)
      /\ DOMAIN rs = 1 .. Len(rs) /\ DOMAIN ss = 1 .. Len(ss) /\ Len(rs) \in Nat /\ Len(ss) \in Nat
  OBVIOUS
<1>2. /\ \A k \in 1 .. Len(rs) : ts[k] = rs[k]
      /\ \A k \in 1 .. Len(ss) : ts[Len(rs) + k] = ss[k]
  OBVIOUS
<1> HIDE DEF ts
<1>3. \A k \in DOMAIN ts : k \in 1 .. Len(rs) \/ \E l \in 1 .. Len(ss) : k = Len(rs) + l
  <2> TAKE k \in DOMAIN ts
  <2>1. CASE k > Len(rs)
    <3>1. k - Len(rs) \in 1 .. Len(ss) /\ k = Len(rs) + (k - Len(rs))
      BY <1>1, <2>1
    <3> QED
      BY <3>1
  <2> QED
    BY <1>1, <2>1
<1>4. ToSet(ts) = ToSet(rs) \cup ToSet(ss)
  <2>1. ToSet(ts) \subseteq ToSet(rs) \cup ToSet(ss)
    <3> SUFFICES ASSUME NEW k \in DOMAIN ts
                 PROVE  ts[k] \in ToSet(rs) \cup ToSet(ss)
      BY DEF ToSet
    <3>1. CASE k \in 1 .. Len(rs)
      BY <1>1, <1>2, <3>1 DEF ToSet
    <3>2. ASSUME NEW l \in 1 .. Len(ss), k = Len(rs) + l
          PROVE  ts[k] \in ToSet(ss)
      BY <1>1, <1>2, <3>2 DEF ToSet
    <3> QED
      BY <1>3, <3>1, <3>2
  <2>2. \A k \in 1 .. Len(ss) : Len(rs) + k \in DOMAIN ts
    BY <1>1
  <2>3. \A k \in 1 .. Len(rs) : k \in DOMAIN ts
    BY <1>1
  <2> QED
    BY <1>1, <1>2, <2>1, <2>2, <2>3 DEF ToSet
<1>5. OncePerId(ts)
  <2> SUFFICES ASSUME NEW k \in DOMAIN ts, NEW l \in DOMAIN ts, ts[k].id = ts[l].id
               PROVE  k = l
    BY DEF OncePerId
  <2>1. \A m \in 1 .. Len(rs), n \in 1 .. Len(ss) : rs[m].id # ss[n].id
    BY <1>1 DEF ToSet
  <2>2. CASE k \in 1 .. Len(rs) /\ l \in 1 .. Len(rs)
    BY <1>1, <1>2, <2>2 DEF OncePerId
  <2>3. CASE k \notin 1 .. Len(rs) /\ l \notin 1 .. Len(rs)
    <3>1. PICK m \in 1 .. Len(ss) : k = Len(rs) + m
      BY <1>3, <2>3
    <3>2. PICK n \in 1 .. Len(ss) : l = Len(rs) + n
      BY <1>3, <2>3
    <3>3. ss[m].id = ss[n].id
      BY <1>2, <3>1, <3>2
    <3> QED
      BY <1>1, <3>1, <3>2, <3>3 DEF OncePerId
  <2>4. ASSUME NEW m \in DOMAIN ts, NEW n \in DOMAIN ts, ts[m].id = ts[n].id,
               m \in 1 .. Len(rs), n \notin 1 .. Len(rs)
        PROVE  FALSE
    <3>1. PICK o \in 1 .. Len(ss) : n = Len(rs) + o
      BY <1>3, <2>4
    <3> QED
      BY <1>2, <2>1, <2>4, <3>1
  <2> QED
    BY <2>2, <2>3, <2>4
<1> QED
  BY <1>1, <1>4, <1>5 DEF ts

\* Respond gives each message the answers that are for it.
LEMMA Answers ==
  ASSUME NEW rs \in Seq(AckRecs), OncePerId(rs), replies \in Seq(Seq(AckRecs)), Respond(rs)
  PROVE  /\ replies' \in Seq(Seq(AckRecs)) /\ Len(replies') = Len(replies)
         /\ \A i \in DOMAIN replies :
              /\ Len(replies'[i]) = Len(replies[i]) + (IF i \in {r.id : r \in ToSet(rs)} THEN 1 ELSE 0)
              /\ \A r \in ToSet(replies'[i]) : r \in ToSet(replies[i]) \/ (r \in ToSet(rs) /\ r.id = i)
<1> DEFINE mine(i) == Only(rs, {r \in ToSet(rs) : r.id = i})
<1>1. \A i : /\ mine(i) \in Seq(AckRecs)
             /\ ToSet(mine(i)) = {r \in ToSet(rs) : r.id = i}
             /\ IsInjective(mine(i))
  <2> TAKE i
  <2>1. IsInjective(rs)
    BY DEF OncePerId, IsInjective
  <2> QED
    BY <2>1, OnlyKeeps
<1>2. replies' = [i \in 1 .. Len(replies) |-> replies[i] \o mine(i)]
      /\ DOMAIN replies = 1 .. Len(replies)
  BY DEF Respond
<1> HIDE DEF mine
<1>3. \A i \in DOMAIN replies : replies[i] \o mine(i) \in Seq(AckRecs)
  BY <1>1
<1>4. replies' \in Seq(Seq(AckRecs)) /\ Len(replies') = Len(replies)
  <2> DEFINE both == [i \in 1 .. Len(replies) |-> replies[i] \o mine(i)]
  <2>1. \A i \in 1 .. Len(replies) : replies[i] \o mine(i) \in Seq(AckRecs)
    BY <1>2, <1>3
  <2>2. Len(replies) \in Nat
    OBVIOUS
  <2>3. both \in Seq(Seq(AckRecs)) /\ Len(both) = Len(replies)
    BY <2>1, <2>2
  <2> QED
    BY <1>2, <2>3
<1>5. ASSUME NEW i \in DOMAIN replies
      PROVE  Len(mine(i)) = IF i \in {r.id : r \in ToSet(rs)} THEN 1 ELSE 0
  <2>1. mine(i) \in Seq(AckRecs) /\ DOMAIN mine(i) = 1 .. Len(mine(i)) /\ Len(mine(i)) \in Nat
    BY <1>1
  <2>2. \A r, s \in ToSet(rs) : r.id = s.id => r = s
    BY DEF OncePerId, ToSet
  <2>3. \A k \in DOMAIN mine(i) : mine(i)[k] \in ToSet(rs) /\ mine(i)[k].id = i
    <3> TAKE k \in DOMAIN mine(i)
    <3>1. mine(i)[k] \in ToSet(mine(i))
      BY DEF ToSet
    <3> QED
      BY <1>1, <3>1
  <2>4. \A k, l \in DOMAIN mine(i) : k = l
    BY <1>1, <2>2, <2>3 DEF IsInjective
  <2>5. CASE i \in {r.id : r \in ToSet(rs)}
    <3>1. PICK r \in ToSet(rs) : r.id = i
      BY <2>5
    <3>2. DOMAIN mine(i) # {}
      BY <1>1, <3>1 DEF ToSet
    <3>3. Len(mine(i)) >= 1
      BY <2>1, <3>2
    <3>4. ~(Len(mine(i)) >= 2)
      <4> SUFFICES ASSUME Len(mine(i)) >= 2 PROVE FALSE
        OBVIOUS
      <4>1. 1 \in DOMAIN mine(i) /\ 2 \in DOMAIN mine(i)
        BY <2>1
      <4> QED
        BY <2>4, <4>1
    <3> QED
      BY <2>1, <2>5, <3>3, <3>4
  <2>6. CASE i \notin {r.id : r \in ToSet(rs)}
    <3>1. DOMAIN mine(i) = {}
      BY <2>3, <2>6
    <3> QED
      BY <2>1, <2>6, <3>1
  <2> QED
    BY <2>5, <2>6
<1>6. ASSUME NEW i \in DOMAIN replies
      PROVE  /\ Len(replies'[i]) = Len(replies[i]) + Len(mine(i))
             /\ \A r \in ToSet(replies'[i]) : r \in ToSet(replies[i]) \/ r \in ToSet(mine(i))
  <2>1. replies'[i] = replies[i] \o mine(i)
    BY <1>2
  <2>2. replies[i] \in Seq(AckRecs) /\ mine(i) \in Seq(AckRecs)
    BY <1>1
  <2> DEFINE a == replies[i]  b == mine(i)  c == a \o b
  <2>3. a \in Seq(AckRecs) /\ b \in Seq(AckRecs) /\ c = a \o b
    BY <2>2
  <2> HIDE DEF a, b, c
  <2>4. /\ Len(c) = Len(a) + Len(b)
        /\ \A k \in DOMAIN c : (k \in DOMAIN a /\ c[k] = a[k])
                               \/ (k - Len(a) \in DOMAIN b /\ c[k] = b[k - Len(a)])
    BY <2>3
  <2>5. \A r \in ToSet(c) : r \in ToSet(a) \/ r \in ToSet(b)
    BY <2>4 DEF ToSet
  <2> QED
    BY <2>1, <2>4, <2>5 DEF a, b, c
<1> QED
  BY <1>1, <1>4, <1>5, <1>6

-----------------------------------------------------------------------------
(* Steps.  A goroutine p goes on to j and answers the messages in A; what the *)
(* other goroutines hold and what was promised is not disturbed.             *)

Extends(f, g) == \A x \in DOMAIN f : \A n \in DOMAIN f[x] : n \in DOMAIN g[x] /\ g[x][n] = f[x][n]

\* Messages are numbered by the goroutine that stores them, and otherwise stay.
SameMessages(p) ==
  /\ msg' \in Seq(MsgRecs) /\ Len(msg') = Len(msg)
  /\ \A i \in DOMAIN msg :
       /\ msg'[i].from = msg[i].from /\ msg'[i].to = msg[i].to /\ msg'[i].kind = msg[i].kind
       /\ msg'[i].seq # msg[i].seq => job[p].pc = "store" /\ i \in ToSet(job[p].msgs)

\* Logs and queues grow, by the messages that are being stored or delivered.
Grows(p) ==
  /\ log' \in [Topics -> Seq(Nat)] /\ Extends(log, log')
  /\ queue' \in [Users -> Seq(Nat)] /\ Extends(queue, queue')
  /\ notify \subseteq notify' /\ notify' \subseteq Nat
  /\ \A i \in Nat \ {0} : Somewhere(i)' => Somewhere(i) \/ i \in ToSet(job[p].msgs)
  /\ delivered' \subseteq RecvRecs

\* What was held is held or answered.
Moves(p, j, A) ==
  /\ j \in JobRecs /\ job' = [job EXCEPT ![p] = j]
  /\ Separate(j) /\ Holds(j) \cap A = {} /\ Holds(j) \cup A = Holds(job[p])
  /\ ToSet(j.rest) \subseteq ToSet(job[p].rest)
  /\ ToSet(j.msgs) \subseteq ToSet(job[p].rest) \cup ToSet(job[p].msgs)
  /\ replies' \in Seq(Seq(AckRecs)) /\ Len(replies') = Len(replies)
  /\ \A i \in DOMAIN replies : Len(replies'[i]) = Len(replies[i]) + (IF i \in A THEN 1 ELSE 0)

\* Whatever is new is true.
Truthful(p, j) ==
  /\ Shape(p, j)' /\ Done(j)'
  /\ \A r \in ToSet(j.acks) : r \in ToSet(job[p].acks) \/ Claims(r.id, r)'
  /\ \A i \in DOMAIN replies : \A r \in ToSet(replies'[i]) : r \in ToSet(replies[i]) \/ Claims(i, r)'
  /\ \A d \in delivered' : d \in delivered
       \/ /\ d.id \in ToSet(job[p].msgs) /\ d.id \notin ToSet(j.msgs)
          /\ LET t == FakeChannelID(d.uid, d.channel)
             IN /\ t \in Topics
                /\ msg[d.id].kind \in {"plain", "start"} => At(log'[t], d.seq, d.id)
                /\ msg[d.id].kind = "syncOnce" => At(queue'[d.uid], d.seq, d.id)

Step(p, j, A) ==
  /\ SameMessages(p) /\ Grows(p) /\ Moves(p, j, A) /\ Truthful(p, j)
  /\ UNCHANGED <<started, cursor, moving, acked>>

\* Custody after a step: nobody else held what p holds or answers.
LEMMA StepCustody ==
  ASSUME NEW p \in Procs, NEW j, NEW A, Types, Custody, SameMessages(p), Moves(p, j, A)
  PROVE  Custody'
<1>1. job' = [job EXCEPT ![p] = j] /\ job \in [Procs -> JobRecs]
  BY DEF Moves, Types
<1>2. \A q \in Procs : job'[q] = IF q = p THEN j ELSE job[q]
  BY <1>1
<1>3. Holds(j) \subseteq Holds(job[p]) /\ A \subseteq Holds(job[p]) /\ Separate(j)
      /\ Holds(j) \cap A = {} /\ Holds(job[p]) \subseteq Holds(j) \cup A
  BY DEF Moves
<1>4. DOMAIN msg' = DOMAIN msg
  BY DEF SameMessages, Types
<1>5. DOMAIN msg = DOMAIN replies
  BY DEF Types
<1>6. \A q \in Procs : Separate(job'[q]) /\ Holds(job'[q]) \subseteq DOMAIN msg'
  BY <1>2, <1>3, <1>4 DEF Custody
<1>7. \A q, r \in Procs : q # r => Holds(job'[q]) \cap Holds(job'[r]) = {}
  BY <1>2, <1>3 DEF Custody
<1>8. ASSUME NEW i \in DOMAIN msg
      PROVE  Len(replies'[i]) = IF \E q \in Procs : i \in Holds(job'[q]) THEN 0 ELSE 1
  <2>1. /\ Len(replies'[i]) = Len(replies[i]) + (IF i \in A THEN 1 ELSE 0)
        /\ Len(replies[i]) = IF \E q \in Procs : i \in Holds(job[q]) THEN 0 ELSE 1
    BY <1>5 DEF Moves, Custody
  <2>2. CASE i \in A
    <3>1. i \in Holds(job[p]) /\ i \notin Holds(j)
      BY <1>3, <2>2
    <3>2. \A q \in Procs : i \notin Holds(job'[q])
      BY <1>2, <3>1 DEF Custody
    <3> QED
      BY <2>1, <2>2, <3>1, <3>2
  <2>3. CASE i \notin A
    <3>1. \A q \in Procs : i \in Holds(job'[q]) <=> i \in Holds(job[q])
      BY <1>2, <1>3, <2>3
    <3> QED
      BY <2>1, <2>3, <3>1
  <2> QED
    BY <2>2, <2>3
<1> QED
  BY <1>4, <1>6, <1>7, <1>8 DEF Custody

\* Facts about messages that do not depend on their numbers.
LEMMA StepMessages ==
  ASSUME NEW p \in Procs, Types, SameMessages(p)
  PROVE  /\ DOMAIN msg' = DOMAIN msg
         /\ \A i \in DOMAIN msg : /\ FakeChannelID(msg'[i].from, msg'[i].to) \in Topics
                                  /\ FakeChannelID(msg'[i].from, msg'[i].to) = FakeChannelID(msg[i].from, msg[i].to)
                                  /\ Subscribers(msg'[i]) = Subscribers(msg[i])
                                  /\ Subscribers(msg[i]) \subseteq Users
<1>1. DOMAIN msg' = DOMAIN msg
  BY DEF SameMessages, Types
<1>2. ASSUME NEW i \in DOMAIN msg
      PROVE  msg[i].from \in Users /\ msg[i].to \in Names /\ msg[i].from # msg[i].to
  <2>1. msg[i] \in MsgRecs
    BY DEF Types
  <2> QED
    BY <2>1 DEF MsgRecs, Types
<1>3. ASSUME NEW i \in DOMAIN msg
      PROVE  FakeChannelID(msg[i].from, msg[i].to) \in Topics
  BY <1>2, TopicSeen
<1>4. ASSUME NEW i \in DOMAIN msg
      PROVE  msg'[i].from = msg[i].from /\ msg'[i].to = msg[i].to
  BY DEF SameMessages
<1>5. ASSUME NEW i \in DOMAIN msg
      PROVE  Subscribers(msg[i]) \subseteq Users /\ Subscribers(msg'[i]) = Subscribers(msg[i])
  BY <1>2, <1>4 DEF Subscribers, Names
<1> QED
  BY <1>1, <1>3, <1>4, <1>5

\* A claim stays true while what it is about is not being stored.
LEMMA StepClaims ==
  ASSUME NEW p \in Procs, Types, SameMessages(p), Grows(p),
         NEW i \in DOMAIN msg, i \notin ToSet(job[p].msgs), NEW r, Claims(i, r)
  PROVE  Claims(i, r)'
<1>1. /\ DOMAIN msg' = DOMAIN msg
      /\ FakeChannelID(msg'[i].from, msg'[i].to) = FakeChannelID(msg[i].from, msg[i].to)
      /\ FakeChannelID(msg[i].from, msg[i].to) \in Topics
      /\ Subscribers(msg'[i]) = Subscribers(msg[i]) /\ Subscribers(msg[i]) \subseteq Users
      /\ msg'[i].kind = msg[i].kind
  BY StepMessages DEF SameMessages
<1>2. i \in Nat \ {0}
  BY DEF Types
<1>3. \A t \in Topics : \A n : At(log[t], n, i) => At(log'[t], n, i)
  BY DEF Grows, Extends, At, Types
<1>4. \A u \in Users : Contains(queue[u], i) => Contains(queue'[u], i)
  <2> SUFFICES ASSUME NEW u \in Users, Contains(queue[u], i)
               PROVE  Contains(queue'[u], i)
    OBVIOUS
  <2>1. queue[u] \in Seq(Nat) /\ queue'[u] \in Seq(Nat)
    BY DEF Types, Grows
  <2>2. PICK n \in 1 .. Len(queue[u]) : queue[u][n] = i
    BY DEF Contains
  <2>3. n \in DOMAIN queue'[u] /\ queue'[u][n] = i
    BY <2>1, <2>2 DEF Grows, Extends, Types
  <2>4. DOMAIN queue'[u] = 1 .. Len(queue'[u])
    BY <2>1
  <2> QED
    BY <2>3, <2>4 DEF Contains
<1>5. r.reason \in Refusals => ~Somewhere(i)'
  BY <1>2 DEF Grows, Claims
<1>6. i \in notify => i \in notify'
  BY DEF Grows
<1>7. r.reason = "Success" =>
       /\ msg'[i].kind \in {"plain", "start"} => At(log'[FakeChannelID(msg'[i].from, msg'[i].to)], r.seq, i)
       /\ msg'[i].kind = "syncOnce" => \A u \in Subscribers(msg'[i]) : Contains(queue'[u], i)
       /\ WebhookOn /\ msg'[i].kind \notin {"ing", "command", "end"} => i \in notify'
  BY <1>1, <1>3, <1>4, <1>6 DEF Claims
<1> QED
  BY <1>5, <1>7 DEF Claims

\* What was done for the messages of another goroutine stays done.
LEMMA StepDone ==
  ASSUME NEW p \in Procs, NEW q \in Procs, q # p, Types, Custody, SameMessages(p), Grows(p),
         Done(job[q]), NEW j, j = job[q]
  PROVE  Done(j)'
<1>1. ToSet(j.msgs) \subseteq DOMAIN msg /\ \A i \in ToSet(j.msgs) : i \notin ToSet(job[p].msgs)
  BY DEF Custody, Holds
<1>2. \A i \in ToSet(j.msgs) :
        /\ FakeChannelID(msg'[i].from, msg'[i].to) = FakeChannelID(msg[i].from, msg[i].to)
        /\ FakeChannelID(msg[i].from, msg[i].to) \in Topics
        /\ Subscribers(msg'[i]) = Subscribers(msg[i])
        /\ msg'[i].kind = msg[i].kind /\ msg'[i].seq = msg[i].seq
  BY <1>1, StepMessages DEF SameMessages
<1>3. \A t \in Topics : \A n, i : At(log[t], n, i) => At(log'[t], n, i)
  BY DEF Grows, Extends, At, Types
<1>4. \A u \in Users : \A n, i : At(queue[u], n, i) => At(queue'[u], n, i)
  BY DEF Grows, Extends, At, Types
<1>5. \A x \in j.seqs : x[1] \in Users
  <2>1. j \in JobRecs
    BY DEF Types
  <2> QED
    BY <2>1 DEF JobRecs
<1>6. notify \subseteq notify'
  BY DEF Grows
<1>7. j.pc \in {"notify", "put"} =>
        \A i \in ToSet(j.msgs) : msg'[i].kind \in {"plain", "start"} =>
          At(log'[FakeChannelID(msg'[i].from, msg'[i].to)], msg'[i].seq, i)
  BY <1>2, <1>3 DEF Done
<1>8. j.pc = "put" =>
        \A i \in ToSet(j.msgs) : WebhookOn /\ msg'[i].kind \notin {"ing", "command"} => i \in notify'
  BY <1>2, <1>6 DEF Done
<1>9. \A x \in j.seqs : At(queue'[x[1]], x[3], x[2])
  BY <1>4, <1>5 DEF Done
<1>10. j.pc = "put" =>
        \A i \in ToSet(j.msgs) : msg'[i].kind = "syncOnce" =>
          \A u \in Subscribers(msg'[i]) \ j.subs : \E x \in j.seqs : x[1] = u /\ x[2] = i
  BY <1>2 DEF Done
<1> QED
  BY <1>7, <1>8, <1>9, <1>10 DEF Done

\* A step preserves everything but what is said of the calls to the store.
Settled == Types /\ Custody /\ Shapes /\ Truth /\ Deliveries /\ Cursors

\* Step by step all of it stays.
LEMMA StepSettled ==
  ASSUME NEW p \in Procs, NEW j, NEW A, Settled, Step(p, j, A)
  PROVE  Settled'
<1> USE DEF Settled, Step
<1>1. job' = [job EXCEPT ![p] = j] /\ job \in [Procs -> JobRecs] /\ j \in JobRecs
  BY DEF Moves, Types
<1>2. \A q \in Procs : job'[q] = IF q = p THEN j ELSE job[q]
  BY <1>1
<1>3. DOMAIN msg' = DOMAIN msg /\ DOMAIN msg = DOMAIN replies /\ DOMAIN replies' = DOMAIN replies
      /\ Len(msg') = Len(msg) /\ DOMAIN msg = 1 .. Len(msg) /\ Len(msg) \in Nat
  BY DEF SameMessages, Types, Moves
<1>4. \A i \in DOMAIN msg : msg'[i].from = msg[i].from /\ msg'[i].to = msg[i].to
                            /\ msg'[i].kind = msg[i].kind
  BY DEF SameMessages
<1>5. Types'
  <2>1. job' \in [Procs -> JobRecs]
    BY <1>1
  <2>2. \A i \in DOMAIN msg' : msg'[i].from # msg'[i].to
    BY <1>3, <1>4 DEF Types
  <2>3. replies' \in Seq(Seq(AckRecs)) /\ Len(replies') = Len(msg')
    BY <1>3 DEF Types, Moves
  <2>4. /\ cursor' \in [Users -> Nat \cup {None}]
        /\ moving' \in [Ackers -> MoveRecs \cup {None}]
        /\ acked' \in [Users -> Nat]
    BY DEF Types
  <2> QED
    BY <2>1, <2>2, <2>3, <2>4, SMTT(30) DEF Types, SameMessages, Grows
<1>6. Custody'
  BY StepCustody
<1>7. Shapes'
  <2>1. ASSUME NEW q \in Procs
        PROVE  Shape(q, job[q])' 
    <3>1. CASE q = p
      BY <1>2, <3>1, ZenonT(60) DEF Truthful, Shape
    <3>2. CASE q # p
      <4>1. PICK k : k = job[q]
        OBVIOUS
      <4>2. job'[q] = k /\ Shape(q, k)
        BY <1>2, <3>2, <4>1 DEF Shapes
      <4>3. ToSet(k.rest) \cup ToSet(k.msgs) \subseteq DOMAIN msg
        BY <4>1 DEF Custody, Holds
      <4>4. /\ \A i \in ToSet(k.rest) \cup ToSet(k.msgs) :
                 /\ msg'[i].kind = "start" => q \in Handlers
                 /\ k.pc = "end" => msg'[i].kind = "end"
                 /\ \A l \in ToSet(k.rest) \cup ToSet(k.msgs) : msg'[i].from = msg'[l].from
            /\ \A i, l \in ToSet(k.msgs) : msg'[i].to = msg'[l].to
        BY <1>4, <4>2, <4>3 DEF Shape
      <4>5. Shape(q, k)'
        BY <4>2, <4>4 DEF Shape
      <4> QED
        BY <4>2, <4>5 DEF Shape
    <3> QED
      BY <3>1, <3>2
  <2>2. /\ started' # None => started' \in DOMAIN msg'
        /\ \A i \in DOMAIN msg' : msg'[i].kind = "start" => i = started'
    BY <1>3, <1>4 DEF Shapes
  <2> QED
    BY <2>1, <2>2 DEF Shapes
<1>8. Truth'
  <2>1. ASSUME NEW q \in Procs
        PROVE  Done(job[q])'
    <3>1. CASE q = p
      BY <1>2, <3>1 DEF Truthful, Done
    <3>2. CASE q # p
      <4>1. PICK k : k = job[q]
        OBVIOUS
      <4>2. job'[q] = k /\ Done(job[q])
        BY <1>2, <3>2, <4>1 DEF Truth
      <4>3. Done(k)'
        BY <3>2, <4>1, <4>2, StepDone
      <4> QED
        BY <4>2, <4>3 DEF Done
    <3> QED
      BY <3>1, <3>2
  <2>2. ASSUME NEW q \in Procs, NEW r \in ToSet(job'[q].acks)
        PROVE  Claims(r.id, r)'
    <3>1. CASE r \in ToSet(job[q].acks)
      <4>1. Claims(r.id, r)
        BY <3>1 DEF Truth
      <4>2. r.id \in DOMAIN msg /\ r.id \notin ToSet(job[p].msgs)
        <5>1. r.id \in AckIds(job[q])
          BY <3>1 DEF AckIds
        <5>2. CASE q = p
          BY <5>1, <5>2 DEF Custody, Separate, Holds
        <5>3. CASE q # p
          BY <5>1, <5>3 DEF Custody, Holds
        <5> QED
          BY <5>2, <5>3
      <4> QED
        BY <4>1, <4>2, StepClaims
    <3>2. CASE r \notin ToSet(job[q].acks)
      <4>1. q = p /\ r \in ToSet(j.acks)
        BY <1>2, <3>2
      <4> QED
        BY <3>2, <4>1 DEF Truthful
    <3> QED
      BY <3>1, <3>2
  <2>3. ASSUME NEW i \in DOMAIN msg, NEW r \in ToSet(replies'[i])
        PROVE  Claims(i, r)'
    <3>1. CASE r \in ToSet(replies[i])
      <4>1. Claims(i, r)
        BY <3>1 DEF Truth
      <4>2. Len(replies[i]) # 0
        <5>1. replies[i] \in Seq(AckRecs)
          BY <1>3 DEF Types
        <5> QED
          BY <3>1, <5>1 DEF ToSet
      <4>3. i \notin ToSet(job[p].msgs)
        BY <4>2 DEF Custody, Holds
      <4> QED
        BY <4>1, <4>3, StepClaims
    <3>2. CASE r \notin ToSet(replies[i])
      BY <1>3, <3>2 DEF Truthful
    <3> QED
      BY <3>1, <3>2
  <2>4. ASSUME NEW q \in Procs, NEW i \in ToSet(job'[q].rest)
        PROVE  ~Somewhere(i)'
    <3>1. i \in ToSet(job[q].rest)
      BY <1>2 DEF Moves
    <3>2. ~Somewhere(i)
      BY <3>1 DEF Truth
    <3>3. i \in DOMAIN msg /\ i \notin ToSet(job[p].msgs)
      BY <3>1 DEF Custody, Separate, Holds
    <3>4. i \in Nat \ {0}
      BY <1>3, <3>3
    <3> QED
      BY <3>2, <3>3, <3>4 DEF Grows
  <2>5. ASSUME NEW i \in Nat, Somewhere(i)'
        PROVE  i <= Len(msg')
    <3>1. ToSet(job[p].msgs) \subseteq DOMAIN msg
      BY DEF Custody, Holds
    <3>2. CASE i = 0
      BY <1>3, <3>2
    <3>3. CASE i # 0 /\ Somewhere(i)
      BY <1>3, <3>3 DEF Truth
    <3>4. CASE i \in ToSet(job[p].msgs)
      BY <1>3, <3>1, <3>4
    <3> QED
      BY <2>5, <3>2, <3>3, <3>4 DEF Grows
  <2> QED
    BY <1>3, <2>1, <2>2, <2>3, <2>4, <2>5 DEF Truth
<1>9. Deliveries'
  <2>1. \A t \in Topics : \A n, i : At(log[t], n, i) => At(log'[t], n, i)
    BY DEF Grows, Extends, At, Types
  <2>2. \A u \in Users : \A n, i : At(queue[u], n, i) => At(queue'[u], n, i)
    BY DEF Grows, Extends, At, Types
  <2>3. \A d \in delivered' : d.uid \in Users
    BY DEF Grows, RecvRecs
  <2>4. ASSUME NEW d \in delivered'
        PROVE  LET t == FakeChannelID(d.uid, d.channel)
               IN /\ d.id \in DOMAIN msg /\ t \in Topics
                  /\ msg[d.id].kind \in {"plain", "start"} => At(log'[t], d.seq, d.id)
                  /\ msg[d.id].kind = "syncOnce" => At(queue'[d.uid], d.seq, d.id)
                  /\ \A q \in Procs : d.id \notin ToSet(job'[q].rest) \cup ToSet(job'[q].msgs)
    <3> DEFINE t == FakeChannelID(d.uid, d.channel)
    <3>1. CASE d \in delivered
      <4>1. /\ d.id \in DOMAIN msg /\ t \in Topics
            /\ msg[d.id].kind \in {"plain", "start"} => At(log[t], d.seq, d.id)
            /\ msg[d.id].kind = "syncOnce" => At(queue[d.uid], d.seq, d.id)
        BY <3>1 DEF Deliveries, DeliveredWhereSaid, At
      <4>2. \A q \in Procs : d.id \notin ToSet(job[q].rest) \cup ToSet(job[q].msgs)
        BY <3>1 DEF Deliveries
      <4>3. \A q \in Procs : d.id \notin ToSet(job'[q].rest) \cup ToSet(job'[q].msgs)
        BY <1>2, <4>2 DEF Moves
      <4> QED
        BY <2>1, <2>2, <2>3, <4>1, <4>3
    <3>2. CASE d \notin delivered
      <4>1. /\ d.id \in ToSet(job[p].msgs) /\ d.id \notin ToSet(j.msgs) /\ t \in Topics
            /\ msg[d.id].kind \in {"plain", "start"} => At(log'[t], d.seq, d.id)
            /\ msg[d.id].kind = "syncOnce" => At(queue'[d.uid], d.seq, d.id)
        BY <3>2 DEF Truthful
      <4>2. d.id \in DOMAIN msg /\ d.id \notin ToSet(j.rest)
        BY <4>1 DEF Custody, Holds, Separate, Moves
      <4>3. \A q \in Procs : d.id \notin ToSet(job'[q].rest) \cup ToSet(job'[q].msgs)
        BY <1>2, <4>1, <4>2 DEF Custody, Holds
      <4> QED
        BY <4>1, <4>2, <4>3
    <3> QED
      BY <3>1, <3>2
  <2>5. DeliveredWhereSaid'
    <3> SUFFICES ASSUME NEW d \in delivered'
                 PROVE  LET t == FakeChannelID(d.uid, d.channel)
                        IN /\ msg'[d.id].kind \in {"plain", "start"} => At(log'[t], d.seq, d.id)
                           /\ msg'[d.id].kind = "syncOnce" => At(queue'[d.uid], d.seq, d.id)
      BY DEF DeliveredWhereSaid, At
    <3>1. d.id \in DOMAIN msg /\ msg'[d.id].kind = msg[d.id].kind
      BY <1>4, <2>4
    <3> QED
      BY <2>4, <3>1
  <2> QED
    BY <1>3, <2>4, <2>5 DEF Deliveries
<1>10. Cursors'
  BY DEF Cursors, Types
<1> QED
  BY <1>5, <1>6, <1>7, <1>8, <1>9, <1>10

\* Nothing grows when logs, queues and files stay.
LEMMA QuietGrows ==
  ASSUME NEW p \in Procs, Types, UNCHANGED <<msg, log, queue, notify, delivered, file>>
  PROVE  SameMessages(p) /\ Grows(p)
<1>1. SameMessages(p)
  BY DEF SameMessages, Types
<1>2. Extends(log, log') /\ Extends(queue, queue')
  BY DEF Extends
<1>3. \A i \in Nat \ {0} : Somewhere(i)' => Somewhere(i)
  BY DEF Somewhere
<1>4. /\ log' \in [Topics -> Seq(Nat)] /\ queue' \in [Users -> Seq(Nat)]
      /\ notify \subseteq notify' /\ notify' \subseteq Nat /\ delivered' \subseteq RecvRecs
  BY DEF Types
<1> QED
  BY <1>1, <1>2, <1>3, <1>4 DEF Grows

\* A step that is not about messages.
LEMMA Aside ==
  ASSUME Settled, UNCHANGED <<msgVars, file>>
  PROVE  Custody' /\ Shapes' /\ Truth' /\ Deliveries'
<1> USE DEF msgVars, Settled
<1>1. Custody' /\ Shapes' /\ Deliveries'
  <2>1. Custody'
    BY DEF Custody
  <2>2. Shapes'
    <3>1. ASSUME NEW p \in Procs
          PROVE  Shape(p, job[p])'
      <4>1. PICK j : j = job[p]
        OBVIOUS
      <4>2. Shape(p, j)
        BY <4>1 DEF Shapes
      <4>3. Shape(p, j)'
        BY <4>2 DEF Shape
      <4> QED
        BY <4>1, <4>3, ZenonT(60) DEF Shape
    <3> QED
      BY <3>1 DEF Shapes
  <2>3. Deliveries'
    BY DEF Deliveries, DeliveredWhereSaid
  <2> QED
    BY <2>1, <2>2, <2>3
<1>2. \A i : Somewhere(i)' <=> Somewhere(i)
  BY DEF Somewhere
<1>3. \A i, r : Claims(i, r)' <=> Claims(i, r)
  BY <1>2 DEF Claims
<1>4. \A p \in Procs : Done(job[p])'
  BY DEF Truth, Done
<1>5. Truth'
  BY <1>2, <1>3, <1>4 DEF Truth
<1> QED
  BY <1>1, <1>5

\* The call of p stays when its run goes on and p was not appending.
LEMMA StepCalls ==
  ASSUME NEW p \in Procs, NEW j, Types, Calls, job' = [job EXCEPT ![p] = j],
         job[p].pc # "store" \/ job[p].items = <<>>, UNCHANGED <<call, file>>
  PROVE  Calls'
<1>1. \A q \in Procs : job'[q] = IF q = p THEN j ELSE job[q]
  BY DEF Types
<1>2. ~(call[p].op = "append" /\ call[p].pc \in {"made", "held", "write"})
  BY DEF Calls, Appending
<1>3. \A q \in Procs : Appending(call'[q], job'[q])
  BY <1>1, <1>2 DEF Calls, Appending
<1> QED
  BY <1>3 DEF Calls

-----------------------------------------------------------------------------
(* The initial state and the cursors. *)

\* At the start nothing has come and nobody is at work.
LEMMA InitMsgInv == Init => MsgInv
<1> SUFFICES ASSUME Init PROVE MsgInv
  OBVIOUS
<1> USE DEF Init, StreamInit
<1>1. \A p \in Procs : job[p] = Idle
  OBVIOUS
<1>2. Idle \in JobRecs /\ ToSet(Idle.rest) = {} /\ ToSet(Idle.msgs) = {} /\ ToSet(Idle.acks) = {}
      /\ ToSet(Idle.items) = {}
  BY DEF Idle, JobRecs, ToSet
<1>3. Types
  <2>1. job \in [Procs -> JobRecs]
    BY <1>1, <1>2
  <2> QED
    BY <2>1 DEF Types
<1>4. Calls
  <2>1. \A t \in Topics : \E Q : file[t] \in Seq(Q)
    <3> TAKE t \in Topics
    <3>1. file[t] \in Seq({})
      OBVIOUS
    <3> QED
      BY <3>1
  <2> QED
    BY <2>1 DEF Calls, NoCall, Appending
<1>5. Holds(Idle) = {} /\ Separate(Idle)
  BY <1>2 DEF Holds, Separate, AckIds, OncePerId, IsInjective, Idle
<1>6. Custody
  BY <1>1, <1>5 DEF Custody
<1>7. Shapes
  <2>1. \A p \in Procs : Shape(p, Idle)
    BY <1>2 DEF Shape, Idle
  <2> QED
    BY <1>1, <2>1 DEF Shapes
<1>8. \A i : ~Somewhere(i)
  BY DEF Somewhere, Contains, ToSet
<1>9. Truth
  <2>1. Done(Idle)
    BY DEF Done, Idle
  <2> QED
    BY <1>1, <1>2, <1>8, <2>1 DEF Truth
<1>10. Deliveries /\ Cursors
  BY DEF Deliveries, DeliveredWhereSaid, Cursors
<1> QED
  BY <1>3, <1>4, <1>6, <1>7, <1>9, <1>10 DEF MsgInv

\* An acknowledgement begins.
LEMMA MoveCursorInv ==
  ASSUME MsgInv, NEW k \in Ackers, NEW u \in Users, NEW n \in Nat, MoveCursor(k, u, n)
  PROVE  MsgInv'
<1> USE DEF MsgInv, MoveCursor
<1>1. UNCHANGED <<cursor, msgVars, streamVars>>
  OBVIOUS
<1>2. Custody' /\ Shapes' /\ Truth' /\ Deliveries'
  BY <1>1, Aside DEF Settled, streamVars
<1>3. Calls'
  BY <1>1 DEF Calls, Appending, streamVars, msgVars
<1>4. Len(queue[u]) \in Nat
  BY DEF Types
<1>5. [uid |-> u, seq |-> n, last |-> Len(queue[u])] \in MoveRecs
  BY <1>4 DEF MoveRecs
<1>6. moving' \in [Ackers -> MoveRecs \cup {None}] /\ acked' \in [Users -> Nat]
  BY <1>5 DEF Types
<1>7. Types'
  BY <1>1, <1>6 DEF Types, msgVars
<1>8. \A v \in Users : acked[v] \in Nat /\ acked'[v] \in Nat /\ acked[v] <= acked'[v]
      /\ (v = u => n <= acked'[v])
  BY <1>6 DEF Types
<1>9. \A v \in Users : cursor[v] # None => cursor[v] \in Nat
  BY DEF Types
<1>10. \A l \in Ackers : moving[l] # None => moving[l].uid \in Users /\ moving[l].seq \in Nat
  BY DEF Types, MoveRecs
<1>11. \A v \in Users : cursor'[v] # None => cursor'[v] <= acked'[v]
  BY <1>1, <1>8, <1>9 DEF Cursors
<1>12. \A l \in Ackers : moving'[l] # None => moving'[l].seq <= acked'[moving'[l].uid]
  <2> TAKE l \in Ackers
  <2>1. CASE l = k
    BY <1>8, <2>1 DEF Types
  <2>2. CASE l # k
    BY <1>8, <1>10, <2>2 DEF Types, Cursors
  <2> QED
    BY <2>1, <2>2
<1> QED
  BY <1>2, <1>3, <1>7, <1>11, <1>12 DEF Cursors

\* The cursor is written.
LEMMA UpdateCursorInv ==
  ASSUME MsgInv, NEW k \in Ackers, UpdateMessageOfUserCursorIfNeed(k)
  PROVE  MsgInv'
<1> USE DEF MsgInv, UpdateMessageOfUserCursorIfNeed
<1>1. UNCHANGED <<acked, msgVars, streamVars>>
  OBVIOUS
<1>2. Custody' /\ Shapes' /\ Truth' /\ Deliveries'
  BY <1>1, Aside DEF Settled, streamVars
<1>3. Calls'
  BY <1>1 DEF Calls, Appending, streamVars, msgVars
<1> DEFINE v == moving[k]
           offset == IF v.seq > v.last THEN v.last ELSE v.seq
<1>4. v \in MoveRecs /\ v.uid \in Users /\ offset \in Nat /\ offset <= v.seq /\ v.seq \in Nat
      /\ v.seq <= acked[v.uid] /\ acked[v.uid] \in Nat
  BY DEF Types, MoveRecs, Cursors
<1>5. cursor' = cursor \/ cursor' = [cursor EXCEPT ![v.uid] = offset]
  OBVIOUS
<1>6. moving' = [moving EXCEPT ![k] = None]
  OBVIOUS
<1> HIDE DEF v, offset
<1>7. cursor' \in [Users -> Nat \cup {None}] /\ moving' \in [Ackers -> MoveRecs \cup {None}]
  BY <1>4, <1>5, <1>6 DEF Types
<1>8. Types'
  BY <1>1, <1>7 DEF Types, msgVars
<1>9. \A u \in Users : cursor'[u] # None => cursor'[u] <= acked'[u]
  BY <1>1, <1>4, <1>5 DEF Cursors, Types
<1>10. \A l \in Ackers : moving'[l] # None => moving'[l].seq <= acked'[moving'[l].uid]
  BY <1>1, <1>6 DEF Cursors, Types
<1> QED
  BY <1>2, <1>3, <1>8, <1>9, <1>10 DEF Cursors

-----------------------------------------------------------------------------
(* Packets and requests come in. *)

\* New messages are held by the goroutine that received them, and by nobody else.
LEMMA ReceiveInv ==
  ASSUME MsgInv, NEW p \in Procs, job[p].pc = "idle",
         NEW ms \in Seq(MsgRecs), ms # <<>>, NEW pc, Receive(p, ms, pc),
         \A k, l \in DOMAIN ms : ms[k].from = ms[l].from,
         p \in Handlers => Len(ms) = 1,
         pc = "split" \/ (pc = "end" /\ p \in Handlers /\ \A k \in DOMAIN ms : ms[k].kind = "end"),
         \/ started' = started /\ \A k \in DOMAIN ms : ms[k].kind # "start"
         \/ p \in Handlers /\ ms[1].kind = "start" /\ started = None /\ started' = Len(msg) + 1
  PROVE  MsgInv'
<1>1. /\ \A k \in DOMAIN ms : Sendable(ms[k].from, ms[k].to, ms[k].kind)
      /\ msg' = msg \o ms
      /\ replies' = replies \o [k \in DOMAIN ms |-> <<>>]
      /\ job' = [job EXCEPT ![p] = [Idle EXCEPT !.pc = pc, !.rest = [k \in DOMAIN ms |-> Len(msg) + k]]]
      /\ UNCHANGED <<log, queue, notify, delivered, cursorVars, streamVars>>
  BY DEF Receive
<1> SUFFICES ASSUME Types, Calls, Custody, Shapes, Truth, Deliveries, Cursors
             PROVE  MsgInv'
  BY DEF MsgInv
<1>2. PICK ids : ids = [k \in DOMAIN ms |-> Len(msg) + k]
  OBVIOUS
<1>3. PICK j : j = [Idle EXCEPT !.pc = pc, !.rest = ids]
  OBVIOUS
<1>4. j.pc = pc /\ j.rest = ids /\ j.msgs = <<>> /\ j.items = <<>> /\ j.subs = {} /\ j.seqs = {}
      /\ j.acks = <<>>
  BY <1>3 DEF Idle
<1>5. Len(msg) \in Nat /\ Len(ms) \in Nat /\ Len(ms) > 0 /\ DOMAIN msg = 1 .. Len(msg)
      /\ DOMAIN ms = 1 .. Len(ms)
  BY DEF Types
<1>6. ids \in Seq(Nat) /\ Len(ids) = Len(ms) /\ DOMAIN ids = DOMAIN ms
      /\ \A k \in DOMAIN ms : ids[k] = Len(msg) + k
  <2>1. ids = [k \in 1 .. Len(ms) |-> Len(msg) + k]
    BY <1>2, <1>5
  <2>2. \A k \in 1 .. Len(ms) : Len(msg) + k \in Nat
    BY <1>5
  <2> QED
    BY <1>5, <2>1, <2>2
<1>7. j \in JobRecs
  <2>1. Idle \in JobRecs
    BY DEF Idle, JobRecs
  <2>2. pc \in {"split", "end"}
    OBVIOUS
  <2> QED
    BY <1>3, <1>6, <2>1, <2>2 DEF JobRecs
<1>8. job' = [job EXCEPT ![p] = j]
  BY <1>1, <1>2, <1>3
<1>9. \A q \in Procs : job'[q] = IF q = p THEN j ELSE job[q]
  BY <1>8 DEF Types
<1>10. /\ Len(msg') = Len(msg) + Len(ms) /\ msg' \in Seq(MsgRecs)
      /\ DOMAIN msg' = 1 .. Len(msg) + Len(ms)
      /\ \A i \in DOMAIN msg : i \in DOMAIN msg' /\ msg'[i] = msg[i]
      /\ \A k \in DOMAIN ms : Len(msg) + k \in DOMAIN msg' /\ msg'[Len(msg) + k] = ms[k]
  <2>1. msg' = msg \o ms /\ msg \in Seq(MsgRecs)
    BY <1>1 DEF Types
  <2> QED
    BY <1>5, <2>1
<1>11. ASSUME NEW k \in DOMAIN ms, NEW i, i = Len(msg) + k
       PROVE  msg'[i] = ms[k]
  <2>1. msg' = msg \o ms /\ msg \in Seq(MsgRecs)
    BY <1>1 DEF Types
  <2>2. i \in 1 .. Len(msg) + Len(ms) /\ i > Len(msg) /\ i - Len(msg) = k
    BY <1>5, <1>11
  <2> QED
    BY <2>1, <2>2
<1>12. \A i \in DOMAIN msg' : i \in DOMAIN msg \/ \E k \in DOMAIN ms : i = Len(msg) + k
  <2> TAKE i \in DOMAIN msg'
  <2>1. CASE i > Len(msg)
    <3>1. i - Len(msg) \in DOMAIN ms /\ i = Len(msg) + (i - Len(msg))
      BY <1>5, <1>10, <2>1
    <3> QED
      BY <3>1
  <2> QED
    BY <1>5, <1>10, <2>1
<1>13. ToSet(ids) \subseteq DOMAIN msg' /\ ToSet(ids) \cap DOMAIN msg = {} /\ ToSet(ids) \subseteq Nat
       /\ DOMAIN msg' \subseteq DOMAIN msg \cup ToSet(ids)
  <2>1. \A k \in DOMAIN ms : Len(msg) + k \notin DOMAIN msg
    BY <1>5
  <2>2. \A k \in DOMAIN ms : Len(msg) + k \in ToSet(ids)
    BY <1>6 DEF ToSet
  <2>3. \A i \in ToSet(ids) : \E k \in DOMAIN ms : i = Len(msg) + k
    BY <1>6 DEF ToSet
  <2> QED
    BY <1>5, <1>10, <1>12, <2>1, <2>2, <2>3
<1>14. UNCHANGED <<log, queue, notify, delivered, cursor, moving, acked, file, call>>
  BY <1>1 DEF cursorVars, streamVars
<1>15. /\ replies' \in Seq(Seq(AckRecs)) /\ Len(replies') = Len(msg')
       /\ \A i \in DOMAIN msg : replies'[i] = replies[i]
       /\ \A i \in ToSet(ids) : replies'[i] = <<>>
  <2> DEFINE none == [k \in DOMAIN ms |-> <<>>]
  <2>1. none \in Seq(Seq(AckRecs)) /\ Len(none) = Len(ms) /\ \A k \in DOMAIN ms : none[k] = <<>>
    <3>1. none = [k \in 1 .. Len(ms) |-> <<>>]
      BY <1>5
    <3>2. <<>> \in Seq(AckRecs)
      OBVIOUS
    <3> QED
      BY <1>5, <3>1, <3>2
  <2>2. replies' = replies \o none /\ replies \in Seq(Seq(AckRecs)) /\ Len(replies) = Len(msg)
    BY <1>1 DEF Types
  <2> HIDE DEF none
  <2>3. \A k \in DOMAIN ms : replies'[Len(msg) + k] = none[k]
    BY <1>5, <2>1, <2>2, SMTT(30)
  <2>4. \A i \in ToSet(ids) : \E k \in DOMAIN ms : i = Len(msg) + k
    BY <1>6 DEF ToSet
  <2>5. \A i \in ToSet(ids) : replies'[i] = <<>>
    BY <2>1, <2>3, <2>4
  <2>6. /\ replies' \in Seq(Seq(AckRecs)) /\ Len(replies') = Len(msg')
        /\ \A i \in DOMAIN msg : replies'[i] = replies[i]
    BY <1>5, <1>10, <2>1, <2>2
  <2> QED
    BY <2>5, <2>6
<1>16. Types'
  <2>1. \A k \in DOMAIN ms : ms[k].from # ms[k].to
    BY <1>1 DEF Sendable
  <2>2. \A i \in DOMAIN msg' : msg'[i].from # msg'[i].to
    <3> TAKE i \in DOMAIN msg'
    <3>1. CASE i \in DOMAIN msg
      BY <1>10, <3>1 DEF Types
    <3>2. ASSUME NEW k \in DOMAIN ms, i = Len(msg) + k
          PROVE  msg'[i].from # msg'[i].to
      <4>1. msg'[i] = ms[k]
        BY <1>11, <3>2
      <4> QED
        BY <2>1, <4>1
    <3> QED
      BY <1>12, <3>1, <3>2
  <2>3. job' \in [Procs -> JobRecs]
    BY <1>7, <1>8 DEF Types
  <2> QED
    BY <1>10, <1>14, <1>15, <2>2, <2>3 DEF Types
<1>17. Calls'
  BY <1>8, <1>14, StepCalls
<1>18. Holds(job[p]) = {} /\ Holds(j) = ToSet(ids) /\ Separate(j)
  <2>1. ToSet(<<>>) = {} /\ IsInjective(<<>>)
    BY DEF ToSet, IsInjective
  <2>2. IsInjective(ids)
    BY <1>5, <1>6 DEF IsInjective
  <2>3. Holds(job[p]) = {}
    BY <2>1 DEF Shapes, Shape, Holds, AckIds
  <2>4. AckIds(j) = {} /\ OncePerId(j.acks)
    BY <1>4, <2>1 DEF AckIds, OncePerId
  <2> QED
    BY <1>4, <2>1, <2>2, <2>3, <2>4 DEF Holds, Separate
<1>19. Custody'
  <2>1. \A q \in Procs : Separate(job'[q]) /\ Holds(job'[q]) \subseteq DOMAIN msg'
    BY <1>9, <1>10, <1>13, <1>18 DEF Custody
  <2>2. \A q, r \in Procs : q # r => Holds(job'[q]) \cap Holds(job'[r]) = {}
    BY <1>9, <1>13, <1>18 DEF Custody
  <2>3. ASSUME NEW i \in DOMAIN msg'
        PROVE  Len(replies'[i]) = IF \E q \in Procs : i \in Holds(job'[q]) THEN 0 ELSE 1
    <3>1. CASE i \in DOMAIN msg
      <4>1. \A q \in Procs : i \in Holds(job'[q]) <=> i \in Holds(job[q])
        BY <1>9, <1>13, <1>18, <3>1
      <4>2. Len(replies'[i]) = Len(replies[i])
        BY <1>15, <3>1
      <4> QED
        BY <3>1, <4>1, <4>2 DEF Custody
    <3>2. CASE i \in ToSet(ids)
      <4>1. i \in Holds(job'[p])
        BY <1>9, <1>18, <3>2
      <4>2. Len(replies'[i]) = 0
        BY <1>15, <3>2
      <4> QED
        BY <4>1, <4>2
    <3> QED
      BY <1>13, <3>1, <3>2
  <2> QED
    BY <2>1, <2>2, <2>3 DEF Custody
<1>20. Shapes'
  <2>1. ASSUME NEW q \in Procs
        PROVE  Shape(q, job[q])'
    <3>1. CASE q = p
      <4>1. ToSet(j.msgs) = {} /\ ToSet(j.items) = {}
        BY <1>4 DEF ToSet
      <4>2. ASSUME NEW i \in ToSet(ids)
            PROVE  \E k \in DOMAIN ms : msg'[i] = ms[k]
        <5>1. PICK k \in DOMAIN ms : i = Len(msg) + k
          BY <1>6 DEF ToSet
        <5>2. msg'[i] = ms[k]
          BY <1>11, <5>1
        <5> QED
          BY <5>2
      <4>3. \A i \in ToSet(ids) : /\ msg'[i].kind = "start" => p \in Handlers
                                  /\ pc = "end" => msg'[i].kind = "end"
                                  /\ \A l \in ToSet(ids) : msg'[i].from = msg'[l].from
        BY <4>2
      <4>4. p \in Handlers => Len(j.rest) + Len(j.msgs) + Len(j.acks) <= 1
        BY <1>4, <1>6
      <4>5. Shape(p, j)'
        BY <1>4, <1>6, <4>1, <4>3, <4>4 DEF Shape
      <4>6. job'[q] = j
        BY <1>9, <3>1
      <4> QED
        BY <3>1, <4>5, <4>6, ZenonT(60) DEF Shape
    <3>2. CASE q # p
      <4>1. PICK k : k = job[q]
        OBVIOUS
      <4>2. job'[q] = k /\ Shape(q, k) /\ k \in JobRecs
        BY <1>9, <3>2, <4>1 DEF Shapes, Types
      <4>3. ToSet(k.rest) \cup ToSet(k.msgs) \subseteq DOMAIN msg /\ Holds(k) \subseteq DOMAIN msg
        BY <4>1 DEF Custody, Holds
      <4>4. /\ \A i \in ToSet(k.rest) \cup ToSet(k.msgs) :
                 /\ msg'[i].kind = "start" => q \in Handlers
                 /\ k.pc = "end" => msg'[i].kind = "end"
                 /\ \A l \in ToSet(k.rest) \cup ToSet(k.msgs) : msg'[i].from = msg'[l].from
            /\ \A i, l \in ToSet(k.msgs) : msg'[i].to = msg'[l].to
        BY <1>10, <4>2, <4>3 DEF Shape
      <4>5. k.pc = "meta" => started' = started
        <5> SUFFICES ASSUME k.pc = "meta", started = None PROVE FALSE
          OBVIOUS
        <5>1. None \in DOMAIN msg
          BY <4>2, <4>3 DEF Shape, Holds
        <5> QED
          BY <1>5, <5>1, StreamConstants
      <4>6. Shape(q, k)'
        BY <4>2, <4>4, <4>5 DEF Shape
      <4> QED
        BY <4>2, <4>6 DEF Shape
    <3> QED
      BY <3>1, <3>2
  <2>2. started' # None => started' \in DOMAIN msg'
    BY <1>5, <1>10 DEF Shapes
  <2>3. \A i \in DOMAIN msg' : msg'[i].kind = "start" => i = started'
    <3> SUFFICES ASSUME NEW i \in DOMAIN msg', msg'[i].kind = "start"
                 PROVE  i = started'
      OBVIOUS
    <3>1. CASE i \in DOMAIN msg
      <4>1. i = started /\ i # None
        BY <1>5, <1>10, <3>1, StreamConstants DEF Shapes
      <4> QED
        BY <4>1
    <3>2. CASE i \notin DOMAIN msg
      <4>1. PICK k \in DOMAIN ms : i = Len(msg) + k
        BY <1>12, <3>2
      <4>2. msg'[i] = ms[k] /\ ms[k].kind = "start"
        <5>1. msg'[i] = ms[k]
          BY <1>11, <4>1
        <5> QED
          BY <5>1
      <4>3. started' = Len(msg) + 1 /\ Len(ms) = 1
        BY <4>2
      <4> QED
        BY <1>5, <4>1, <4>3
    <3> QED
      BY <3>1, <3>2
  <2> QED
    BY <2>1, <2>2, <2>3 DEF Shapes
<1>21. \A i : Somewhere(i)' <=> Somewhere(i)
  BY <1>14 DEF Somewhere
<1>22. ASSUME NEW i \in DOMAIN msg, NEW r, Claims(i, r)
       PROVE  Claims(i, r)'
  <2>1. msg'[i] = msg[i]
    BY <1>10
  <2> QED
    BY <1>14, <1>21, <1>22, <2>1 DEF Claims
<1>23. Truth'
  <2>1. ASSUME NEW q \in Procs
        PROVE  Done(job[q])'
    <3>1. CASE q = p
      <4>1. Done(j)'
        BY <1>4 DEF Done
      <4> QED
        BY <1>9, <3>1, <4>1 DEF Done
    <3>2. CASE q # p
      <4>1. PICK k : k = job[q]
        OBVIOUS
      <4>2. job'[q] = k /\ Done(k)
        BY <1>9, <3>2, <4>1 DEF Truth
      <4>3. ToSet(k.msgs) \subseteq DOMAIN msg
        BY <4>1 DEF Custody, Holds
      <4>4. \A i \in ToSet(k.msgs) : msg'[i] = msg[i]
        BY <1>10, <4>3
      <4>5. Done(k)'
        BY <1>14, <4>2, <4>4 DEF Done
      <4> QED
        BY <4>2, <4>5 DEF Done
    <3> QED
      BY <3>1, <3>2
  <2>2. ASSUME NEW q \in Procs, NEW r \in ToSet(job'[q].acks)
        PROVE  Claims(r.id, r)'
    <3>1. q # p
      BY <1>4, <1>9 DEF ToSet
    <3>2. r \in ToSet(job[q].acks)
      BY <1>9, <3>1
    <3>3. r.id \in DOMAIN msg /\ Claims(r.id, r)
      BY <3>2 DEF Truth, Custody, Holds, AckIds
    <3> QED
      BY <1>22, <3>3
  <2>3. ASSUME NEW i \in DOMAIN msg', NEW r \in ToSet(replies'[i])
        PROVE  Claims(i, r)'
    <3>1. i \notin ToSet(ids)
      <4> SUFFICES ASSUME i \in ToSet(ids) PROVE FALSE
        OBVIOUS
      <4>1. replies'[i] = <<>>
        BY <1>15
      <4> QED
        BY <4>1 DEF ToSet
    <3>2. i \in DOMAIN msg /\ r \in ToSet(replies[i])
      BY <1>13, <1>15, <3>1
    <3> QED
      BY <1>22, <3>2 DEF Truth
  <2>4. ASSUME NEW q \in Procs, NEW i \in ToSet(job'[q].rest)
        PROVE  ~Somewhere(i)'
    <3>1. CASE q = p
      <4>1. i \in ToSet(ids)
        BY <1>4, <1>9, <3>1
      <4>2. i \in Nat /\ ~(i <= Len(msg))
        BY <1>5, <1>10, <1>13, <4>1
      <4> QED
        BY <1>21, <4>2 DEF Truth
    <3>2. CASE q # p
      BY <1>9, <1>21, <3>2 DEF Truth
    <3> QED
      BY <3>1, <3>2
  <2>5. \A i \in Nat : Somewhere(i)' => i <= Len(msg')
    BY <1>5, <1>10, <1>21 DEF Truth
  <2> QED
    BY <2>1, <2>2, <2>3, <2>4, <2>5 DEF Truth
<1>24. Deliveries'
  <2>1. \A d \in delivered : d.id \in DOMAIN msg
    BY DEF Deliveries
  <2>2. \A d \in delivered : msg'[d.id] = msg[d.id] /\ d.id \in DOMAIN msg' /\ d.id \notin ToSet(ids)
    BY <1>10, <1>13, <2>1
  <2>3. \A d \in delivered, q \in Procs : d.id \notin ToSet(job'[q].rest) \cup ToSet(job'[q].msgs)
    <3>1. ToSet(j.rest) = ToSet(ids) /\ ToSet(j.msgs) = {}
      BY <1>4 DEF ToSet
    <3> QED
      BY <1>9, <2>2, <3>1 DEF Deliveries
  <2>4. DeliveredWhereSaid'
    BY <1>14, <2>2 DEF Deliveries, DeliveredWhereSaid
  <2> QED
    BY <1>14, <2>2, <2>3, <2>4 DEF Deliveries
<1>25. Cursors'
  BY <1>14 DEF Cursors
<1> QED
  BY <1>16, <1>17, <1>19, <1>20, <1>23, <1>24, <1>25 DEF MsgInv

\* A run of packets of one connection.
LEMMA ProcessMsgsInv ==
  ASSUME MsgInv, NEW p \in Frames, NEW u \in Users, NEW n \in 1 .. MaxBatch, processMsgs(p, u, n)
  PROVE  MsgInv'
<1>1. PICK ms \in [1 .. n -> Packets(u)] : Receive(p, ms, "split")
  BY DEF processMsgs
<1>2. job[p].pc = "idle" /\ started' = started
  BY DEF processMsgs
<1>3. ASSUME NEW x \in Packets(u)
      PROVE  x \in MsgRecs /\ x.from = u /\ x.kind # "start"
  <2>1. PICK to \in Names, kind \in PacketKinds :
          x = [from |-> u, to |-> to, kind |-> kind, api |-> FALSE, seq |-> 0]
    BY DEF Packets, New
  <2> QED
    BY <2>1 DEF MsgRecs, AllKinds, PacketKinds
<1>4. \A k \in 1 .. n : ms[k] \in MsgRecs /\ ms[k].from = u /\ ms[k].kind # "start"
  BY <1>3
<1>5. n \in Nat /\ n > 0
  BY MessageConstants
<1>6. ms \in Seq(MsgRecs) /\ Len(ms) = n /\ DOMAIN ms = 1 .. n
  <2>1. ms = [k \in 1 .. n |-> ms[k]]
    OBVIOUS
  <2> QED
    BY <1>4, <1>5, <2>1
<1>7. p \in Procs /\ p \notin Handlers
  BY MessageConstants
<1>8. ms # <<>>
  BY <1>5, <1>6
<1> QED
  BY <1>1, <1>2, <1>4, <1>6, <1>7, <1>8, ReceiveInv

\* A request of the API: the one handler that starts the stream has its start message.
LEMMA SendRequestInv ==
  ASSUME MsgInv, NEW p \in Handlers, NEW u \in Users, NEW to \in Names, NEW kind \in RequestKinds,
         sendRequest(p, u, to, kind)
  PROVE  MsgInv'
<1>1. PICK ms : ms = <<New(u, to, kind, TRUE)>>
  OBVIOUS
<1>2. PICK pc : pc = IF kind = "end" THEN "end" ELSE "split"
  OBVIOUS
<1>3. Receive(p, ms, pc) /\ job[p].pc = "idle"
  BY <1>1, <1>2 DEF sendRequest
<1>4. New(u, to, kind, TRUE) \in MsgRecs /\ New(u, to, kind, TRUE).kind = kind
  BY DEF New, MsgRecs, AllKinds
<1>5. ms \in Seq(MsgRecs) /\ Len(ms) = 1 /\ ms # <<>> /\ ms[1].kind = kind
      /\ \A k, l \in DOMAIN ms : k = l /\ k = 1
  <2>1. PICK m : m = New(u, to, kind, TRUE)
    OBVIOUS
  <2>2. m \in MsgRecs /\ m.kind = kind /\ ms = <<m>>
    BY <1>1, <1>4, <2>1
  <2>3. ms \in Seq(MsgRecs) /\ Len(ms) = 1 /\ ms # <<>> /\ ms[1] = m
    BY <2>2
  <2>4. DOMAIN ms = 1 .. 1
    BY <2>3
  <2> QED
    BY <2>2, <2>3, <2>4
<1>6. p \in Procs
  BY MessageConstants
<1>7. started' = IF kind = "start" THEN Len(msg) + 1 ELSE started
  BY DEF sendRequest
<1>8. kind = "start" => started = None
  <2>1. Sendable(ms[1].from, ms[1].to, ms[1].kind)
    BY <1>3, <1>5 DEF Receive
  <2> QED
    BY <1>5, <2>1 DEF Sendable
<1>9. pc = "split" \/ (pc = "end" /\ p \in Handlers /\ \A k \in DOMAIN ms : ms[k].kind = "end")
  BY <1>2, <1>5
<1>10. \/ started' = started /\ \A k \in DOMAIN ms : ms[k].kind # "start"
       \/ p \in Handlers /\ ms[1].kind = "start" /\ started = None /\ started' = Len(msg) + 1
  BY <1>5, <1>7, <1>8
<1>11. \A k, l \in DOMAIN ms : ms[k].from = ms[l].from
  BY <1>5
<1> QED
  BY <1>3, <1>5, <1>6, <1>9, <1>10, <1>11, ReceiveInv

-----------------------------------------------------------------------------
(* Steps of the store. *)

\* A call goes on: it is still for an item of the run if it appends.
LEMMA CallGoesOn ==
  ASSUME MsgInv, NEW p \in Procs, NEW c, call' = [call EXCEPT ![p] = c],
         c = [pc |-> c.pc, op |-> c.op, topic |-> c.topic, item |-> c.item, val |-> c.val,
              obj |-> c.obj, seq |-> c.seq],
         c.pc = "write" => c.op = "append",
         Appending(c, job[p]),
         UNCHANGED <<msgVars, cursorVars, file>>
  PROVE  MsgInv'
<1> USE DEF MsgInv
<1>1. Custody' /\ Shapes' /\ Truth' /\ Deliveries'
  BY Aside DEF Settled
<1>2. Types' /\ Cursors'
  BY DEF Types, Cursors, msgVars, cursorVars
<1>3. Calls'
  <2>1. /\ DOMAIN call = Procs
        /\ \A q \in Procs : call[q] = [pc |-> call[q].pc, op |-> call[q].op, topic |-> call[q].topic,
                              item |-> call[q].item, val |-> call[q].val, obj |-> call[q].obj,
                              seq |-> call[q].seq]
    BY DEF Calls
  <2>2. \A q \in Procs : call'[q] = IF q = p THEN c ELSE call[q]
    BY <2>1
  <2>3. DOMAIN call' = Procs /\ call' = [q \in Procs |-> call'[q]]
    BY <2>1
  <2>4. \A q \in Procs : call'[q] = [pc |-> call'[q].pc, op |-> call'[q].op, topic |-> call'[q].topic,
                              item |-> call'[q].item, val |-> call'[q].val, obj |-> call'[q].obj,
                              seq |-> call'[q].seq]
    <3> TAKE q \in Procs
    <3>1. CASE q = p
      BY <2>2, <3>1
    <3>2. CASE q # p
      BY <2>1, <2>2, <3>2
    <3> QED
      BY <3>1, <3>2
  <2>5. call' = [q \in Procs |-> [pc |-> call'[q].pc, op |-> call'[q].op, topic |-> call'[q].topic,
                              item |-> call'[q].item, val |-> call'[q].val, obj |-> call'[q].obj,
                              seq |-> call'[q].seq]]
    BY <2>3, <2>4
  <2>6. \A q \in Procs : Appending(call'[q], job'[q])
                         /\ (call'[q].pc = "write" => call'[q].op = "append")
    BY <2>2 DEF Calls, Appending, msgVars
  <2>7. file' = [t \in Topics |-> file'[t]] /\ \A t \in Topics : \E Q : file'[t] \in Seq(Q)
    BY DEF Calls
  <2> QED
    BY <2>5, <2>6, <2>7 DEF Calls
<1> QED
  BY <1>1, <1>2, <1>3

\* A call ends.
LEMMA FinishCall ==
  ASSUME MsgInv, NEW p \in Procs, NEW r, NEW ss, NEW ca, Finish(p, r, ss, ca),
         UNCHANGED <<msgVars, cursorVars, file>>
  PROVE  MsgInv'
<1>1. PICK c : c = [NoCall EXCEPT !.pc = "done", !.op = call[p].op, !.val = r]
  OBVIOUS
<1>2. call' = [call EXCEPT ![p] = c]
  BY <1>1 DEF Finish
<1>3. c = [pc |-> "done", op |-> call[p].op, topic |-> <<>>, item |-> 0, val |-> r, obj |-> None, seq |-> 0]
  BY <1>1 DEF NoCall
<1>4. c = [pc |-> c.pc, op |-> c.op, topic |-> c.topic, item |-> c.item, val |-> c.val,
              obj |-> c.obj, seq |-> c.seq] /\ c.pc = "done"
  BY <1>3
<1> QED
  BY <1>2, <1>4, CallGoesOn DEF Appending

\* An item is numbered.
LEMMA NextStreamSeqInv ==
  ASSUME MsgInv, NEW p \in Procs, nextStreamSeq(p), UNCHANGED <<msgVars, cursorVars>>
  PROVE  MsgInv'
<1>1. PICK n : call' = [call EXCEPT ![p].pc = "write", ![p].seq = n + 1]
  BY DEF nextStreamSeq
<1>2. PICK c : c = [[call[p] EXCEPT !.pc = "write"] EXCEPT !.seq = n + 1]
  OBVIOUS
<1>3. DOMAIN call = Procs
      /\ call[p] = [pc |-> call[p].pc, op |-> call[p].op, topic |-> call[p].topic,
                              item |-> call[p].item, val |-> call[p].val, obj |-> call[p].obj,
                              seq |-> call[p].seq]
  BY DEF MsgInv, Calls
<1>4. call' = [call EXCEPT ![p] = c]
  BY <1>1, <1>2, <1>3
<1>5. c = [pc |-> "write", op |-> call[p].op, topic |-> call[p].topic, item |-> call[p].item,
           val |-> call[p].val, obj |-> call[p].obj, seq |-> n + 1]
  BY <1>2, <1>3
<1>6. c = [pc |-> c.pc, op |-> c.op, topic |-> c.topic, item |-> c.item, val |-> c.val,
              obj |-> c.obj, seq |-> c.seq]
  BY <1>5
<1>7. call[p].op = "append" /\ call[p].pc \in {"made", "held"} /\ file' = file
  BY DEF nextStreamSeq
<1>8. Appending(c, job[p]) /\ c.op = "append"
  BY <1>5, <1>7 DEF MsgInv, Calls, Appending
<1> QED
  BY <1>4, <1>6, <1>7, <1>8, CallGoesOn

\* The meta data is written or read, and the call ends.
LEMMA MetaInv ==
  ASSUME MsgInv, NEW p \in Procs, saveMeta(p) \/ readMeta(p), UNCHANGED <<msgVars, cursorVars>>
  PROVE  MsgInv'
<1>1. file' = file
  BY DEF saveMeta, readMeta
<1>2. \E r, ss, ca : Finish(p, r, ss, ca)
  BY DEF saveMeta, readMeta
<1> QED
  BY <1>1, <1>2, FinishCall

\* A stream leaves the cache: no message depends on it.
LEMMA EvictInv ==
  ASSUME MsgInv, NEW t, NEW closed, Evict(t, closed), UNCHANGED <<msgVars, cursorVars>>
  PROVE  MsgInv'
<1>1. UNCHANGED <<file, call>>
  BY DEF Evict
<1>2. Custody' /\ Shapes' /\ Truth' /\ Deliveries'
  BY <1>1, Aside DEF MsgInv, Settled
<1>3. Types' /\ Cursors'
  BY DEF MsgInv, Types, Cursors, msgVars, cursorVars
<1>4. Calls'
  BY <1>1 DEF MsgInv, Calls, Appending, msgVars
<1> QED
  BY <1>2, <1>3, <1>4 DEF MsgInv

\* A step that answers nothing.
LEMMA NoAnswer ==
  ASSUME Types, replies' = replies
  PROVE  /\ replies' \in Seq(Seq(AckRecs)) /\ Len(replies') = Len(replies)
         /\ \A i \in DOMAIN replies : Len(replies'[i]) = Len(replies[i]) + (IF i \in {} THEN 1 ELSE 0)
<1>1. \A i \in DOMAIN replies : Len(replies[i]) \in Nat
  BY DEF Types
<1> QED
  BY <1>1 DEF Types

\* A goroutine whose run does not go on: only what was stored may grow.
LEMMA StayInv ==
  ASSUME Settled, NEW p \in Procs, UNCHANGED <<msgVars, cursorVars>>, Grows(p)
  PROVE  Settled'
<1> USE DEF msgVars, cursorVars
<1>1. PICK j : j = job[p]
  OBVIOUS
<1>2. SameMessages(p)
  BY DEF SameMessages, Settled, Types
<1>3. Moves(p, j, {})
  <2>1. j \in JobRecs /\ job' = [job EXCEPT ![p] = j]
    BY <1>1 DEF Settled, Types
  <2>2. Separate(j) /\ Holds(j) = Holds(job[p])
    BY <1>1 DEF Settled, Custody
  <2>3. Types
    BY DEF Settled
  <2> QED
    BY <1>1, <2>1, <2>2, <2>3, NoAnswer DEF Moves
<1>4. Truthful(p, j)
  <2>1. Shape(p, j) /\ Done(j)
    BY <1>1 DEF Settled, Shapes, Truth
  <2>2. Shape(p, j)'
    BY <2>1 DEF Shape
  <2>3. Done(j)'
    BY <2>1 DEF Done
  <2> QED
    BY <1>1, <2>2, <2>3 DEF Truthful
<1>5. Step(p, j, {})
  BY <1>2, <1>3, <1>4 DEF Step
<1> QED
  BY <1>5, StepSettled

\* An item is written: it belongs to a message of the run.
LEMMA AppendItemInv ==
  ASSUME MsgInv, NEW p \in Procs, appendItem(p), UNCHANGED <<msgVars, cursorVars>>
  PROVE  MsgInv'
<1>1. PICK i : i = call[p].item
  OBVIOUS
<1>2. i \in ToSet(job[p].msgs)
  <2>1. call[p].pc = "write" /\ call[p].op = "append"
    BY DEF appendItem, MsgInv, Calls
  <2>2. job[p].items # <<>> /\ i = Head(job[p].items)
    BY <1>1, <2>1 DEF MsgInv, Calls, Appending
  <2>3. job[p] \in JobRecs
    BY DEF MsgInv, Types
  <2>4. PICK s : s = job[p].items
    OBVIOUS
  <2>5. s \in Seq(Nat) /\ s # <<>> /\ i = Head(s)
    BY <2>2, <2>3, <2>4 DEF JobRecs
  <2>6. 1 \in DOMAIN s /\ i = s[1]
    BY <2>5
  <2>7. i \in ToSet(job[p].items)
    BY <2>4, <2>6 DEF ToSet
  <2> QED
    BY <2>7 DEF MsgInv, Shapes, Shape
<1>3. PICK x : x = StreamItem(call[p].item, call[p].seq)
  OBVIOUS
<1>4. x.id = i
  BY <1>1, <1>3 DEF StreamItem
<1>5. \E r, ss, ca : Finish(p, r, ss, ca)
  BY DEF appendItem
<1>6. CASE file' = file
  BY <1>5, <1>6, FinishCall
<1>7. CASE file' # file
  <2>1. file' = [file EXCEPT ![call[p].topic] = Append(@, x)]
    BY <1>3, <1>7 DEF appendItem
  <2>2. file = [t \in Topics |-> file[t]] /\ \A t \in Topics : \E Q : file[t] \in Seq(Q)
    BY DEF MsgInv, Calls
  <2>3. ASSUME NEW t \in Topics
        PROVE  /\ \E Q : file'[t] \in Seq(Q)
               /\ \A y \in ToSet(file'[t]) : y \in ToSet(file[t]) \/ y = x
    <3>1. PICK Q : file[t] \in Seq(Q)
      BY <2>2
    <3>2. PICK s : s = file[t]
      OBVIOUS
    <3>3. file'[t] = s \/ file'[t] = Append(s, x)
      BY <2>1, <2>2, <3>2
    <3>4. s \in Seq(Q \cup {x})
      BY <3>1, <3>2
    <3>5. CASE file'[t] = s
      BY <3>1, <3>2, <3>5
    <3>6. CASE file'[t] = Append(s, x)
      <4>1. Append(s, x) \in Seq(Q \cup {x})
        BY <3>4
      <4>2. \A y \in ToSet(Append(s, x)) : y \in ToSet(s) \/ y = x
        BY <3>4 DEF ToSet
      <4> QED
        BY <3>2, <3>6, <4>1, <4>2
    <3> QED
      BY <3>3, <3>5, <3>6
  <2>4. \A k : Somewhere(k)' => Somewhere(k) \/ k \in ToSet(job[p].msgs)
    <3> SUFFICES ASSUME NEW k, Somewhere(k)', k # i
                 PROVE  Somewhere(k)
      BY <1>2
    <3>1. ASSUME NEW t \in Topics, NEW y \in ToSet(file'[t]), y.id = k
          PROVE  y \in ToSet(file[t])
      BY <1>4, <2>3, <3>1
    <3> QED
      BY <3>1 DEF Somewhere, msgVars
  <2>5. Grows(p)
    <3>1. Extends(log, log') /\ Extends(queue, queue')
      BY DEF Extends, msgVars
    <3> QED
      BY <2>4, <3>1 DEF Grows, MsgInv, Types, msgVars
  <2>6. Settled'
    BY <2>5, StayInv DEF MsgInv, Settled
  <2>7. PICK c : c = [NoCall EXCEPT !.pc = "done", !.op = call[p].op, !.val = "ok"]
    OBVIOUS
  <2>8. call' = [call EXCEPT ![p] = c]
    BY <1>7, <2>7 DEF appendItem, Finish
  <2>9. c = [pc |-> "done", op |-> call[p].op, topic |-> <<>>, item |-> 0, val |-> "ok", obj |-> None, seq |-> 0]
    BY <2>7 DEF NoCall
  <2>10. Calls'
    <3>1. \A q \in Procs : call'[q] = IF q = p THEN c ELSE call[q]
      BY <2>8 DEF MsgInv, Calls
    <3>2. call' = [q \in Procs |-> [pc |-> call'[q].pc, op |-> call'[q].op, topic |-> call'[q].topic,
                              item |-> call'[q].item, val |-> call'[q].val, obj |-> call'[q].obj,
                              seq |-> call'[q].seq]]
      <4>1. /\ DOMAIN call = Procs
            /\ \A q \in Procs : call[q] = [pc |-> call[q].pc, op |-> call[q].op, topic |-> call[q].topic,
                              item |-> call[q].item, val |-> call[q].val, obj |-> call[q].obj,
                              seq |-> call[q].seq]
        BY DEF MsgInv, Calls
      <4>2. \A q \in Procs : call'[q] = [pc |-> call'[q].pc, op |-> call'[q].op, topic |-> call'[q].topic,
                              item |-> call'[q].item, val |-> call'[q].val, obj |-> call'[q].obj,
                              seq |-> call'[q].seq]
        <5> TAKE q \in Procs
        <5>1. CASE q = p
          BY <2>9, <3>1, <5>1
        <5>2. CASE q # p
          BY <3>1, <4>1, <5>2
        <5> QED
          BY <5>1, <5>2
      <4>3. call' = [q \in Procs |-> call'[q]]
        BY <2>8, <4>1
      <4> QED
        BY <4>2, <4>3
    <3>3. \A q \in Procs : Appending(call'[q], job'[q])
                           /\ (call'[q].pc = "write" => call'[q].op = "append")
      <4> TAKE q \in Procs
      <4>1. CASE q = p
        <5>1. call'[q].pc = "done"
          BY <2>9, <3>1, <4>1
        <5> QED
          BY <5>1 DEF Appending
      <4>2. CASE q # p
        <5>1. call'[q] = call[q] /\ job'[q] = job[q]
          BY <3>1, <4>2 DEF msgVars
        <5> QED
          BY <5>1 DEF MsgInv, Calls
      <4> QED
        BY <4>1, <4>2
    <3>4. file' = [t \in Topics |-> file'[t]]
      BY <2>1, <2>2
    <3> QED
      BY <2>3, <3>2, <3>3, <3>4 DEF Calls
  <2> QED
    BY <2>6, <2>10 DEF MsgInv, Settled
<1> QED
  BY <1>6, <1>7

-----------------------------------------------------------------------------
(* Steps of a run. *)

\* What a goroutine holds of its run keeps its sender.
LEMMA ShapeKeeps ==
  ASSUME Settled, NEW p \in Procs, SameMessages(p), started' = started, NEW k,
         k.pc = "idle" => k.rest = <<>> /\ k.acks = <<>>,
         k.pc # "end",
         k.pc \in {"store", "notify", "put"} <=> k.msgs # <<>>,
         k.pc = "meta" => k.rest = <<>> /\ AckIds(k) = {started} /\ Len(k.acks) = 1,
         k.pc = "meta" => p \in Handlers,
         p \in Handlers => Len(k.rest) + Len(k.msgs) + Len(k.acks) <= 1,
         ToSet(k.items) \subseteq ToSet(k.msgs), k.pc \in {"notify", "put"} => k.items = <<>>,
         ToSet(k.rest) \cup ToSet(k.msgs) \subseteq ToSet(job[p].rest) \cup ToSet(job[p].msgs),
         \A i, l \in ToSet(k.msgs) : msg[i].to = msg[l].to
  PROVE  Shape(p, k)'
<1>1. ToSet(job[p].rest) \cup ToSet(job[p].msgs) \subseteq DOMAIN msg
  BY DEF Settled, Custody, Holds
<1>2. \A i \in DOMAIN msg : msg'[i].from = msg[i].from /\ msg'[i].to = msg[i].to
                            /\ msg'[i].kind = msg[i].kind
  BY DEF SameMessages
<1>3. \A i \in ToSet(job[p].rest) \cup ToSet(job[p].msgs) :
        /\ msg[i].kind = "start" => p \in Handlers
        /\ \A l \in ToSet(job[p].rest) \cup ToSet(job[p].msgs) : msg[i].from = msg[l].from
  BY DEF Settled, Shapes, Shape
<1>4. \A i \in ToSet(k.rest) \cup ToSet(k.msgs) :
        /\ msg'[i].kind = "start" => p \in Handlers
        /\ \A l \in ToSet(k.rest) \cup ToSet(k.msgs) : msg'[i].from = msg'[l].from
  BY <1>1, <1>2, <1>3
<1>5. \A i, l \in ToSet(k.msgs) : msg'[i].to = msg'[l].to
  BY <1>1, <1>2
<1> QED
  BY <1>4, <1>5 DEF Shape

\* A run gives its channel up: all is answered, and the answers promise nothing.
LEMMA GiveUpMoves ==
  ASSUME Settled, NEW p \in Procs, SameMessages(p), NEW j, j = GiveUp(job[p], msg'),
         job' = [job EXCEPT ![p] = j], job[p].msgs # <<>>,
         UNCHANGED <<replies, delivered, started>>
  PROVE  Moves(p, j, {}) /\ Truthful(p, j)
<1>1. PICK k : k = job[p]
  OBVIOUS
<1>2. k \in JobRecs
  BY <1>1 DEF Settled, Types
<1>3. /\ k.rest \in Seq(Nat) /\ k.msgs \in Seq(Nat) /\ k.acks \in Seq(AckRecs)
      /\ k = [pc |-> k.pc, rest |-> k.rest, msgs |-> k.msgs, items |-> k.items, subs |-> k.subs,
              seqs |-> k.seqs, acks |-> k.acks]
  BY <1>2 DEF JobRecs
<1>4. PICK rs : rs = getSendackPacket(k.msgs, msg', "SystemError")
  OBVIOUS
<1>5. Separate(k) /\ Holds(k) \subseteq DOMAIN msg /\ Shape(p, k)
  BY <1>1 DEF Settled, Custody, Shapes
<1>6. DOMAIN msg' = DOMAIN msg /\ msg' \in Seq(MsgRecs)
  BY DEF SameMessages, Settled, Types
<1>7. /\ rs \in Seq(AckRecs) /\ Len(rs) = Len(k.msgs)
      /\ {r.id : r \in ToSet(rs)} = ToSet(k.msgs)
      /\ \A r \in ToSet(rs) : r.reason = "SystemError"
      /\ OncePerId(rs)
  <2>1. ToSet(k.msgs) \subseteq DOMAIN msg' /\ IsInjective(k.msgs)
    BY <1>5, <1>6 DEF Holds, Separate
  <2>2. "SystemError" \in Reasons
    BY DEF Reasons
  <2> QED
    <3>1. PICK ms : ms = msg'
      OBVIOUS
    <3> QED
      BY <1>3, <1>4, <1>6, <2>1, <2>2, <3>1, NumberedSendacks
<1>8. /\ k.acks \o rs \in Seq(AckRecs) /\ Len(k.acks \o rs) = Len(k.acks) + Len(rs)
      /\ ToSet(k.acks \o rs) = ToSet(k.acks) \cup ToSet(rs)
      /\ OncePerId(k.acks \o rs)
  <2>1. {r.id : r \in ToSet(k.acks)} \cap {r.id : r \in ToSet(rs)} = {} /\ OncePerId(k.acks)
    BY <1>5, <1>7 DEF Separate, AckIds
  <2> QED
    BY <1>3, <1>7, <2>1, SendacksJoined
<1>9. j = [pc |-> "split", rest |-> k.rest, msgs |-> <<>>, items |-> <<>>, subs |-> {},
           seqs |-> {}, acks |-> k.acks \o rs]
  BY <1>1, <1>3, <1>4 DEF GiveUp
<1>10. j \in JobRecs
  BY <1>3, <1>8, <1>9 DEF JobRecs
<1>11. ToSet(j.msgs) = {} /\ ToSet(j.items) = {} /\ IsInjective(j.msgs)
  BY <1>9 DEF ToSet, IsInjective
<1>12. AckIds(j) = AckIds(k) \cup ToSet(k.msgs)
  BY <1>7, <1>8, <1>9 DEF AckIds
<1>13. j.pc = "split" /\ j.rest = k.rest /\ j.acks = k.acks \o rs /\ j.seqs = {} /\ j.msgs = <<>>
  BY <1>9
<1>14. Separate(j)
  BY <1>5, <1>8, <1>11, <1>12, <1>13 DEF Separate
<1>15. Holds(j) = Holds(k)
  BY <1>11, <1>12, <1>13 DEF Holds
<1>16. Moves(p, j, {})
  <2>1. Types
    BY DEF Settled
  <2> QED
    BY <1>1, <1>10, <1>11, <1>13, <1>14, <1>15, <2>1, NoAnswer DEF Moves
<1>17. Shape(p, j)'
  <2>1. Len(k.rest) \in Nat /\ Len(k.msgs) \in Nat /\ Len(k.acks) \in Nat
    BY <1>3
  <2>2. p \in Handlers => Len(j.rest) + Len(j.msgs) + Len(j.acks) <= 1
    <3>1. Len(j.msgs) = 0 /\ Len(j.rest) = Len(k.rest) /\ Len(j.acks) = Len(k.acks) + Len(k.msgs)
      BY <1>7, <1>8, <1>13
    <3>2. p \in Handlers => Len(k.rest) + Len(k.msgs) + Len(k.acks) <= 1
      BY <1>5 DEF Shape
    <3>3. \A a, b, c \in Nat : a + b + c <= 1 => a + 0 + (c + b) <= 1
      OBVIOUS
    <3> QED
      BY <2>1, <3>1, <3>2, <3>3
  <2> QED
    BY <1>1, <1>11, <1>13, <2>2, ShapeKeeps
<1>18. Done(j)'
  BY <1>13 DEF Done
<1>19. \A r \in ToSet(j.acks) : r \in ToSet(job[p].acks) \/ Claims(r.id, r)'
  <2> TAKE r \in ToSet(j.acks)
  <2>1. r \in ToSet(k.acks) \/ r.reason = "SystemError"
    BY <1>7, <1>8, <1>13
  <2> QED
    BY <1>1, <2>1 DEF Claims, Refusals
<1>20. Truthful(p, j)
  BY <1>17, <1>18, <1>19 DEF Truthful
<1> QED
  BY <1>16, <1>20

\* What the invariant says of one goroutine.
LEMMA RunOf ==
  ASSUME Settled, NEW p \in Procs, NEW k, k = job[p]
  PROVE  /\ k \in JobRecs
         /\ k = [pc |-> k.pc, rest |-> k.rest, msgs |-> k.msgs, items |-> k.items, subs |-> k.subs,
                 seqs |-> k.seqs, acks |-> k.acks]
         /\ k.pc \in {"idle", "split", "store", "notify", "put", "meta", "end"}
         /\ k.rest \in Seq(Nat) /\ k.msgs \in Seq(Nat) /\ k.items \in Seq(Nat) /\ k.acks \in Seq(AckRecs)
         /\ k.subs \subseteq Users /\ k.seqs \subseteq (Users \X Nat \X Nat)
         /\ Separate(k) /\ Holds(k) \subseteq DOMAIN msg /\ Shape(p, k) /\ Done(k)
         /\ Len(k.rest) \in Nat /\ Len(k.msgs) \in Nat /\ Len(k.acks) \in Nat
<1>1. k \in JobRecs
  BY DEF Settled, Types
<1>2. Separate(k) /\ Holds(k) \subseteq DOMAIN msg /\ Shape(p, k) /\ Done(k)
  BY DEF Settled, Custody, Shapes, Truth
<1> QED
  BY <1>1, <1>2 DEF JobRecs

\* A call to the store ends with a step of the run.
LEMMA StepEndsCall ==
  ASSUME NEW p \in Procs, NEW j, Types, Calls, job' = [job EXCEPT ![p] = j],
         call' = [call EXCEPT ![p] = NoCall], file' = file
  PROVE  Calls'
<1>1. \A q \in Procs : job'[q] = IF q = p THEN j ELSE job[q]
  BY DEF Types
<1>2. /\ DOMAIN call = Procs
      /\ \A q \in Procs : call[q] = [pc |-> call[q].pc, op |-> call[q].op, topic |-> call[q].topic,
                              item |-> call[q].item, val |-> call[q].val, obj |-> call[q].obj,
                              seq |-> call[q].seq]
  BY DEF Calls
<1>3. \A q \in Procs : call'[q] = IF q = p THEN NoCall ELSE call[q]
  BY <1>2
<1>4. NoCall = [pc |-> "none", op |-> "none", topic |-> <<>>, item |-> 0, val |-> "none", obj |-> None, seq |-> 0]
  BY DEF NoCall
<1>5. \A q \in Procs : call'[q] = [pc |-> call'[q].pc, op |-> call'[q].op, topic |-> call'[q].topic,
                              item |-> call'[q].item, val |-> call'[q].val, obj |-> call'[q].obj,
                              seq |-> call'[q].seq]
  <2> TAKE q \in Procs
  <2>1. CASE q = p
    BY <1>3, <1>4, <2>1
  <2>2. CASE q # p
    BY <1>2, <1>3, <2>2
  <2> QED
    BY <2>1, <2>2
<1>6. call' = [q \in Procs |-> call'[q]]
  BY <1>2
<1>7. \A q \in Procs : Appending(call'[q], job'[q])
                       /\ (call'[q].pc = "write" => call'[q].op = "append")
  <2> TAKE q \in Procs
  <2>1. CASE q = p
    <3>1. call'[q].pc = "none"
      BY <1>3, <1>4, <2>1
    <3> QED
      BY <3>1 DEF Appending
  <2>2. CASE q # p
    <3>1. call'[q] = call[q] /\ job'[q] = job[q]
      BY <1>1, <1>3, <2>2
    <3> QED
      BY <3>1 DEF Calls
  <2> QED
    BY <2>1, <2>2
<1>8. file' = [t \in Topics |-> file'[t]] /\ \A t \in Topics : \E Q : file'[t] \in Seq(Q)
  BY DEF Calls
<1>9. call' = [q \in Procs |-> [pc |-> call'[q].pc, op |-> call'[q].op, topic |-> call'[q].topic,
                              item |-> call'[q].item, val |-> call'[q].val, obj |-> call'[q].obj,
                              seq |-> call'[q].seq]]
  BY <1>5, <1>6
<1> QED
  BY <1>7, <1>8, <1>9 DEF Calls

\* A step keeps the invariant if it makes no call or ends one.
LEMMA RunStep ==
  ASSUME MsgInv, NEW p \in Procs, NEW j, NEW A, Step(p, j, A), file' = file,
         \/ call' = call /\ (job[p].pc # "store" \/ job[p].items = <<>>)
         \/ call' = [call EXCEPT ![p] = NoCall]
  PROVE  MsgInv'
<1>1. Settled'
  BY StepSettled DEF MsgInv, Settled
<1>2. job' = [job EXCEPT ![p] = j]
  BY DEF Step, Moves
<1>3. Calls'
  BY <1>2, StepCalls, StepEndsCall DEF MsgInv
<1> QED
  BY <1>1, <1>3 DEF MsgInv, Settled

\* What is said of empty sequences.
LEMMA Empty == ToSet(<<>>) = {} /\ IsInjective(<<>>) /\ OncePerId(<<>>) /\ Len(<<>>) = 0
BY DEF ToSet, IsInjective, OncePerId

\* A run is done and answered: the answers were true when they were made, and stay so.
LEMMA ResponseInv ==
  ASSUME MsgInv, NEW p \in Procs, response(p)
  PROVE  MsgInv'
<1>1. /\ job[p].pc = "split" /\ job[p].rest = <<>> /\ Respond(job[p].acks)
      /\ job' = [job EXCEPT ![p] = Idle]
      /\ UNCHANGED <<msg, log, queue, notify, started, delivered, cursor, moving, acked, file, call>>
  BY DEF response, Goto, cursorVars, streamVars
<1> SUFFICES ASSUME Settled PROVE MsgInv'
  BY DEF MsgInv, Settled
<1>2. PICK k : k = job[p]
  OBVIOUS
<1>3. PICK A : A = AckIds(k)
  OBVIOUS
<1>4. k.acks \in Seq(AckRecs) /\ Separate(k) /\ Holds(k) \subseteq DOMAIN msg /\ k.msgs = <<>>
  <2>1. Shape(p, k)
    BY <1>2, RunOf
  <2>2. k.msgs = <<>>
    BY <1>1, <1>2, <2>1 DEF Shape
  <2> QED
    BY <1>2, <2>2, RunOf
<1>5. SameMessages(p) /\ Grows(p)
  BY <1>1, QuietGrows DEF Settled
<1>6. /\ replies' \in Seq(Seq(AckRecs)) /\ Len(replies') = Len(replies)
      /\ \A i \in DOMAIN replies :
           /\ Len(replies'[i]) = Len(replies[i]) + (IF i \in A THEN 1 ELSE 0)
           /\ \A r \in ToSet(replies'[i]) : r \in ToSet(replies[i]) \/ (r \in ToSet(k.acks) /\ r.id = i)
  <2>1. OncePerId(k.acks) /\ replies \in Seq(Seq(AckRecs)) /\ Respond(k.acks)
    BY <1>1, <1>2, <1>4 DEF Separate, Settled, Types
  <2>2. A = {r.id : r \in ToSet(k.acks)}
    BY <1>3 DEF AckIds
  <2> QED
    BY <1>4, <2>1, <2>2, Answers
<1>7. PICK j : j = Idle
  OBVIOUS
<1>8. j \in JobRecs /\ j.pc = "idle" /\ j.rest = <<>> /\ j.msgs = <<>> /\ j.items = <<>>
      /\ j.acks = <<>> /\ j.seqs = {}
  BY <1>7 DEF Idle, JobRecs
<1>9. AckIds(j) = {} /\ Holds(j) = {} /\ Separate(j)
  <2>1. AckIds(j) = {}
    BY <1>8, Empty DEF AckIds
  <2> QED
    BY <1>8, <2>1, Empty DEF Holds, Separate
<1>10. Holds(job[p]) = A
  BY <1>1, <1>2, <1>3, <1>4, Empty DEF Holds
<1>11. Moves(p, j, A)
  BY <1>1, <1>6, <1>7, <1>8, <1>9, <1>10, Empty DEF Moves
<1>12. Truthful(p, j)
  <2>1. Shape(p, j)'
    <3>1. Len(j.rest) + Len(j.msgs) + Len(j.acks) <= 1
      BY <1>8, Empty
    <3>2. ToSet(j.rest) = {} /\ ToSet(j.msgs) = {} /\ ToSet(j.items) = {}
      BY <1>8, Empty
    <3> QED
      BY <1>1, <1>5, <1>8, <3>1, <3>2, ShapeKeeps
  <2>2. Done(j)'
    BY <1>8 DEF Done
  <2>3. ASSUME NEW i \in DOMAIN replies, NEW r \in ToSet(replies'[i]), r \notin ToSet(replies[i])
        PROVE  Claims(i, r)'
    <3>1. r \in ToSet(k.acks) /\ r.id = i
      BY <1>6, <2>3
    <3>2. Claims(i, r)
      BY <1>2, <3>1 DEF Settled, Truth
    <3>3. i \in DOMAIN msg /\ i \notin ToSet(job[p].msgs)
      BY <1>2, <1>4, Empty DEF Settled, Types
    <3> QED
      BY <1>5, <3>2, <3>3, StepClaims DEF Settled
  <2> QED
    BY <1>1, <1>8, <2>1, <2>2, <2>3, Empty DEF Truthful
<1>13. Step(p, j, A)
  BY <1>1, <1>5, <1>11, <1>12 DEF Step
<1> QED
  BY <1>1, <1>13, RunStep

\* A goroutine goes on, and nothing else happens.
LEMMA QuietStep ==
  ASSUME Settled, NEW p \in Procs, NEW j, j \in JobRecs, job' = [job EXCEPT ![p] = j],
         Separate(j), Holds(j) = Holds(job[p]), ToSet(j.rest) \subseteq ToSet(job[p].rest),
         ToSet(j.msgs) \subseteq ToSet(job[p].rest) \cup ToSet(job[p].msgs),
         Shape(p, j)', Done(j)',
         \A r \in ToSet(j.acks) : r \in ToSet(job[p].acks) \/ Claims(r.id, r)',
         UNCHANGED <<msg, log, queue, notify, replies, started, delivered, cursor, moving, acked, file>>
  PROVE  Step(p, j, {})
<1>1. SameMessages(p) /\ Grows(p)
  BY QuietGrows DEF Settled
<1>2. Moves(p, j, {})
  BY NoAnswer DEF Moves, Settled
<1>3. Truthful(p, j)
  BY DEF Truthful
<1> QED
  BY <1>1, <1>2, <1>3 DEF Step

\* A call to the store begins.
LEMMA GetStreamInv ==
  ASSUME MsgInv, NEW p \in Procs, NEW op, NEW t, NEW item, NEW val, getStream(p, op, t, item, val),
         op = "append" => job[p].pc = "store" /\ job[p].items # <<>> /\ item = Head(job[p].items),
         UNCHANGED <<msgVars, cursorVars>>
  PROVE  MsgInv'
<1>a. PICK pc : pc = IF cached[t] # None THEN "held" ELSE "made"
  OBVIOUS
<1>b. PICK o : o = IF cached[t] # None THEN cached[t] ELSE Fresh
  OBVIOUS
<1>1. /\ pc \in {"held", "made"}
      /\ call' = [call EXCEPT ![p] = [NoCall EXCEPT !.pc = pc, !.op = op, !.topic = t,
                                                    !.item = item, !.val = val, !.obj = o]]
  BY <1>a, <1>b DEF getStream
<1>2. PICK c : c = [NoCall EXCEPT !.pc = pc, !.op = op, !.topic = t, !.item = item, !.val = val, !.obj = o]
  OBVIOUS
<1>3. c = [pc |-> pc, op |-> op, topic |-> t, item |-> item, val |-> val, obj |-> o, seq |-> 0]
  BY <1>2 DEF NoCall
<1>4. c = [pc |-> c.pc, op |-> c.op, topic |-> c.topic, item |-> c.item, val |-> c.val,
           obj |-> c.obj, seq |-> c.seq] /\ c.pc = pc /\ c.op = op /\ c.item = item
  BY <1>3
<1>5. Appending(c, job[p])
  BY <1>4 DEF Appending
<1>6. file' = file
  BY DEF getStream
<1> QED
  BY <1>1, <1>2, <1>4, <1>5, <1>6, CallGoesOn

\* The meta data of a new stream is saved, or its request fails after all.
LEMMA SaveStreamMetaInv ==
  ASSUME MsgInv, NEW p \in Procs, SaveStreamMeta(p)
  PROVE  MsgInv'
<1>1. CASE call[p].pc = "none"
  <2>1. getStream(p, "save", <<msg[started].to>>, 0, "start") /\ UNCHANGED <<msgVars, cursorVars>>
    BY <1>1 DEF SaveStreamMeta, msgVars
  <2> QED
    BY <2>1, GetStreamInv
<1>2. CASE call[p].pc # "none"
  <2>1. PICK k : k = job[p]
    OBVIOUS
  <2>2. PICK as : /\ as = k.acks \/ as = getSendackPacketWithSendPacket(<<started>>, "SystemError")
                  /\ job' = [job EXCEPT ![p] = [k EXCEPT !.pc = "split", !.acks = as]]
    BY <1>2, <2>1 DEF SaveStreamMeta, Goto
  <2>3. /\ k.pc = "meta" /\ call' = [call EXCEPT ![p] = NoCall]
        /\ UNCHANGED <<msg, log, queue, notify, replies, started, delivered, cursor, moving, acked, file>>
    BY <1>2, <2>1 DEF SaveStreamMeta, cursorVars
  <2> SUFFICES ASSUME Settled PROVE MsgInv'
    BY DEF MsgInv, Settled
  <2>4. /\ k \in JobRecs /\ Shape(p, k) /\ Done(k) /\ Separate(k) /\ Holds(k) \subseteq DOMAIN msg
        /\ k.acks \in Seq(AckRecs) /\ k.rest \in Seq(Nat)
        /\ k = [pc |-> k.pc, rest |-> k.rest, msgs |-> k.msgs, items |-> k.items, subs |-> k.subs,
                 seqs |-> k.seqs, acks |-> k.acks]
    BY <2>1, RunOf
  <2>5. k.msgs = <<>> /\ k.rest = <<>> /\ AckIds(k) = {started} /\ Len(k.acks) = 1
        /\ ToSet(k.items) = {}
    BY <2>3, <2>4, Empty DEF Shape
  <2>6. started \in Nat
    <3>1. started \in DOMAIN msg
      BY <2>4, <2>5 DEF Holds
    <3>2. DOMAIN msg \subseteq Nat
      BY DEF Settled, Types
    <3> QED
      BY <3>1, <3>2
  <2>7. /\ as \in Seq(AckRecs) /\ Len(as) = 1 /\ {r.id : r \in ToSet(as)} = {started} /\ OncePerId(as)
        /\ \A r \in ToSet(as) : r \in ToSet(k.acks) \/ r.reason = "SystemError"
    <3>1. CASE as = k.acks
      BY <2>4, <2>5, <3>1 DEF AckIds, Separate
    <3>2. CASE as = getSendackPacketWithSendPacket(<<started>>, "SystemError")
      <4>1. PICK ids : ids = <<started>>
        OBVIOUS
      <4>2. ids \in Seq(Nat) /\ Len(ids) = 1 /\ ToSet(ids) = {started} /\ IsInjective(ids)
            /\ "SystemError" \in Reasons
        BY <2>6, <4>1 DEF ToSet, IsInjective, Reasons
      <4> QED
        BY <3>2, <4>1, <4>2, Sendacks
    <3> QED
      BY <2>2, <3>1, <3>2
  <2>8. PICK j : j = [k EXCEPT !.pc = "split", !.acks = as]
    OBVIOUS
  <2>9. j.pc = "split" /\ j.rest = k.rest /\ j.msgs = k.msgs /\ j.items = k.items /\ j.seqs = k.seqs
        /\ j.acks = as
    BY <2>4, <2>8
  <2>10. j \in JobRecs
    BY <2>4, <2>7, <2>8 DEF JobRecs
  <2>11. AckIds(j) = AckIds(k)
    BY <2>5, <2>7, <2>9 DEF AckIds
  <2>12. Separate(j) /\ Holds(j) = Holds(job[p])
    BY <2>1, <2>4, <2>7, <2>9, <2>11 DEF Separate, Holds
  <2>13. Shape(p, j)'
    <3>1. Len(j.rest) + Len(j.msgs) + Len(j.acks) <= 1
      <4>1. Len(j.rest) = 0 /\ Len(j.msgs) = 0 /\ Len(j.acks) = 1
        BY <2>5, <2>7, <2>9, Empty
      <4> QED
        BY <4>1
    <3>2. SameMessages(p)
      BY <2>3, QuietGrows DEF Settled
    <3>3. ToSet(j.rest) = {} /\ ToSet(j.msgs) = {} /\ ToSet(j.items) = {} /\ j.msgs = <<>>
      BY <2>5, <2>9, Empty
    <3> QED
      BY <2>3, <2>9, <3>1, <3>2, <3>3, ShapeKeeps
  <2>14. Done(j)'
    BY <2>3, <2>4, <2>9 DEF Done
  <2>15. \A r \in ToSet(j.acks) : r \in ToSet(job[p].acks) \/ Claims(r.id, r)'
    BY <2>1, <2>7, <2>9 DEF Claims, Refusals
  <2>16. Step(p, j, {})
    BY <2>1, <2>2, <2>3, <2>8, <2>9, <2>10, <2>12, <2>13, <2>14, <2>15, QuietStep
  <2> QED
    BY <2>3, <2>16, RunStep
<1> QED
  BY <1>1, <1>2

\* A stream ends.
LEMMA StreamMessageEndInv ==
  ASSUME MsgInv, NEW p \in Procs, streamMessageEnd(p)
  PROVE  MsgInv'
<1>1. CASE job' = job
  <2>1. \/ getStream(p, "read", <<msg[started].to>>, 0, "none")
        \/ getStream(p, "save", <<msg[started].to>>, 0, "end")
        \/ call' = [call EXCEPT ![p] = NoCall] /\ file' = file
    BY DEF streamMessageEnd
  <2>2. UNCHANGED <<msgVars, cursorVars>>
    BY <1>1 DEF streamMessageEnd, msgVars
  <2>3. ASSUME call' = [call EXCEPT ![p] = NoCall], file' = file
        PROVE  MsgInv'
    <3>1. PICK c : c = NoCall
      OBVIOUS
    <3>2. c = [pc |-> "none", op |-> "none", topic |-> <<>>, item |-> 0, val |-> "none", obj |-> None, seq |-> 0]
      BY <3>1 DEF NoCall
    <3>3. c = [pc |-> c.pc, op |-> c.op, topic |-> c.topic, item |-> c.item, val |-> c.val,
               obj |-> c.obj, seq |-> c.seq] /\ c.pc = "none"
      BY <3>2
    <3> QED
      BY <2>2, <2>3, <3>1, <3>3, CallGoesOn DEF Appending
  <2> QED
    BY <2>1, <2>2, <2>3, GetStreamInv
<1>2. CASE job' # job
  <2>1. PICK k : k = job[p]
    OBVIOUS
  <2>2. PICK reason \in {"Success", "SystemError"} :
          job' = [job EXCEPT ![p] = [Idle EXCEPT !.pc = "split",
                                       !.acks = getSendackPacketWithSendPacket(k.rest, reason)]]
    BY <1>2, <2>1 DEF streamMessageEnd, Goto
  <2>3. /\ k.pc = "end" /\ call' = [call EXCEPT ![p] = NoCall]
        /\ UNCHANGED <<msg, log, queue, notify, replies, started, delivered, cursor, moving, acked, file>>
    BY <1>2, <2>1 DEF streamMessageEnd, cursorVars
  <2> SUFFICES ASSUME Settled PROVE MsgInv'
    BY DEF MsgInv, Settled
  <2>4. /\ k \in JobRecs /\ Shape(p, k) /\ Separate(k) /\ Holds(k) \subseteq DOMAIN msg
        /\ k.rest \in Seq(Nat) /\ Len(k.rest) \in Nat
    BY <2>1, RunOf
  <2>5. k.msgs = <<>> /\ k.acks = <<>> /\ p \in Handlers /\ \A i \in ToSet(k.rest) : msg[i].kind = "end"
    BY <2>3, <2>4 DEF Shape
  <2>6. PICK as : as = getSendackPacketWithSendPacket(k.rest, reason)
    OBVIOUS
  <2>7. /\ as \in Seq(AckRecs) /\ Len(as) = Len(k.rest) /\ {r.id : r \in ToSet(as)} = ToSet(k.rest)
        /\ OncePerId(as)
        /\ \A r \in ToSet(as) : r.reason = reason
    BY <2>4, <2>6, Sendacks DEF Reasons, Separate
  <2>8. PICK j : j = [Idle EXCEPT !.pc = "split", !.acks = as]
    OBVIOUS
  <2>9. j = [pc |-> "split", rest |-> <<>>, msgs |-> <<>>, items |-> <<>>, subs |-> {}, seqs |-> {},
             acks |-> as]
    BY <2>8 DEF Idle
  <2>10. j \in JobRecs
    <3>1. Idle \in JobRecs
      BY DEF Idle, JobRecs
    <3> QED
      BY <2>7, <2>8, <3>1 DEF JobRecs
  <2>11. j.pc = "split" /\ j.rest = <<>> /\ j.msgs = <<>> /\ j.items = <<>> /\ j.seqs = {} /\ j.acks = as
    BY <2>9
  <2>12. AckIds(j) = ToSet(k.rest) /\ AckIds(k) = {}
    BY <2>5, <2>7, <2>11, Empty DEF AckIds
  <2>13. Separate(j) /\ Holds(j) = Holds(job[p])
    BY <2>1, <2>5, <2>7, <2>11, <2>12, Empty DEF Separate, Holds
  <2>14. Shape(p, j)'
    <3>1. Len(j.rest) + Len(j.msgs) + Len(j.acks) <= 1
      <4>1. Len(k.rest) + Len(k.msgs) + Len(k.acks) <= 1
        BY <2>4, <2>5 DEF Shape
      <4> QED
        <5>1. Len(j.rest) = 0 /\ Len(j.msgs) = 0 /\ Len(j.acks) = Len(k.rest) /\ Len(k.msgs) = 0
              /\ Len(k.acks) = 0
          BY <2>5, <2>7, <2>11, Empty
        <5> QED
          BY <2>4, <4>1, <5>1
    <3>2. SameMessages(p)
      BY <2>3, QuietGrows DEF Settled
    <3>3. ToSet(j.rest) = {} /\ ToSet(j.msgs) = {} /\ ToSet(j.items) = {}
      BY <2>11, Empty
    <3> QED
      BY <2>3, <2>11, <3>1, <3>2, <3>3, ShapeKeeps
  <2>15. Done(j)'
    BY <2>11 DEF Done
  <2>16. \A r \in ToSet(j.acks) : r \in ToSet(job[p].acks) \/ Claims(r.id, r)'
    <3> SUFFICES ASSUME NEW r \in ToSet(as)
                 PROVE  Claims(r.id, r)'
      BY <2>11
    <3>1. r.id \in ToSet(k.rest)
      BY <2>7
    <3>2. msg'[r.id].kind = "end" /\ r.reason \notin Refusals
      BY <2>3, <2>5, <2>7, <3>1 DEF Refusals
    <3> QED
      BY <3>2 DEF Claims
  <2>17. Step(p, j, {})
    BY <2>1, <2>2, <2>3, <2>6, <2>8, <2>10, <2>11, <2>13, <2>14, <2>15, <2>16, Empty, QuietStep
  <2> QED
    BY <2>3, <2>17, RunStep
<1> QED
  BY <1>1, <1>2

\* A run gives up without having stored or numbered anything in this step.
LEMMA GiveUpQuietly ==
  ASSUME Settled, NEW p \in Procs, NEW j, j = GiveUp(job[p], msg), job[p].msgs # <<>>,
         job' = [job EXCEPT ![p] = j],
         UNCHANGED <<msg, log, queue, notify, replies, started, delivered, cursor, moving, acked, file>>
  PROVE  Step(p, j, {})
<1>1. SameMessages(p) /\ Grows(p)
  BY QuietGrows DEF Settled
<1>2. j = GiveUp(job[p], msg')
  OBVIOUS
<1>3. Moves(p, j, {}) /\ Truthful(p, j)
  BY <1>1, <1>2, GiveUpMoves
<1> QED
  BY <1>1, <1>3 DEF Step

\* An item was appended to its stream, or could not be.
LEMMA AppendStreamItemInv ==
  ASSUME MsgInv, NEW p \in Procs, AppendStreamItem(p)
  PROVE  MsgInv'
<1>1. CASE call[p].pc = "none"
  <2>1. getStream(p, "append", StreamTopic(msg[Head(job[p].items)]), Head(job[p].items), "none")
        /\ job[p].pc = "store" /\ job[p].items # <<>> /\ UNCHANGED <<msgVars, cursorVars>>
    BY <1>1 DEF AppendStreamItem, msgVars
  <2> QED
    BY <2>1, GetStreamInv
<1>2. CASE call[p].pc # "none"
  <2>1. PICK k : k = job[p]
    OBVIOUS
  <2>2. PICK j : j = (IF call[p].val = "ok" THEN [k EXCEPT !.items = Tail(@)] ELSE GiveUp(k, msg))
    OBVIOUS
  <2>3. /\ k.pc = "store" /\ k.items # <<>> /\ call' = [call EXCEPT ![p] = NoCall]
        /\ job' = [job EXCEPT ![p] = j]
        /\ UNCHANGED <<msg, log, queue, notify, replies, started, delivered, cursor, moving, acked, file>>
    BY <1>2, <2>1, <2>2 DEF AppendStreamItem, Goto, cursorVars
  <2> SUFFICES ASSUME Settled PROVE MsgInv'
    BY DEF MsgInv, Settled
  <2>4. /\ k \in JobRecs /\ Shape(p, k) /\ Done(k) /\ Separate(k) /\ Holds(k) \subseteq DOMAIN msg
        /\ k.items \in Seq(Nat)
        /\ k = [pc |-> k.pc, rest |-> k.rest, msgs |-> k.msgs, items |-> k.items, subs |-> k.subs,
                 seqs |-> k.seqs, acks |-> k.acks]
    BY <2>1, RunOf
  <2>5. k.msgs # <<>>
    BY <2>3, <2>4 DEF Shape
  <2>6. CASE call[p].val # "ok"
    <3>1. j = GiveUp(job[p], msg)
      BY <2>1, <2>2, <2>6
    <3>2. Step(p, j, {})
      BY <2>1, <2>3, <2>5, <3>1, GiveUpQuietly
    <3> QED
      BY <2>3, <3>2, RunStep
  <2>7. CASE call[p].val = "ok"
    <3>1. PICK s : s = Tail(k.items)
      OBVIOUS
    <3>2. s \in Seq(Nat) /\ ToSet(s) \subseteq ToSet(k.items)
      <4>1. PICK l : l = k.items
        OBVIOUS
      <4>2. l \in Seq(Nat) /\ l # <<>> /\ s = Tail(l)
        BY <2>3, <2>4, <3>1, <4>1
      <4>3. s \in Seq(Nat) /\ \A n \in DOMAIN s : n + 1 \in DOMAIN l /\ s[n] = l[n + 1]
        BY <4>2
      <4> QED
        BY <4>1, <4>3 DEF ToSet
    <3>3. j = [k EXCEPT !.items = s]
      BY <2>2, <2>7, <3>1
    <3>4. j.pc = "store" /\ j.rest = k.rest /\ j.msgs = k.msgs /\ j.items = s /\ j.seqs = k.seqs
          /\ j.acks = k.acks
      BY <2>3, <2>4, <3>3
    <3>5. j \in JobRecs
      BY <2>4, <3>2, <3>3 DEF JobRecs
    <3>6. Separate(j) /\ Holds(j) = Holds(job[p])
      BY <2>1, <2>4, <3>4 DEF Separate, Holds, AckIds
    <3>7. Shape(p, j)'
      <4>1. SameMessages(p)
        BY <2>3, QuietGrows DEF Settled
      <4>2. /\ p \in Handlers => Len(j.rest) + Len(j.msgs) + Len(j.acks) <= 1
            /\ ToSet(j.items) \subseteq ToSet(j.msgs)
            /\ \A i, l \in ToSet(j.msgs) : msg[i].to = msg[l].to
        BY <2>4, <3>2, <3>4 DEF Shape
      <4> QED
        BY <2>1, <2>3, <2>5, <3>4, <4>1, <4>2, ShapeKeeps
    <3>8. Done(j)'
      BY <2>3, <2>4, <3>4 DEF Done
    <3>9. Step(p, j, {})
      BY <2>1, <2>3, <3>4, <3>5, <3>6, <3>7, <3>8, QuietStep
    <3> QED
      BY <2>3, <3>9, RunStep
  <2> QED
    BY <2>6, <2>7
<1> QED
  BY <1>1, <1>2

\* What was not looked at yet may be refused.
LEMMA RefusalTrue ==
  ASSUME Settled, NEW p \in Procs, NEW i \in ToSet(job[p].rest), NEW r,
         r.reason \in Refusals \cup {"SystemError"},
         UNCHANGED <<log, queue, notify, delivered, file>>
  PROVE  Claims(i, r)'
<1>1. ~Somewhere(i)
  BY DEF Settled, Truth
<1>2. ~Somewhere(i)'
  BY <1>1 DEF Somewhere
<1>3. r.reason # "Success"
  BY DEF Refusals
<1> QED
  BY <1>2, <1>3 DEF Claims

\* A channel of the run of p is taken, and p goes on to j: the channel's messages, so
\* far not looked at, will be stored (ids), will be refused (R) or were refused at
\* once (A); the others stay (rest).
Split(p, k, rest, ids, items, as, R, A, j) ==
  /\ k = job[p] /\ k.pc = "split"
  /\ rest \in Seq(Nat) /\ ids \in Seq(Nat) /\ items \in Seq(Nat) /\ as \in Seq(AckRecs)
  /\ j = [k EXCEPT !.pc = IF ids = <<>> THEN "split" ELSE "store", !.rest = rest, !.msgs = ids,
                   !.items = items, !.acks = as]
  /\ job' = [job EXCEPT ![p] = j]
  /\ IsInjective(rest) /\ IsInjective(ids) /\ OncePerId(as) /\ ToSet(items) \subseteq ToSet(ids)
  /\ {r.id : r \in ToSet(as)} = AckIds(k) \cup R
  /\ ToSet(rest) \cup ToSet(ids) \cup R \cup A = ToSet(k.rest)
  /\ ToSet(rest) \cap ToSet(ids) = {} /\ ToSet(rest) \cap R = {} /\ ToSet(rest) \cap A = {}
  /\ ToSet(ids) \cap R = {} /\ ToSet(ids) \cap A = {} /\ R \cap A = {}
  /\ \A i, l \in ToSet(ids) : msg[i].to = msg[l].to
  /\ p \in Handlers => Len(rest) + Len(ids) + Len(as) <= 1
  /\ \A r \in ToSet(as) : r \in ToSet(k.acks)
       \/ (r.id \in ToSet(k.rest) /\ r.reason \in Refusals \cup {"SystemError"})
  /\ replies' \in Seq(Seq(AckRecs)) /\ Len(replies') = Len(replies)
  /\ \A i \in DOMAIN replies : Len(replies'[i]) = Len(replies[i]) + (IF i \in A THEN 1 ELSE 0)
  /\ \A i \in DOMAIN replies : \A r \in ToSet(replies'[i]) : r \in ToSet(replies[i])
       \/ (i \in ToSet(k.rest) /\ r.reason \in Refusals \cup {"SystemError"})

\* That is a step.
LEMMA SplitStep ==
  ASSUME Settled, NEW p \in Procs, NEW k, NEW rest, NEW ids, NEW items, NEW as, NEW R, NEW A, NEW j,
         Split(p, k, rest, ids, items, as, R, A, j),
         UNCHANGED <<msg, log, queue, notify, started, delivered, cursor, moving, acked, file>>
  PROVE  Step(p, j, A)
<1>1. /\ k \in JobRecs /\ Shape(p, k) /\ Done(k) /\ Separate(k) /\ Holds(k) \subseteq DOMAIN msg
      /\ k = [pc |-> k.pc, rest |-> k.rest, msgs |-> k.msgs, items |-> k.items, subs |-> k.subs,
              seqs |-> k.seqs, acks |-> k.acks]
  BY RunOf DEF Split
<1>2. SameMessages(p) /\ Grows(p)
  BY QuietGrows DEF Settled
<1>3. k.msgs = <<>> /\ k = job[p]
  BY <1>1 DEF Shape, Split
<1>4. j.pc = (IF ids = <<>> THEN "split" ELSE "store") /\ j.rest = rest /\ j.msgs = ids
      /\ j.items = items /\ j.acks = as /\ j.seqs = k.seqs
  BY <1>1 DEF Split
<1>5. j \in JobRecs
  BY <1>1 DEF JobRecs, Split
<1>6. AckIds(j) = AckIds(k) \cup R
  BY <1>4 DEF AckIds, Split
<1>7. ToSet(k.rest) \cap AckIds(k) = {}
  BY <1>1 DEF Separate
<1>8. Separate(j)
  BY <1>4, <1>6, <1>7 DEF Separate, Split
<1>9. Holds(k) = ToSet(k.rest) \cup AckIds(k)
  BY <1>3, Empty DEF Holds
<1>10. Holds(j) = ToSet(rest) \cup ToSet(ids) \cup AckIds(k) \cup R
  BY <1>4, <1>6 DEF Holds
<1>11. Holds(j) \cap A = {} /\ Holds(j) \cup A = Holds(k)
  BY <1>7, <1>9, <1>10 DEF Split
<1>12. Moves(p, j, A)
  BY <1>3, <1>4, <1>5, <1>8, <1>11 DEF Moves, Split
<1>13. Shape(p, j)'
  <2>1. ToSet(j.rest) \cup ToSet(j.msgs) \subseteq ToSet(job[p].rest) \cup ToSet(job[p].msgs)
    BY <1>3, <1>4 DEF Split
  <2>2. j.pc \in {"split", "store"} /\ (j.pc = "store" <=> j.msgs # <<>>)
    BY <1>4
  <2>3. /\ p \in Handlers => Len(j.rest) + Len(j.msgs) + Len(j.acks) <= 1
        /\ ToSet(j.items) \subseteq ToSet(j.msgs)
        /\ \A i, l \in ToSet(j.msgs) : msg[i].to = msg[l].to
    BY <1>4, ZenonT(60) DEF Split
  <2> QED
    BY <1>2, <2>1, <2>2, <2>3, ShapeKeeps
<1>14. Done(j)'
  BY <1>1, <1>4 DEF Done
<1>15. \A r \in ToSet(j.acks) : r \in ToSet(job[p].acks) \/ Claims(r.id, r)'
  BY <1>3, <1>4, RefusalTrue DEF Split
<1>16. \A i \in DOMAIN replies : \A r \in ToSet(replies'[i]) : r \in ToSet(replies[i]) \/ Claims(i, r)'
  BY <1>3, RefusalTrue DEF Split
<1>17. Truthful(p, j)
  BY <1>13, <1>14, <1>15, <1>16 DEF Truthful
<1> QED
  BY <1>2, <1>12, <1>17 DEF Step

\* A request is accepted or refused.
LEMMA SendMessageToChannelInv ==
  ASSUME MsgInv, NEW p \in Handlers, sendMessageToChannel(p)
  PROVE  MsgInv'
<1> SUFFICES ASSUME Settled PROVE MsgInv'
  BY DEF MsgInv, Settled
<1>1. p \in Procs
  BY MessageConstants
<1>2. PICK k : k = job[p]
  OBVIOUS
<1>3. /\ k.pc = "split" /\ k.rest # <<>>
      /\ UNCHANGED <<msg, log, queue, notify, replies, started, delivered, cursor, moving, acked, file, call>>
      /\ \/ job' = [job EXCEPT ![p] = Accepted([k EXCEPT !.rest = <<>>], k.rest)]
         \/ job' = [job EXCEPT ![p] = [[k EXCEPT !.rest = <<>>]
                     EXCEPT !.acks = getSendackPacketWithSendPacket(k.rest, "Refused")]]
  <2>1. [job[p] EXCEPT !.rest = <<>>].pc = job[p].pc
    BY <1>1, <1>2, RunOf
  <2> QED
    BY <1>2, <2>1 DEF sendMessageToChannel, Goto, cursorVars
<1>4. /\ k \in JobRecs /\ Shape(p, k) /\ Separate(k)
      /\ k.rest \in Seq(Nat) /\ k.acks \in Seq(AckRecs)
      /\ Len(k.rest) \in Nat /\ Len(k.msgs) \in Nat /\ Len(k.acks) \in Nat
      /\ k = [pc |-> k.pc, rest |-> k.rest, msgs |-> k.msgs, items |-> k.items, subs |-> k.subs,
              seqs |-> k.seqs, acks |-> k.acks]
  BY <1>1, <1>2, RunOf
<1>5. Len(k.rest) = 1 /\ Len(k.acks) = 0 /\ k.acks = <<>> /\ k.msgs = <<>>
  <2>1. k.msgs = <<>>
    BY <1>3, <1>4 DEF Shape
  <2>2. Len(k.rest) + Len(k.msgs) + Len(k.acks) <= 1
    BY <1>4 DEF Shape
  <2>3. Len(k.rest) > 0
    BY <1>3, <1>4
  <2>4. Len(k.rest) = 1 /\ Len(k.acks) = 0
    <3>1. \A a, b, c \in Nat : a + b + c <= 1 /\ a > 0 => a = 1 /\ c = 0
      OBVIOUS
    <3> QED
      BY <1>4, <2>2, <2>3, <3>1
  <2> QED
    BY <1>4, <2>1, <2>4
<1>6. AckIds(k) = {} /\ ToSet(k.items) = {} /\ k.items \in Seq(Nat) /\ IsInjective(k.rest)
  <2>1. ToSet(k.items) = {}
    BY <1>4, <1>5, Empty DEF Shape
  <2> QED
    BY <1>4, <1>5, <2>1, Empty DEF AckIds, JobRecs, Separate
<1>7. \A i, l \in ToSet(k.rest) : i = l
  <2>1. DOMAIN k.rest = 1 .. 1
    BY <1>4, <1>5
  <2> QED
    BY <2>1 DEF ToSet
<1>8. /\ replies' \in Seq(Seq(AckRecs)) /\ Len(replies') = Len(replies)
      /\ \A i \in DOMAIN replies : Len(replies'[i]) = Len(replies[i]) + (IF i \in {} THEN 1 ELSE 0)
      /\ \A i \in DOMAIN replies : \A r \in ToSet(replies'[i]) : r \in ToSet(replies[i])
  BY <1>3, NoAnswer DEF Settled
<1>9. PICK none : none = <<>>
  OBVIOUS
<1>0. none = <<>> /\ none \in Seq(Nat) /\ ToSet(none) = {} /\ IsInjective(none) /\ Len(none) = 0
  BY <1>9, Empty
<1>10. CASE job' = [job EXCEPT ![p] = Accepted([k EXCEPT !.rest = <<>>], k.rest)]
  <2>1. PICK j : j = Accepted([k EXCEPT !.rest = <<>>], k.rest)
    OBVIOUS
  <2>2. PICK items : items = Only(k.rest, Items)
    OBVIOUS
  <2>3. items \in Seq(Nat) /\ ToSet(items) \subseteq ToSet(k.rest)
    BY <1>4, <2>2, OnlyKeeps
  <2>5. j = [k EXCEPT !.pc = IF k.rest = <<>> THEN "split" ELSE "store", !.rest = none, !.msgs = k.rest,
                      !.items = items, !.acks = k.acks]
    BY <1>4, <1>9, <2>1, <2>2 DEF Accepted
  <2>6. OncePerId(k.acks) /\ {r.id : r \in ToSet(k.acks)} = AckIds(k)
    BY <1>4 DEF Separate, AckIds
  <2>7. Len(none) + Len(k.rest) + Len(k.acks) <= 1
    BY <1>5, <1>0
  <2>8. PICK R : R = {}
    OBVIOUS
  <2>9. Split(p, k, none, k.rest, items, k.acks, R, R, j)
    BY <1>0, <1>2, <1>3, <1>4, <1>6, <1>7, <1>8, <1>10, <2>1, <2>3, <2>5, <2>6, <2>7, <2>8 DEF Split
  <2>10. Step(p, j, R)
    BY <1>1, <1>3, <2>9, SplitStep
  <2> QED
    BY <1>1, <1>2, <1>3, <2>10, RunStep
<1>11. CASE job' = [job EXCEPT ![p] = [[k EXCEPT !.rest = <<>>]
                     EXCEPT !.acks = getSendackPacketWithSendPacket(k.rest, "Refused")]]
  <2>1. PICK as : as = getSendackPacketWithSendPacket(k.rest, "Refused")
    OBVIOUS
  <2>2. /\ as \in Seq(AckRecs) /\ Len(as) = 1 /\ {r.id : r \in ToSet(as)} = ToSet(k.rest)
        /\ \A r \in ToSet(as) : r.reason = "Refused"
        /\ OncePerId(as)
    <3>1. "Refused" \in Reasons
      BY DEF Reasons
    <3> QED
      BY <1>4, <1>5, <1>6, <2>1, <3>1, Sendacks
  <2>3. PICK j : j = [[k EXCEPT !.rest = <<>>] EXCEPT !.acks = as]
    OBVIOUS
  <2>5. j = [k EXCEPT !.pc = IF none = <<>> THEN "split" ELSE "store", !.rest = none, !.msgs = none,
                      !.items = k.items, !.acks = as]
    BY <1>3, <1>4, <1>5, <1>9, <2>3
  <2>6. PICK R : R = ToSet(k.rest)
    OBVIOUS
  <2>7. {r.id : r \in ToSet(as)} = AckIds(k) \cup R
    BY <1>6, <2>2, <2>6
  <2>8. Len(none) + Len(none) + Len(as) <= 1
    BY <1>0, <2>2
  <2>9. \A r \in ToSet(as) : r.id \in ToSet(k.rest) /\ r.reason \in Refusals
    BY <2>2 DEF Refusals
  <2>10. PICK A : A = {}
    OBVIOUS
  <2>11. Split(p, k, none, none, k.items, as, R, A, j)
    BY <1>0, <1>2, <1>3, <1>6, <1>8, <1>11, <2>1, <2>2, <2>3, <2>5, <2>6, <2>7, <2>8, <2>9, <2>10 DEF Split
  <2>12. Step(p, j, A)
    BY <1>1, <1>3, <2>11, SplitStep
  <2> QED
    BY <1>1, <1>2, <1>3, <2>12, RunStep
<1> QED
  BY <1>3, <1>10, <1>11

\* A channel of a run of packets is taken.
LEMMA ProcessChannelInv ==
  ASSUME MsgInv, NEW p \in Frames, NEW to \in Names, prcocessChannelMessages(p, to)
  PROVE  MsgInv'
<1> SUFFICES ASSUME Settled PROVE MsgInv'
  BY DEF MsgInv, Settled
<1>1. p \in Procs /\ p \notin Handlers
  BY MessageConstants
<1>2. PICK k : k = job[p]
  OBVIOUS
<1>3. PICK C : C = {i \in DOMAIN msg : msg[i].to = to}
  OBVIOUS
<1>4. PICK O : O = {i \in C : SyncOnce(msg[i])}
  OBVIOUS
<1>5. PICK B : B = {i \in C : ~SyncOnce(msg[i]) /\ ~checkAndDecodePayload(msg[i])}
  OBVIOUS
<1>6. PICK G : G = {i \in C : ~SyncOnce(msg[i]) /\ checkAndDecodePayload(msg[i])}
  OBVIOUS
<1>7. PICK rest : rest = Only(k.rest, DOMAIN msg \ C)
  OBVIOUS
<1>8. PICK mine : mine = Only(k.rest, C)
  OBVIOUS
<1>9. PICK once : once = Only(mine, O)
  OBVIOUS
<1>10. PICK bad : bad = Only(mine, B)
  OBVIOUS
<1>11. PICK good : good = Only(mine, G)
  OBVIOUS
<1>12. /\ k \in JobRecs /\ Shape(p, k) /\ Separate(k) /\ Holds(k) \subseteq DOMAIN msg
       /\ k.rest \in Seq(Nat) /\ k.acks \in Seq(AckRecs) /\ k.items \in Seq(Nat)
       /\ k = [pc |-> k.pc, rest |-> k.rest, msgs |-> k.msgs, items |-> k.items, subs |-> k.subs,
               seqs |-> k.seqs, acks |-> k.acks]
  BY <1>1, <1>2, RunOf
<1>13. /\ k.pc = "split"
       /\ UNCHANGED <<msg, log, queue, notify, started, delivered, cursor, moving, acked, file, call>>
       /\ \/ /\ job' = [job EXCEPT ![p] = [Accepted([k EXCEPT !.rest = rest], good) EXCEPT !.acks = @ \o
                                             getSendackPacketWithSendPacket(once, "NotSupportHeader")]]
             /\ Respond(getSendackPacketWithSendPacket(bad, "PayloadDecodeError"))
          \/ /\ \E reason \in {"SystemError", "Refused"} :
                  job' = [job EXCEPT ![p] = [[k EXCEPT !.rest = rest] EXCEPT !.acks = @ \o
                                              getSendackPacketWithSendPacket(mine, reason)]]
             /\ replies' = replies
  <2>1. \A s : [k EXCEPT !.rest = s].pc = k.pc
    BY <1>12
  <2> QED
    BY <1>2, <1>3, <1>4, <1>5, <1>6, <1>7, <1>8, <1>9, <1>10, <1>11, <2>1
       DEF prcocessChannelMessages, Goto, cursorVars
<1>14. ToSet(k.rest) \subseteq DOMAIN msg /\ IsInjective(k.rest) /\ ToSet(k.rest) \cap AckIds(k) = {}
       /\ OncePerId(k.acks) /\ AckIds(k) = {r.id : r \in ToSet(k.acks)}
  BY <1>12 DEF Holds, Separate, AckIds
<1>15. /\ rest \in Seq(Nat) /\ ToSet(rest) = ToSet(k.rest) \ C /\ IsInjective(rest)
       /\ mine \in Seq(Nat) /\ ToSet(mine) = ToSet(k.rest) \cap C /\ IsInjective(mine)
  <2>1. rest \in Seq(Nat) /\ ToSet(rest) = ToSet(k.rest) \cap (DOMAIN msg \ C) /\ IsInjective(rest)
    BY <1>7, <1>12, <1>14, OnlyKeeps
  <2>2. mine \in Seq(Nat) /\ ToSet(mine) = ToSet(k.rest) \cap C /\ IsInjective(mine)
    BY <1>8, <1>12, <1>14, OnlyKeeps
  <2> QED
    BY <1>14, <2>1, <2>2
<1>16. CASE /\ job' = [job EXCEPT ![p] = [Accepted([k EXCEPT !.rest = rest], good) EXCEPT !.acks = @ \o
                                             getSendackPacketWithSendPacket(once, "NotSupportHeader")]]
            /\ Respond(getSendackPacketWithSendPacket(bad, "PayloadDecodeError"))
  <2>1. once \in Seq(Nat) /\ ToSet(once) = ToSet(mine) \cap O /\ IsInjective(once)
    BY <1>9, <1>15, OnlyKeeps
  <2>2. bad \in Seq(Nat) /\ ToSet(bad) = ToSet(mine) \cap B /\ IsInjective(bad)
    BY <1>10, <1>15, OnlyKeeps
  <2>3. good \in Seq(Nat) /\ ToSet(good) = ToSet(mine) \cap G /\ IsInjective(good)
    BY <1>11, <1>15, OnlyKeeps
  <2>4. C = O \cup B \cup G /\ O \cap B = {} /\ O \cap G = {} /\ B \cap G = {}
    BY <1>4, <1>5, <1>6
  <2>5. PICK os : os = getSendackPacketWithSendPacket(once, "NotSupportHeader")
    OBVIOUS
  <2>6. /\ os \in Seq(AckRecs) /\ {r.id : r \in ToSet(os)} = ToSet(once)
        /\ \A r \in ToSet(os) : r.reason = "NotSupportHeader"
        /\ OncePerId(os)
    <3>1. "NotSupportHeader" \in Reasons
      BY DEF Reasons
    <3> QED
      BY <2>1, <2>5, <3>1, Sendacks
  <2>7. PICK bs : bs = getSendackPacketWithSendPacket(bad, "PayloadDecodeError")
    OBVIOUS
  <2>8. /\ bs \in Seq(AckRecs) /\ {r.id : r \in ToSet(bs)} = ToSet(bad)
        /\ \A r \in ToSet(bs) : r.reason = "PayloadDecodeError"
        /\ OncePerId(bs)
    <3>1. "PayloadDecodeError" \in Reasons
      BY DEF Reasons
    <3> QED
      BY <2>2, <2>7, <3>1, Sendacks
  <2>9. PICK R : R = ToSet(once)
    OBVIOUS
  <2>10. PICK A : A = ToSet(bad)
    OBVIOUS
  <2>11. PICK as : as = k.acks \o os
    OBVIOUS
  <2>12. as \in Seq(AckRecs) /\ ToSet(as) = ToSet(k.acks) \cup ToSet(os) /\ OncePerId(as)
    <3>1. {r.id : r \in ToSet(k.acks)} \cap {r.id : r \in ToSet(os)} = {}
      BY <1>14, <1>15, <2>1, <2>6
    <3> QED
      BY <1>12, <1>14, <2>6, <2>11, <3>1, SendacksJoined
  <2>13. {r.id : r \in ToSet(as)} = AckIds(k) \cup R
    BY <1>14, <2>6, <2>9, <2>12
  <2>14. PICK items : items = Only(good, Items)
    OBVIOUS
  <2>15. items \in Seq(Nat) /\ ToSet(items) \subseteq ToSet(good)
    BY <2>3, <2>14, OnlyKeeps
  <2>16. PICK j : j = [k EXCEPT !.pc = IF good = <<>> THEN "split" ELSE "store", !.rest = rest,
                               !.msgs = good, !.items = items, !.acks = as]
    OBVIOUS
  <2>17. job' = [job EXCEPT ![p] = j]
    <3>1. [Accepted([k EXCEPT !.rest = rest], good) EXCEPT !.acks = @ \o os] = j
      BY <1>12, <2>11, <2>14, <2>16 DEF Accepted
    <3> QED
      BY <1>16, <2>5, <3>1
  <2>18. /\ ToSet(rest) \cup ToSet(good) \cup R \cup A = ToSet(k.rest)
         /\ ToSet(rest) \cap ToSet(good) = {} /\ ToSet(rest) \cap R = {} /\ ToSet(rest) \cap A = {}
         /\ ToSet(good) \cap R = {} /\ ToSet(good) \cap A = {} /\ R \cap A = {}
    BY <1>15, <2>1, <2>2, <2>3, <2>4, <2>9, <2>10
  <2>19. \A i, l \in ToSet(good) : msg[i].to = msg[l].to
    BY <1>3, <1>15, <2>3
  <2>20. \A r \in ToSet(as) : r \in ToSet(k.acks)
           \/ (r.id \in ToSet(k.rest) /\ r.reason \in Refusals \cup {"SystemError"})
    <3> SUFFICES ASSUME NEW r \in ToSet(os)
                 PROVE  r.id \in ToSet(k.rest) /\ r.reason \in Refusals
      BY <2>12
    <3>1. r.id \in ToSet(once)
      BY <2>6
    <3> QED
      BY <1>15, <2>1, <2>6, <3>1 DEF Refusals
  <2>21. /\ replies' \in Seq(Seq(AckRecs)) /\ Len(replies') = Len(replies)
         /\ \A i \in DOMAIN replies :
              /\ Len(replies'[i]) = Len(replies[i]) + (IF i \in A THEN 1 ELSE 0)
              /\ \A r \in ToSet(replies'[i]) : r \in ToSet(replies[i]) \/ (r \in ToSet(bs) /\ r.id = i)
    <3>1. replies \in Seq(Seq(AckRecs)) /\ Respond(bs)
      BY <1>16, <2>7 DEF Settled, Types
    <3> QED
      BY <2>8, <2>10, <3>1, Answers
  <2>22. \A i \in DOMAIN replies : \A r \in ToSet(replies'[i]) : r \in ToSet(replies[i])
           \/ (i \in ToSet(k.rest) /\ r.reason \in Refusals \cup {"SystemError"})
    <3>1. ASSUME NEW r \in ToSet(bs)
          PROVE  r.id \in ToSet(k.rest) /\ r.reason \in Refusals
      <4>1. r.id \in ToSet(bad)
        BY <2>8
      <4> QED
        BY <1>15, <2>2, <2>8, <4>1 DEF Refusals
    <3> TAKE i \in DOMAIN replies
    <3> TAKE r \in ToSet(replies'[i])
    <3>2. r \in ToSet(replies[i]) \/ (r \in ToSet(bs) /\ r.id = i)
      BY <2>21
    <3> QED
      BY <3>1, <3>2
  <2>23. Split(p, k, rest, good, items, as, R, A, j)
    BY <1>1, <1>2, <1>13, <1>15, <2>3, <2>12, <2>13, <2>15, <2>16, <2>17, <2>18, <2>19, <2>20, <2>21, <2>22
       DEF Split
  <2>24. Step(p, j, A)
    BY <1>1, <1>13, <2>23, SplitStep
  <2> QED
    BY <1>1, <1>2, <1>13, <2>24, RunStep
<1>17. ASSUME NEW reason \in {"SystemError", "Refused"}, replies' = replies,
              job' = [job EXCEPT ![p] = [[k EXCEPT !.rest = rest] EXCEPT !.acks = @ \o
                                              getSendackPacketWithSendPacket(mine, reason)]]
       PROVE  MsgInv'
  <2>1. PICK ms : ms = getSendackPacketWithSendPacket(mine, reason)
    OBVIOUS
  <2>2. /\ ms \in Seq(AckRecs) /\ {r.id : r \in ToSet(ms)} = ToSet(mine)
        /\ \A r \in ToSet(ms) : r.reason = reason
        /\ OncePerId(ms)
    <3>1. reason \in Reasons
      BY DEF Reasons
    <3> QED
      BY <1>15, <2>1, <3>1, Sendacks
  <2>3. PICK R : R = ToSet(mine)
    OBVIOUS
  <2>4. PICK A : A = {}
    OBVIOUS
  <2>5. PICK as : as = k.acks \o ms
    OBVIOUS
  <2>6. as \in Seq(AckRecs) /\ ToSet(as) = ToSet(k.acks) \cup ToSet(ms) /\ OncePerId(as)
    <3>1. {r.id : r \in ToSet(k.acks)} \cap {r.id : r \in ToSet(ms)} = {}
      BY <1>14, <1>15, <2>2
    <3> QED
      BY <1>12, <1>14, <2>2, <2>5, <3>1, SendacksJoined
  <2>7. {r.id : r \in ToSet(as)} = AckIds(k) \cup R
    BY <1>14, <2>2, <2>3, <2>6
  <2>8. PICK none : none = <<>>
    OBVIOUS
  <2>9. none = <<>> /\ none \in Seq(Nat) /\ ToSet(none) = {} /\ IsInjective(none)
    BY <2>8, Empty
  <2>10. k.msgs = <<>> /\ ToSet(k.items) = {}
    BY <1>12, <1>13, Empty DEF Shape
  <2>11. PICK j : j = [k EXCEPT !.pc = IF none = <<>> THEN "split" ELSE "store", !.rest = rest,
                               !.msgs = none, !.items = k.items, !.acks = as]
    OBVIOUS
  <2>12. job' = [job EXCEPT ![p] = j]
    <3>1. [[k EXCEPT !.rest = rest] EXCEPT !.acks = @ \o ms] = j
      BY <1>12, <1>13, <2>5, <2>9, <2>10, <2>11
    <3> QED
      BY <1>17, <2>1, <3>1
  <2>13. /\ ToSet(rest) \cup ToSet(none) \cup R \cup A = ToSet(k.rest)
         /\ ToSet(rest) \cap ToSet(none) = {} /\ ToSet(rest) \cap R = {} /\ ToSet(rest) \cap A = {}
         /\ ToSet(none) \cap R = {} /\ ToSet(none) \cap A = {} /\ R \cap A = {}
    BY <1>15, <2>3, <2>4, <2>9
  <2>14. \A r \in ToSet(as) : r \in ToSet(k.acks)
           \/ (r.id \in ToSet(k.rest) /\ r.reason \in Refusals \cup {"SystemError"})
    <3> SUFFICES ASSUME NEW r \in ToSet(ms)
                 PROVE  r.id \in ToSet(k.rest) /\ r.reason \in Refusals \cup {"SystemError"}
      BY <2>6
    <3>1. r.id \in ToSet(mine)
      BY <2>2
    <3> QED
      BY <1>15, <2>2, <3>1 DEF Refusals
  <2>15. /\ replies' \in Seq(Seq(AckRecs)) /\ Len(replies') = Len(replies)
         /\ \A i \in DOMAIN replies : Len(replies'[i]) = Len(replies[i]) + (IF i \in A THEN 1 ELSE 0)
    BY <1>17, <2>4, NoAnswer DEF Settled
  <2>16. Split(p, k, rest, none, k.items, as, R, A, j)
    BY <1>1, <1>2, <1>12, <1>13, <1>15, <1>17, <2>6, <2>7, <2>9, <2>10, <2>11, <2>12, <2>13, <2>14, <2>15
       DEF Split
  <2>17. Step(p, j, A)
    BY <1>1, <1>13, <2>16, SplitStep
  <2> QED
    BY <1>1, <1>2, <1>13, <2>17, RunStep
<1> QED
  BY <1>13, <1>16, <1>17

\* s is appended to the log or queue d.
Appends(D, f, d, s, g) ==
  f \in [D -> Seq(Nat)] /\ d \in D /\ s \in Seq(Nat) /\ g = [f EXCEPT ![d] = @ \o s]

\* It keeps what it had, and has s after it.
LEMMA Appended ==
  ASSUME NEW D, NEW f, NEW d, NEW s, NEW g, Appends(D, f, d, s, g)
  PROVE  /\ g \in [D -> Seq(Nat)] /\ Extends(f, g)
         /\ \A e \in D : \A i : Contains(g[e], i) => Contains(f[e], i) \/ i \in ToSet(s)
         /\ \A n \in DOMAIN s : At(g[d], Len(f[d]) + n, s[n])
<1>0. f \in [D -> Seq(Nat)] /\ d \in D /\ s \in Seq(Nat) /\ g = [f EXCEPT ![d] = @ \o s]
  BY DEF Appends
<1>1. PICK a : a = f[d]
  OBVIOUS
<1>2. a \in Seq(Nat) /\ Len(a) \in Nat /\ Len(s) \in Nat /\ DOMAIN a = 1 .. Len(a) /\ DOMAIN s = 1 .. Len(s)
  BY <1>0, <1>1
<1>3. PICK b : b = a \o s
  OBVIOUS
<1>4. b \in Seq(Nat) /\ Len(b) = Len(a) + Len(s) /\ DOMAIN b = 1 .. Len(a) + Len(s)
      /\ (\A n \in DOMAIN a : b[n] = a[n]) /\ (\A n \in DOMAIN s : b[Len(a) + n] = s[n])
  BY <1>0, <1>2, <1>3, SMTT(30)
<1>5. g = [f EXCEPT ![d] = b]
  BY <1>0, <1>1, <1>3
<1>6. \A e \in D : g[e] = IF e = d THEN b ELSE f[e]
  BY <1>0, <1>5
<1>7. g \in [D -> Seq(Nat)]
  BY <1>0, <1>4, <1>5
<1>8. Extends(f, g)
  <2> SUFFICES ASSUME NEW e \in D, NEW n \in DOMAIN f[e]
               PROVE  n \in DOMAIN g[e] /\ g[e][n] = f[e][n]
    BY <1>0 DEF Extends
  <2>1. CASE e = d
    <3>1. n \in DOMAIN a /\ n \in DOMAIN b
      BY <1>1, <1>2, <1>4, <2>1, SMTT(30)
    <3> QED
      BY <1>1, <1>4, <1>6, <2>1, <3>1
  <2>2. CASE e # d
    BY <1>6, <2>2
  <2> QED
    BY <2>1, <2>2
<1>9. ASSUME NEW e \in D, NEW i, Contains(g[e], i)
      PROVE  Contains(f[e], i) \/ i \in ToSet(s)
  <2>1. CASE e = d
    <3>1. PICK n \in 1 .. Len(b) : b[n] = i
      BY <1>6, <1>9, <2>1 DEF Contains
    <3>2. CASE n <= Len(a)
      <4>1. n \in 1 .. Len(a)
        BY <1>2, <1>4, <3>2
      <4>2. a[n] = i
        BY <1>2, <1>4, <3>1, <4>1
      <4> QED
        BY <1>1, <2>1, <4>1, <4>2 DEF Contains
    <3>3. CASE n > Len(a)
      <4>1. PICK m : m = n - Len(a)
        OBVIOUS
      <4>2. m \in DOMAIN s /\ n = Len(a) + m
        BY <1>2, <1>4, <3>1, <3>3, <4>1
      <4>3. s[m] = i
        BY <1>4, <3>1, <4>2
      <4> QED
        BY <4>2, <4>3 DEF ToSet
    <3> QED
      BY <1>2, <1>4, <3>1, <3>2, <3>3
  <2>2. CASE e # d
    BY <1>6, <1>9, <2>2
  <2> QED
    BY <2>1, <2>2
<1>10. ASSUME NEW n \in DOMAIN s
       PROVE  At(g[d], Len(f[d]) + n, s[n])
  <2>1. Len(a) + n \in DOMAIN b /\ b[Len(a) + n] = s[n]
    BY <1>2, <1>4
  <2> QED
    BY <1>0, <1>1, <1>6, <2>1 DEF At
<1> QED
  BY <1>7, <1>8, <1>9, <1>10

\* A run goes on to the next step with the messages it has.
LEMMA GoesOn ==
  ASSUME Settled, NEW p \in Procs, NEW j, j \in JobRecs, job' = [job EXCEPT ![p] = j],
         j.rest = job[p].rest, j.msgs = job[p].msgs, j.acks = job[p].acks, j.items = job[p].items,
         j.pc \in {"notify", "put"}, job[p].msgs # <<>>, j.items = <<>>,
         SameMessages(p), UNCHANGED <<replies, delivered, started>>, Done(j)'
  PROVE  Moves(p, j, {}) /\ Truthful(p, j)
<1>1. PICK k : k = job[p]
  OBVIOUS
<1>2. Separate(k) /\ Shape(p, k)
  BY <1>1, RunOf
<1>3. AckIds(j) = AckIds(k)
  BY <1>1 DEF AckIds
<1>4. Separate(j) /\ Holds(j) = Holds(job[p])
  BY <1>1, <1>2, <1>3 DEF Separate, Holds
<1>5. Moves(p, j, {})
  BY <1>1, <1>4, NoAnswer DEF Moves, Settled
<1>6. Shape(p, j)'
  <2>1. /\ p \in Handlers => Len(j.rest) + Len(j.msgs) + Len(j.acks) <= 1
        /\ ToSet(j.items) \subseteq ToSet(j.msgs)
        /\ \A i, l \in ToSet(j.msgs) : msg[i].to = msg[l].to
    BY <1>1, <1>2 DEF Shape
  <2>2. j.pc \in {"store", "notify", "put"} /\ j.msgs # <<>>
    OBVIOUS
  <2>3. ToSet(j.rest) \cup ToSet(j.msgs) \subseteq ToSet(job[p].rest) \cup ToSet(job[p].msgs)
    OBVIOUS
  <2> QED
    BY <2>1, <2>2, <2>3, ShapeKeeps
<1> QED
  BY <1>5, <1>6 DEF Truthful

\* The messages of a run that are stored together have one sender and one channel.
LEMMA OneChannel ==
  ASSUME Settled, NEW p \in Procs, job[p].msgs # <<>>
  PROVE  LET h == job[p].msgs[1]
         IN /\ h \in ToSet(job[p].msgs) /\ h \in DOMAIN msg
            /\ \A i \in ToSet(job[p].msgs) : /\ i \in DOMAIN msg
                                             /\ msg[i].from = msg[h].from /\ msg[i].to = msg[h].to
                                             /\ Subscribers(msg[i]) = Subscribers(msg[h])
<1>1. PICK k : k = job[p]
  OBVIOUS
<1>2. k.msgs \in Seq(Nat) /\ Shape(p, k) /\ Holds(k) \subseteq DOMAIN msg
  BY <1>1, RunOf
<1>3. 1 \in DOMAIN k.msgs
  BY <1>1, <1>2
<1>4. k.msgs[1] \in ToSet(k.msgs)
  BY <1>3 DEF ToSet
<1>5. ToSet(k.msgs) \subseteq DOMAIN msg
  BY <1>2 DEF Holds
<1>6. \A i, l \in ToSet(k.msgs) : msg[i].from = msg[l].from /\ msg[i].to = msg[l].to
  BY <1>2 DEF Shape
<1>7. \A i, l \in ToSet(k.msgs) : Subscribers(msg[i]) = Subscribers(msg[l])
  BY <1>6 DEF Subscribers
<1> QED
  BY <1>1, <1>4, <1>5, <1>6, <1>7

\* The webhook's queue.
LEMMA NotifyInv ==
  ASSUME MsgInv, NEW p \in Procs, storeChannelMessagesToNotifyQueue(p)
  PROVE  MsgInv'
<1> SUFFICES ASSUME Settled PROVE MsgInv'
  BY DEF MsgInv, Settled
<1>1. PICK k : k = job[p]
  OBVIOUS
<1>2. PICK ids : ids = {i \in ToSet(k.msgs) : ~StreamIng(msg[i]) /\ ~(NoPersist(msg[i]) /\ SyncOnce(msg[i]))}
  OBVIOUS
<1>3. PICK S : S = Subscribers(msg[k.msgs[1]])
  OBVIOUS
<1>4. /\ k.pc = "notify"
      /\ UNCHANGED <<msg, log, queue, replies, started, delivered, cursor, moving, acked, file, call>>
      /\ \/ /\ notify' = IF WebhookOn THEN notify \cup ids ELSE notify
            /\ job' = [job EXCEPT ![p] = [k EXCEPT !.pc = "put", !.subs = S]]
         \/ /\ notify' = notify
            /\ job' = [job EXCEPT ![p] = GiveUp(k, msg)]
  BY <1>1, <1>2, <1>3 DEF storeChannelMessagesToNotifyQueue, Goto, cursorVars
<1>5. /\ k \in JobRecs /\ Shape(p, k) /\ Done(k) /\ Holds(k) \subseteq DOMAIN msg
      /\ k = [pc |-> k.pc, rest |-> k.rest, msgs |-> k.msgs, items |-> k.items, subs |-> k.subs,
              seqs |-> k.seqs, acks |-> k.acks]
  BY <1>1, RunOf
<1>6. k.msgs # <<>> /\ k.items = <<>>
  BY <1>4, <1>5 DEF Shape
<1>7. CASE notify' = notify /\ job' = [job EXCEPT ![p] = GiveUp(k, msg)]
  <2>1. PICK j : j = GiveUp(job[p], msg)
    OBVIOUS
  <2>2. Step(p, j, {})
    BY <1>1, <1>4, <1>6, <1>7, <2>1, GiveUpQuietly
  <2> QED
    BY <1>1, <1>4, <2>2, RunStep
<1>8. CASE /\ notify' = IF WebhookOn THEN notify \cup ids ELSE notify
           /\ job' = [job EXCEPT ![p] = [k EXCEPT !.pc = "put", !.subs = S]]
  <2>1. PICK j : j = [k EXCEPT !.pc = "put", !.subs = S]
    OBVIOUS
  <2>2. j.pc = "put" /\ j.rest = k.rest /\ j.msgs = k.msgs /\ j.items = k.items /\ j.subs = S
        /\ j.seqs = k.seqs /\ j.acks = k.acks
    BY <1>5, <2>1
  <2>3. SameMessages(p)
    BY <1>4 DEF SameMessages, Settled, Types
  <2>4. \A i \in ToSet(k.msgs) : i \in DOMAIN msg /\ Subscribers(msg[i]) = S
    BY <1>1, <1>3, <1>6, OneChannel
  <2>5. S \subseteq Users
    <3>1. k.msgs[1] \in DOMAIN msg
      BY <1>1, <1>6, OneChannel
    <3> QED
      BY <1>3, <2>3, <3>1, StepMessages DEF Settled
  <2>6. j \in JobRecs
    BY <1>5, <2>1, <2>5 DEF JobRecs
  <2>7. ids \subseteq ToSet(k.msgs) /\ ToSet(k.msgs) \subseteq Nat
    BY <1>2, <2>4 DEF Settled, Types
  <2>8. Grows(p)
    <3>1. Extends(log, log') /\ Extends(queue, queue')
      BY <1>4 DEF Extends
    <3>2. notify \subseteq notify' /\ notify' \subseteq Nat /\ notify' \subseteq notify \cup ToSet(k.msgs)
      BY <1>8, <2>7 DEF Settled, Types
    <3>3. \A i \in Nat \ {0} : Somewhere(i)' => Somewhere(i) \/ i \in ToSet(job[p].msgs)
      BY <1>1, <1>4, <3>2 DEF Somewhere
    <3> QED
      BY <1>4, <3>1, <3>2, <3>3 DEF Grows, Settled, Types
  <2>9. Done(j)'
    <3>1. \A i \in ToSet(j.msgs) : msg[i].kind \in {"plain", "start"} =>
            At(log[FakeChannelID(msg[i].from, msg[i].to)], msg[i].seq, i)
      BY <1>4, <1>5, <2>2 DEF Done
    <3>2. \A i \in ToSet(j.msgs) : WebhookOn /\ msg[i].kind \notin {"ing", "command"} => i \in notify'
      BY <1>2, <1>8, <2>2 DEF StreamIng, NoPersist, SyncOnce
    <3>3. \A x \in j.seqs : At(queue[x[1]], x[3], x[2])
      BY <1>5, <2>2 DEF Done
    <3>4. \A i \in ToSet(j.msgs) : Subscribers(msg[i]) \ j.subs = {}
      BY <2>2, <2>4
    <3> QED
      BY <1>4, <3>1, <3>2, <3>3, <3>4 DEF Done
  <2>10. Moves(p, j, {}) /\ Truthful(p, j)
    BY <1>1, <1>4, <1>6, <1>8, <2>1, <2>2, <2>3, <2>6, <2>9, GoesOn, ZenonT(60)
  <2>11. Step(p, j, {})
    BY <1>4, <2>3, <2>8, <2>10 DEF Step
  <2> QED
    BY <1>1, <1>4, <2>11, RunStep
<1> QED
  BY <1>4, <1>7, <1>8

\* The queue of one subscriber.
LEMMA StoreMessageToUserQueueInv ==
  ASSUME MsgInv, NEW p \in Procs, NEW u \in Users, storeMessageToUserQueueIfNeed(p, u)
  PROVE  MsgInv'
<1> SUFFICES ASSUME Settled PROVE MsgInv'
  BY DEF MsgInv, Settled
<1>1. PICK k : k = job[p]
  OBVIOUS
<1>2. PICK ids : ids = Only(k.msgs, Queued)
  OBVIOUS
<1>3. PICK n : n = Len(queue[u])
  OBVIOUS
<1>a. PICK zeros : zeros = [l \in DOMAIN Only(job[p].msgs, Queued) |-> 0]
  OBVIOUS
<1>b. PICK new : new = {<<u, Only(job[p].msgs, Queued)[l], Len(queue[u]) + l>> :
                        l \in DOMAIN Only(job[p].msgs, Queued)}
  OBVIOUS
<1>4. zeros = [l \in DOMAIN ids |-> 0]
  BY <1>1, <1>2, <1>a
<1>5. new = {<<u, ids[l], n + l>> : l \in DOMAIN ids}
  BY <1>1, <1>2, <1>3, <1>b
<1>6. /\ k.pc = "put"
      /\ UNCHANGED <<msg, log, notify, replies, started, delivered, cursor, moving, acked, file, call>>
      /\ \/ /\ queue' = [queue EXCEPT ![u] = @ \o ids]
            /\ job' = [job EXCEPT ![p] = [k EXCEPT !.subs = @ \ {u}, !.seqs = @ \cup new]]
         \/ /\ queue' = [queue EXCEPT ![u] = @ \o zeros]
            /\ job' = [job EXCEPT ![p] = GiveUp(k, msg)]
  <2>1. LET j == job[p]
            q == Only(j.msgs, Queued)
            m == Len(queue[u])
        IN /\ j.pc = "put"
           /\ UNCHANGED <<msg, log, notify, replies, started, delivered, cursor, moving, acked, file, call>>
           /\ \/ /\ queue' = [queue EXCEPT ![u] = @ \o q]
                 /\ job' = [job EXCEPT ![p] = [j EXCEPT !.subs = @ \ {u},
                                        !.seqs = @ \cup {<<u, q[l], m + l>> : l \in DOMAIN q}]]
              \/ /\ queue' = [queue EXCEPT ![u] = @ \o [l \in DOMAIN q |-> 0]]
                 /\ job' = [job EXCEPT ![p] = GiveUp(j, msg)]
    BY DEF storeMessageToUserQueueIfNeed, Goto, cursorVars
  <2> QED
    BY <1>1, <1>2, <1>a, <1>b, <2>1
<1>7. /\ k \in JobRecs /\ Shape(p, k) /\ Done(k) /\ Holds(k) \subseteq DOMAIN msg
      /\ k.msgs \in Seq(Nat) /\ k.subs \subseteq Users /\ k.seqs \subseteq (Users \X Nat \X Nat)
      /\ k = [pc |-> k.pc, rest |-> k.rest, msgs |-> k.msgs, items |-> k.items, subs |-> k.subs,
              seqs |-> k.seqs, acks |-> k.acks]
  BY <1>1, RunOf
<1>8. k.msgs # <<>> /\ k.items = <<>>
  BY <1>6, <1>7 DEF Shape
<1>9. ids \in Seq(Nat) /\ ToSet(ids) = ToSet(k.msgs) \cap Queued
  BY <1>2, <1>7, OnlyKeeps
<1>10. DOMAIN ids = 1 .. Len(ids) /\ Len(ids) \in Nat /\ queue \in [Users -> Seq(Nat)] /\ n \in Nat
  BY <1>3, <1>9 DEF Settled, Types
<1>11. zeros \in Seq(Nat) /\ ToSet(zeros) \subseteq {0}
  <2>1. zeros = [l \in 1 .. Len(ids) |-> 0]
    BY <1>4, <1>10
  <2>2. zeros \in Seq(Nat)
    BY <1>10, <2>1
  <2> QED
    BY <1>4, <2>2 DEF ToSet
<1>12. SameMessages(p)
  BY <1>6 DEF SameMessages, Settled, Types
<1>13. ASSUME NEW s \in Seq(Nat), queue' = [queue EXCEPT ![u] = @ \o s], ToSet(s) \subseteq {0} \cup ToSet(k.msgs)
       PROVE  Grows(p)
  <2>1. PICK g : g = queue'
    OBVIOUS
  <2>2. g \in [Users -> Seq(Nat)] /\ Extends(queue, g)
        /\ \A v \in Users : \A i : Contains(g[v], i) => Contains(queue[v], i) \/ i \in ToSet(s)
    <3>1. Appends(Users, queue, u, s, g)
      BY <1>10, <1>13, <2>1 DEF Appends
    <3> QED
      BY <3>1, Appended
  <2>3. \A i \in Nat \ {0} : Somewhere(i)' => Somewhere(i) \/ i \in ToSet(job[p].msgs)
    <3> SUFFICES ASSUME NEW i \in Nat \ {0}, Somewhere(i)', i \notin ToSet(k.msgs)
                 PROVE  Somewhere(i)
      BY <1>1
    <3>1. \A v \in Users : Contains(queue'[v], i) => Contains(queue[v], i)
      BY <1>13, <2>1, <2>2
    <3> QED
      BY <1>6, <3>1 DEF Somewhere
  <2>4. Extends(log, log') /\ log' \in [Topics -> Seq(Nat)]
    BY <1>6 DEF Extends, Settled, Types
  <2>5. Extends(queue, queue') /\ queue' \in [Users -> Seq(Nat)]
    BY <2>1, <2>2
  <2> QED
    BY <1>6, <2>3, <2>4, <2>5 DEF Grows, Settled, Types
<1>14. CASE queue' = [queue EXCEPT ![u] = @ \o zeros] /\ job' = [job EXCEPT ![p] = GiveUp(k, msg)]
  <2>1. PICK j : j = GiveUp(job[p], msg)
    OBVIOUS
  <2>2. Grows(p)
    BY <1>11, <1>13, <1>14
  <2>3. Moves(p, j, {}) /\ Truthful(p, j)
    <3>1. j = GiveUp(job[p], msg')
      BY <1>6, <2>1
    <3> QED
      BY <1>1, <1>6, <1>8, <1>12, <1>14, <2>1, <3>1, GiveUpMoves
  <2>4. Step(p, j, {})
    BY <1>6, <1>12, <2>2, <2>3 DEF Step
  <2> QED
    BY <1>1, <1>6, <2>4, RunStep
<1>15. CASE /\ queue' = [queue EXCEPT ![u] = @ \o ids]
            /\ job' = [job EXCEPT ![p] = [k EXCEPT !.subs = @ \ {u}, !.seqs = @ \cup new]]
  <2>1. PICK j : j = [k EXCEPT !.subs = @ \ {u}, !.seqs = @ \cup new]
    OBVIOUS
  <2>2. j.pc = k.pc /\ j.rest = k.rest /\ j.msgs = k.msgs /\ j.items = k.items /\ j.subs = k.subs \ {u}
        /\ j.seqs = k.seqs \cup new /\ j.acks = k.acks
    BY <1>7, <2>1
  <2>3. new \subseteq (Users \X Nat \X Nat)
    <3>1. \A l \in DOMAIN ids : ids[l] \in Nat /\ n + l \in Nat
      BY <1>9, <1>10
    <3> QED
      BY <1>5, <3>1
  <2>4. j \in JobRecs
    BY <1>7, <2>1, <2>3 DEF JobRecs
  <2>5. Grows(p)
    BY <1>9, <1>13, <1>15
  <2>6. PICK g : g = queue'
    OBVIOUS
  <2>7. g \in [Users -> Seq(Nat)] /\ Extends(queue, g)
        /\ \A l \in DOMAIN ids : At(g[u], n + l, ids[l])
    <3>1. Appends(Users, queue, u, ids, g)
      BY <1>9, <1>10, <1>15, <2>6 DEF Appends
    <3> QED
      BY <1>3, <3>1, Appended
  <2>8. \A x \in j.seqs : At(queue'[x[1]], x[3], x[2])
    <3> TAKE x \in j.seqs
    <3>1. CASE x \in k.seqs
      <4>1. x[1] \in Users /\ At(queue[x[1]], x[3], x[2])
        BY <1>7, <3>1 DEF Done
      <4>2. At(g[x[1]], x[3], x[2])
        BY <1>10, <2>7, <4>1, SMTT(30) DEF Extends, At
      <4> QED
        BY <2>6, <4>2
    <3>2. CASE x \in new
      <4>1. PICK l \in DOMAIN ids : x = <<u, ids[l], n + l>>
        BY <1>5, <3>2
      <4>2. At(g[u], n + l, ids[l])
        BY <2>7
      <4> QED
        BY <2>6, <4>1, <4>2
    <3> QED
      BY <2>2, <3>1, <3>2
  <2>9. \A i \in ToSet(j.msgs) : msg[i].kind = "syncOnce" =>
          \A v \in Subscribers(msg[i]) \ j.subs : \E x \in j.seqs : x[1] = v /\ x[2] = i
    <3> SUFFICES ASSUME NEW i \in ToSet(k.msgs), msg[i].kind = "syncOnce",
                        NEW v \in Subscribers(msg[i]), v \notin k.subs \ {u}
                 PROVE  \E x \in k.seqs \cup new : x[1] = v /\ x[2] = i
      BY <2>2
    <3>1. CASE v \notin k.subs
      BY <1>6, <1>7, <3>1 DEF Done
    <3>2. CASE v = u
      <4>1. i \in Queued
        <5>1. i \in DOMAIN msg
          BY <1>1, <1>8, OneChannel
        <5> QED
          BY <5>1 DEF Queued, NoPersist, SyncOnce
      <4>2. PICK l \in DOMAIN ids : ids[l] = i
        BY <1>9, <4>1 DEF ToSet
      <4>3. PICK x : x = <<u, ids[l], n + l>>
        OBVIOUS
      <4>4. x \in new /\ x[1] = v /\ x[2] = i
        BY <1>5, <3>2, <4>2, <4>3
      <4> QED
        BY <4>4
    <3> QED
      BY <3>1, <3>2
  <2>10. Done(j)'
    <3>1. \A i \in ToSet(j.msgs) : msg[i].kind \in {"plain", "start"} =>
            At(log[FakeChannelID(msg[i].from, msg[i].to)], msg[i].seq, i)
      BY <1>6, <1>7, <2>2 DEF Done
    <3>2. \A i \in ToSet(j.msgs) : WebhookOn /\ msg[i].kind \notin {"ing", "command"} => i \in notify
      BY <1>6, <1>7, <2>2 DEF Done
    <3> QED
      BY <1>6, <2>8, <2>9, <3>1, <3>2 DEF Done
  <2>11. Moves(p, j, {}) /\ Truthful(p, j)
    BY <1>1, <1>6, <1>8, <1>12, <1>15, <2>1, <2>2, <2>4, <2>10, GoesOn
  <2>12. Step(p, j, {})
    BY <1>6, <1>12, <2>5, <2>11 DEF Step
  <2> QED
    BY <1>1, <1>6, <2>12, RunStep
<1> QED
  BY <1>6, <1>14, <1>15

\* What a delivered message says of its place.
LEMMA Delivering ==
  ASSUME Settled, NEW p \in Procs, NEW k, k = job[p], k.pc = "put", NEW i \in ToSet(k.msgs),
         NEW u \in Subscribers(msg[i]), i \in Queued => k.subs = {},
         NEW d, d = RecvPacket(i, u, k.seqs)
  PROVE  /\ d \in RecvRecs /\ d.id = i
         /\ LET t == FakeChannelID(d.uid, d.channel)
            IN /\ t \in Topics
               /\ msg[i].kind \in {"plain", "start"} => At(log[t], d.seq, i)
               /\ msg[i].kind = "syncOnce" => At(queue[d.uid], d.seq, i)
<1>1. /\ Done(k) /\ Holds(k) \subseteq DOMAIN msg /\ k.seqs \subseteq (Users \X Nat \X Nat)
  BY RunOf
<1>2. i \in DOMAIN msg /\ i \in Nat
  BY <1>1 DEF Holds, Settled, Types
<1>3. msg[i] \in MsgRecs /\ msg[i].from # msg[i].to
  BY <1>2 DEF Settled, Types
<1>4. msg[i].from \in Users /\ msg[i].to \in Names /\ msg[i].seq \in Nat /\ msg[i].kind \in AllKinds
  BY <1>3 DEF MsgRecs
<1>5. u \in Users
  BY <1>4 DEF Subscribers, Names
<1>6. PICK queued : queued = {x \in k.seqs : x[1] = u /\ x[2] = i}
  OBVIOUS
<1>7. PICK c : c = IF msg[i].to = u THEN msg[i].from ELSE msg[i].to
  OBVIOUS
<1>8. PICK n : n = IF SyncOnce(msg[i]) /\ ~NoPersist(msg[i]) /\ queued # {}
                   THEN (CHOOSE x \in queued : TRUE)[3] ELSE msg[i].seq
  OBVIOUS
<1>9. d = [id |-> i, uid |-> u, channel |-> c, seq |-> n]
  BY <1>6, <1>7, <1>8 DEF RecvPacket
<1>10. c \in Names
  BY <1>4, <1>7 DEF Names
<1>11. queued # {} => (CHOOSE x \in queued : TRUE) \in queued
  OBVIOUS
<1>12. n \in Nat
  <2>1. \A x \in queued : x[3] \in Nat
    BY <1>1, <1>6
  <2> QED
    BY <1>4, <1>8, <1>11, <2>1
<1>13. d \in RecvRecs /\ d.id = i /\ d.uid = u /\ d.channel = c /\ d.seq = n
  BY <1>2, <1>5, <1>9, <1>10, <1>12 DEF RecvRecs
<1>14. FakeChannelID(u, c) = FakeChannelID(msg[i].from, msg[i].to)
  <2>1. CASE msg[i].to = Group
    <3>1. u # Group
      BY <1>5, MessageConstants
    <3>2. c = Group
      BY <1>7, <2>1, <3>1
    <3> QED
      BY <2>1, <3>2 DEF FakeChannelID
  <2>2. CASE msg[i].to # Group
    <3>1. u = msg[i].from \/ u = msg[i].to
      BY <2>2 DEF Subscribers
    <3>2. FakeChannelID(msg[i].to, msg[i].from) = FakeChannelID(msg[i].from, msg[i].to)
      BY <1>3, <1>4, <2>2, TopicSeen
    <3> QED
      BY <1>3, <1>7, <3>1, <3>2
  <2> QED
    BY <2>1, <2>2
<1>15. FakeChannelID(msg[i].from, msg[i].to) \in Topics
  BY <1>3, <1>4, TopicSeen
<1>16. msg[i].kind \in {"plain", "start"} => At(log[FakeChannelID(msg[i].from, msg[i].to)], n, i)
  <2> SUFFICES ASSUME msg[i].kind \in {"plain", "start"}
               PROVE  At(log[FakeChannelID(msg[i].from, msg[i].to)], n, i)
    OBVIOUS
  <2>1. n = msg[i].seq
    BY <1>8 DEF SyncOnce
  <2> QED
    BY <1>1, <2>1 DEF Done
<1>17. msg[i].kind = "syncOnce" => At(queue[u], n, i)
  <2> SUFFICES ASSUME msg[i].kind = "syncOnce"
               PROVE  At(queue[u], n, i)
    OBVIOUS
  <2>1. SyncOnce(msg[i]) /\ ~NoPersist(msg[i]) /\ k.subs = {}
    BY <1>2 DEF SyncOnce, NoPersist, Queued
  <2>2. queued # {}
    BY <1>1, <1>6, <2>1 DEF Done
  <2>3. PICK x : x = CHOOSE y \in queued : TRUE
    OBVIOUS
  <2>4. x \in queued /\ n = x[3]
    BY <1>8, <1>11, <2>1, <2>2, <2>3
  <2>5. At(queue[x[1]], x[3], x[2]) /\ x[1] = u /\ x[2] = i
    BY <1>1, <1>6, <2>4 DEF Done
  <2> QED
    BY <2>4, <2>5
<1> QED
  BY <1>13, <1>14, <1>15, <1>16, <1>17

\* The messages are delivered.
LEMMA DeliveryInv ==
  ASSUME MsgInv, NEW p \in Procs, deliveryMessages(p)
  PROVE  MsgInv'
<1> SUFFICES ASSUME Settled PROVE MsgInv'
  BY DEF MsgInv, Settled
<1>1. PICK k : k = job[p]
  OBVIOUS
<1> DEFINE new == {RecvPacket(i, u, k.seqs) : i \in ToSet(k.msgs), u \in Subscribers(msg[k.msgs[1]])}
<1> HIDE DEF new
<1>3. PICK ss : ss = getSendackPacket(k.msgs, msg, "Success")
  OBVIOUS
<1>4. PICK as : as = k.acks \o ss
  OBVIOUS
<1>5. PICK pc : pc = IF msg[k.msgs[1]].kind = "start" THEN "meta" ELSE "split"
  OBVIOUS
<1>6. PICK j : j = [k EXCEPT !.pc = pc, !.msgs = <<>>, !.subs = {}, !.seqs = {}, !.acks = as]
  OBVIOUS
<1>7. /\ k.pc = "put" /\ (ToSet(k.msgs) \cap Queued # {} => k.subs = {})
      /\ UNCHANGED <<msg, log, queue, notify, replies, started, cursor, moving, acked, file, call>>
      /\ job' = [job EXCEPT ![p] = j]
  BY <1>1, <1>3, <1>4, <1>5, <1>6 DEF deliveryMessages, Goto, cursorVars, streamVars
<1>8. delivered' = delivered \cup new
  BY <1>1 DEF deliveryMessages, new
<1>9. /\ k \in JobRecs /\ Shape(p, k) /\ Done(k) /\ Separate(k) /\ Holds(k) \subseteq DOMAIN msg
      /\ k.rest \in Seq(Nat) /\ k.msgs \in Seq(Nat) /\ k.acks \in Seq(AckRecs)
      /\ Len(k.rest) \in Nat /\ Len(k.msgs) \in Nat /\ Len(k.acks) \in Nat
      /\ k = [pc |-> k.pc, rest |-> k.rest, msgs |-> k.msgs, items |-> k.items, subs |-> k.subs,
              seqs |-> k.seqs, acks |-> k.acks]
  BY <1>1, RunOf
<1>10. k.msgs # <<>> /\ k.items = <<>>
  BY <1>7, <1>9 DEF Shape
<1>11. \A i \in ToSet(k.msgs) : i \in DOMAIN msg /\ Subscribers(msg[i]) = Subscribers(msg[k.msgs[1]])
  BY <1>1, <1>10, OneChannel
<1>12. ASSUME NEW d \in new
       PROVE  /\ d \in RecvRecs /\ d.id \in ToSet(k.msgs)
              /\ LET t == FakeChannelID(d.uid, d.channel)
                 IN /\ t \in Topics
                    /\ msg[d.id].kind \in {"plain", "start"} => At(log[t], d.seq, d.id)
                    /\ msg[d.id].kind = "syncOnce" => At(queue[d.uid], d.seq, d.id)
  <2>1. PICK i \in ToSet(k.msgs), u \in Subscribers(msg[k.msgs[1]]) : d = RecvPacket(i, u, k.seqs)
    BY DEF new
  <2>2. u \in Subscribers(msg[i]) /\ (i \in Queued => k.subs = {})
    BY <1>7, <1>11
  <2> QED
    BY <1>1, <1>7, <2>1, <2>2, Delivering
<1>13. /\ ss \in Seq(AckRecs) /\ Len(ss) = Len(k.msgs)
       /\ {r.id : r \in ToSet(ss)} = ToSet(k.msgs)
       /\ \A r \in ToSet(ss) : r.reason = "Success" /\ r.seq = msg[r.id].seq
       /\ OncePerId(ss)
  <2>1. ToSet(k.msgs) \subseteq DOMAIN msg /\ IsInjective(k.msgs) /\ msg \in Seq(MsgRecs)
    BY <1>9, <1>11 DEF Separate, Settled, Types
  <2>2. "Success" \in Reasons
    BY DEF Reasons
  <2> QED
    <3>1. PICK ms : ms = msg
      OBVIOUS
    <3>2. k.msgs \in Seq(Nat)
      BY <1>9
    <3>3. ms \in Seq(MsgRecs) /\ ToSet(k.msgs) \subseteq DOMAIN ms
      BY <2>1, <3>1
    <3>4. ss = getSendackPacket(k.msgs, ms, "Success")
      BY <1>3, <3>1
    <3>5. /\ ss \in Seq(AckRecs) /\ Len(ss) = Len(k.msgs)
          /\ {r.id : r \in ToSet(ss)} = ToSet(k.msgs)
          /\ \A r \in ToSet(ss) : r.reason = "Success" /\ r.seq = ms[r.id].seq
          /\ IsInjective(k.msgs) => OncePerId(ss)
      BY <2>2, <3>2, <3>3, <3>4, NumberedSendacks
    <3> QED
      BY <2>1, <3>1, <3>5
<1>14. /\ as \in Seq(AckRecs) /\ Len(as) = Len(k.acks) + Len(k.msgs)
       /\ ToSet(as) = ToSet(k.acks) \cup ToSet(ss) /\ OncePerId(as)
  <2>1. {r.id : r \in ToSet(k.acks)} \cap {r.id : r \in ToSet(ss)} = {} /\ OncePerId(k.acks)
    BY <1>9, <1>13 DEF Separate, AckIds
  <2> QED
    BY <1>4, <1>9, <1>13, <2>1, SendacksJoined
<1>15. j.pc = pc /\ j.rest = k.rest /\ j.msgs = <<>> /\ j.items = <<>> /\ j.subs = {} /\ j.seqs = {}
       /\ j.acks = as
  BY <1>6, <1>9, <1>10
<1>16. j \in JobRecs
  <2>1. pc \in {"meta", "split"}
    BY <1>5
  <2>2. <<>> \in Seq(Nat)
    OBVIOUS
  <2> QED
    BY <1>6, <1>9, <1>14, <2>1, <2>2 DEF JobRecs
<1>17. AckIds(j) = AckIds(k) \cup ToSet(k.msgs)
  BY <1>13, <1>14, <1>15 DEF AckIds
<1>18. Separate(j) /\ Holds(j) = Holds(k)
  BY <1>9, <1>14, <1>15, <1>17, Empty DEF Separate, Holds
<1>19. SameMessages(p)
  BY <1>7 DEF SameMessages, Settled, Types
<1>20. Grows(p)
  <2>1. Extends(log, log') /\ Extends(queue, queue')
    BY <1>7 DEF Extends
  <2>2. \A i \in Nat \ {0} : Somewhere(i)' => Somewhere(i) \/ i \in ToSet(job[p].msgs)
    BY <1>1, <1>7, <1>8, <1>12 DEF Somewhere
  <2>3. delivered' \subseteq RecvRecs
    BY <1>8, <1>12 DEF Settled, Types
  <2> QED
    BY <1>7, <2>1, <2>2, <2>3 DEF Grows, Settled, Types
<1>21. Moves(p, j, {})
  <2>1. Types
    BY DEF Settled
  <2> QED
    BY <1>1, <1>7, <1>15, <1>16, <1>18, <2>1, Empty, NoAnswer DEF Moves
<1>22. Shape(p, j)'
  <2>1. p \in Handlers => Len(j.rest) + Len(j.msgs) + Len(j.acks) <= 1
    <3>1. Len(j.msgs) = 0 /\ Len(j.rest) = Len(k.rest) /\ Len(j.acks) = Len(k.acks) + Len(k.msgs)
      BY <1>14, <1>15, Empty
    <3>2. p \in Handlers => Len(k.rest) + Len(k.msgs) + Len(k.acks) <= 1
      BY <1>9 DEF Shape
    <3>3. \A a, b, c \in Nat : a + b + c <= 1 => a + 0 + (c + b) <= 1
      OBVIOUS
    <3> QED
      BY <1>9, <3>1, <3>2, <3>3
  <2>2. pc = "meta" => p \in Handlers /\ j.rest = <<>> /\ AckIds(j) = {started} /\ Len(j.acks) = 1
    <3> SUFFICES ASSUME pc = "meta"
                 PROVE  p \in Handlers /\ j.rest = <<>> /\ AckIds(j) = {started} /\ Len(j.acks) = 1
      OBVIOUS
    <3>1. PICK h : h = k.msgs[1]
      OBVIOUS
    <3>2. h \in ToSet(k.msgs) /\ h \in DOMAIN msg /\ msg[h].kind = "start"
      BY <1>1, <1>5, <1>10, <3>1, OneChannel
    <3>3. p \in Handlers /\ h = started
      BY <1>9, <3>2 DEF Shape, Settled, Shapes
    <3>4. Len(k.rest) + Len(k.msgs) + Len(k.acks) <= 1
      BY <1>9, <3>3 DEF Shape
    <3>5. Len(k.msgs) > 0
      BY <1>9, <1>10
    <3>6. \A a, b, c \in Nat : a + b + c <= 1 /\ b > 0 => a = 0 /\ b = 1 /\ c = 0
      OBVIOUS
    <3>7. Len(k.rest) = 0 /\ Len(k.msgs) = 1 /\ Len(k.acks) = 0
      BY <1>9, <3>4, <3>5, <3>6
    <3>8. k.rest = <<>> /\ k.acks = <<>>
      BY <1>9, <3>7
    <3>9. ToSet(k.msgs) = {h}
      <4>1. DOMAIN k.msgs = 1 .. 1
        BY <1>9, <3>7
      <4> QED
        BY <3>1, <4>1 DEF ToSet
    <3>10. AckIds(k) = {}
      BY <3>8, Empty DEF AckIds
    <3>11. Len(j.acks) = 1
      BY <1>14, <1>15, <3>7
    <3> QED
      BY <1>15, <1>17, <3>3, <3>8, <3>9, <3>10, <3>11
  <2>3. ToSet(j.rest) \cup ToSet(j.msgs) \subseteq ToSet(job[p].rest) \cup ToSet(job[p].msgs)
        /\ ToSet(j.msgs) = {} /\ ToSet(j.items) = {}
    BY <1>1, <1>15, Empty
  <2>4. j.pc \in {"meta", "split"}
    BY <1>5, <1>15
  <2> QED
    BY <1>7, <1>15, <1>19, <2>1, <2>2, <2>3, <2>4, ShapeKeeps
<1>23. Done(j)'
  BY <1>5, <1>15 DEF Done
<1>24. \A r \in ToSet(j.acks) : r \in ToSet(job[p].acks) \/ Claims(r.id, r)'
  <2> SUFFICES ASSUME NEW r \in ToSet(ss)
               PROVE  Claims(r.id, r)'
    BY <1>1, <1>14, <1>15
  <2>1. PICK i : i = r.id
    OBVIOUS
  <2>2. i \in ToSet(k.msgs) /\ r.reason = "Success" /\ r.seq = msg[i].seq
    BY <1>13, <2>1
  <2>3. msg[i].kind \in {"plain", "start"} => At(log[FakeChannelID(msg[i].from, msg[i].to)], r.seq, i)
    BY <1>7, <1>9, <2>2 DEF Done
  <2>4. WebhookOn /\ msg[i].kind \notin {"ing", "command"} => i \in notify
    BY <1>7, <1>9, <2>2 DEF Done
  <2>5. ASSUME msg[i].kind = "syncOnce", NEW u \in Subscribers(msg[i])
        PROVE  Contains(queue[u], i)
    <3>1. i \in Queued
      BY <1>11, <2>2, <2>5 DEF Queued, NoPersist, SyncOnce
    <3>a. k.subs = {}
      BY <1>7, <2>2, <3>1
    <3>2. PICK x \in k.seqs : x[1] = u /\ x[2] = i
      <4>1. \A v \in Subscribers(msg[i]) \ k.subs : \E x \in k.seqs : x[1] = v /\ x[2] = i
        <5>1. Done(k) /\ k.pc = "put" /\ msg[i].kind = "syncOnce"
          BY <1>7, <1>9, <2>5
        <5> QED
          BY <2>2, <5>1 DEF Done
      <4> QED
        BY <2>5, <3>a, <4>1
    <3>3. At(queue[u], x[3], i)
      BY <1>9, <3>2 DEF Done
    <3>4. u \in Users
      BY <1>11, <1>19, <2>2, StepMessages DEF Settled
    <3>5. queue[u] \in Seq(Nat)
      BY <3>4 DEF Settled, Types
    <3>6. x[3] \in 1 .. Len(queue[u]) /\ queue[u][x[3]] = i
      BY <3>3, <3>5 DEF At
    <3> QED
      BY <3>6 DEF Contains
  <2>6. r.reason \notin Refusals
    BY <2>2 DEF Refusals
  <2> QED
    BY <1>7, <2>1, <2>3, <2>4, <2>5, <2>6 DEF Claims
<1>25. \A d \in delivered' : d \in delivered
         \/ /\ d.id \in ToSet(job[p].msgs) /\ d.id \notin ToSet(j.msgs)
            /\ LET t == FakeChannelID(d.uid, d.channel)
               IN /\ t \in Topics
                  /\ msg[d.id].kind \in {"plain", "start"} => At(log'[t], d.seq, d.id)
                  /\ msg[d.id].kind = "syncOnce" => At(queue'[d.uid], d.seq, d.id)
  BY <1>1, <1>7, <1>8, <1>12, <1>15, Empty
<1>26. Truthful(p, j)
  BY <1>7, <1>22, <1>23, <1>24, <1>25 DEF Truthful
<1>27. Step(p, j, {})
  BY <1>7, <1>19, <1>20, <1>21, <1>26 DEF Step
<1> QED
  BY <1>1, <1>7, <1>27, RunStep

\* Numbering messages changes nothing else.
LEMMA NumberedMessages ==
  ASSUME msg \in Seq(MsgRecs), NEW ids \in Seq(Nat), IsInjective(ids), NEW n \in Nat,
         NEW ms, ms = Numbered(ids, n)
  PROVE  /\ ms \in Seq(MsgRecs) /\ Len(ms) = Len(msg)
         /\ \A i \in DOMAIN msg :
              /\ ms[i].from = msg[i].from /\ ms[i].to = msg[i].to /\ ms[i].kind = msg[i].kind
              /\ i \notin ToSet(ids) => ms[i].seq = msg[i].seq
         /\ \A l \in DOMAIN ids : ids[l] \in DOMAIN msg => ms[ids[l]].seq = n + l
<1>1. DOMAIN msg = 1 .. Len(msg) /\ Len(msg) \in Nat /\ DOMAIN ids = 1 .. Len(ids) /\ Len(ids) \in Nat
  OBVIOUS
<1>2. \A i : Contains(ids, i) <=> i \in ToSet(ids)
  BY <1>1 DEF Contains, ToSet
<1>3. \A i : i \in ToSet(ids) => \E l \in DOMAIN ids : ids[l] = i
  BY DEF ToSet
<1> DEFINE seq(i) == IF Contains(ids, i) THEN n + (CHOOSE k \in DOMAIN ids : ids[k] = i) ELSE msg[i].seq
<1>4. ASSUME NEW l \in DOMAIN ids
      PROVE  seq(ids[l]) = n + l
  <2>1. Contains(ids, ids[l])
    BY <1>2 DEF ToSet
  <2>2. PICK k : k = CHOOSE m \in DOMAIN ids : ids[m] = ids[l]
    OBVIOUS
  <2>3. k \in DOMAIN ids /\ ids[k] = ids[l]
    BY <2>2
  <2>4. k = l
    BY <2>3 DEF IsInjective
  <2> QED
    BY <2>1, <2>2, <2>4
<1>5. \A i : i \notin ToSet(ids) => seq(i) = msg[i].seq
  BY <1>2
<1>6. \A i \in DOMAIN msg : msg[i] \in MsgRecs
  OBVIOUS
<1>7. \A i \in DOMAIN msg : seq(i) \in Nat
  <2> TAKE i \in DOMAIN msg
  <2>1. CASE i \in ToSet(ids)
    <3>1. PICK l \in DOMAIN ids : ids[l] = i
      BY <1>3, <2>1
    <3>2. seq(i) = n + l /\ l \in Nat
      BY <1>1, <1>4, <3>1
    <3> QED
      BY <3>2
  <2>2. CASE i \notin ToSet(ids)
    <3>1. seq(i) = msg[i].seq /\ msg[i] \in MsgRecs
      BY <1>5, <1>6, <2>2
    <3> QED
      BY <3>1 DEF MsgRecs
  <2> QED
    BY <2>1, <2>2
<1>8. ms = [i \in DOMAIN msg |-> [msg[i] EXCEPT !.seq = seq(i)]]
  BY DEF Numbered
<1> HIDE DEF seq
<1>9. \A i \in DOMAIN msg : /\ ms[i] = [msg[i] EXCEPT !.seq = seq(i)] /\ ms[i] \in MsgRecs
                            /\ ms[i].from = msg[i].from /\ ms[i].to = msg[i].to
                            /\ ms[i].kind = msg[i].kind /\ ms[i].seq = seq(i)
  <2> TAKE i \in DOMAIN msg
  <2>1. ms[i] = [msg[i] EXCEPT !.seq = seq(i)]
    BY <1>8
  <2> QED
    BY <1>6, <1>7, <2>1 DEF MsgRecs
<1>10. ms \in Seq(MsgRecs) /\ Len(ms) = Len(msg)
  <2>1. ms = [i \in 1 .. Len(msg) |-> ms[i]]
    BY <1>1, <1>8
  <2>2. \A i \in 1 .. Len(msg) : ms[i] \in MsgRecs
    BY <1>1, <1>9
  <2>3. PICK m : m = Len(msg)
    OBVIOUS
  <2>4. m \in Nat /\ ms = [i \in 1 .. m |-> ms[i]] /\ \A i \in 1 .. m : ms[i] \in MsgRecs
    BY <1>1, <2>1, <2>2, <2>3
  <2>5. ms \in Seq(MsgRecs) /\ Len(ms) = m
    BY <2>4, SMTT(30)
  <2> QED
    BY <2>3, <2>5
<1> QED
  BY <1>4, <1>5, <1>9, <1>10

\* The messages of the run that are stored get the numbers at which they stand in the log.
LEMMA StoreInv ==
  ASSUME MsgInv, NEW p \in Procs, storeChannelMessagesIfNeed(p)
  PROVE  MsgInv'
<1> SUFFICES ASSUME Settled PROVE MsgInv'
  BY DEF MsgInv, Settled
<1>1. PICK k : k = job[p]
  OBVIOUS
<1>2. PICK ids : ids = Only(k.msgs, Stored)
  OBVIOUS
<1>3. PICK t : t = FakeChannelID(msg[k.msgs[1]].from, msg[k.msgs[1]].to)
  OBVIOUS
<1>4. PICK n : n = Len(log[t])
  OBVIOUS
<1>5. PICK zeros : zeros = [l \in DOMAIN Only(job[p].msgs, Stored) |-> 0]
  OBVIOUS
<1>6. PICK j : j = [k EXCEPT !.pc = "notify"]
  OBVIOUS
<1>7. /\ k.pc = "store" /\ k.items = <<>>
      /\ UNCHANGED <<queue, notify, replies, started, delivered, cursor, moving, acked, file, call>>
      /\ \/ ids = <<>> /\ job' = [job EXCEPT ![p] = j] /\ UNCHANGED <<msg, log>>
         \/ /\ msg' = Numbered(ids, n)
            /\ log' = [log EXCEPT ![t] = @ \o ids] /\ job' = [job EXCEPT ![p] = j]
         \/ /\ msg' = Numbered(ids, n)
            /\ log' = [log EXCEPT ![t] = @ \o zeros] /\ job' = [job EXCEPT ![p] = GiveUp(k, msg')]
  BY <1>1, <1>2, <1>3, <1>4, <1>5, <1>6 DEF storeChannelMessagesIfNeed, Goto, cursorVars
<1>8. /\ k \in JobRecs /\ Shape(p, k) /\ Done(k) /\ Separate(k) /\ Holds(k) \subseteq DOMAIN msg
      /\ k.msgs \in Seq(Nat)
      /\ k = [pc |-> k.pc, rest |-> k.rest, msgs |-> k.msgs, items |-> k.items, subs |-> k.subs,
              seqs |-> k.seqs, acks |-> k.acks]
  BY <1>1, RunOf
<1>9. k.msgs # <<>>
  BY <1>7, <1>8 DEF Shape
<1>10. ids \in Seq(Nat) /\ ToSet(ids) = ToSet(k.msgs) \cap Stored /\ IsInjective(ids)
  <2>1. IsInjective(k.msgs)
    BY <1>8 DEF Separate
  <2> QED
    BY <1>2, <1>8, <2>1, OnlyKeeps
<1>11. \A i \in ToSet(k.msgs) : /\ i \in DOMAIN msg
                                /\ FakeChannelID(msg[i].from, msg[i].to) = t
  <2>1. \A i \in ToSet(k.msgs) : i \in DOMAIN msg /\ msg[i].from = msg[k.msgs[1]].from
                                 /\ msg[i].to = msg[k.msgs[1]].to
    BY <1>1, <1>9, OneChannel
  <2> QED
    BY <1>3, <2>1
<1>12. t \in Topics
  <2>1. PICK h : h = k.msgs[1]
    OBVIOUS
  <2>2. h \in DOMAIN msg
    BY <1>1, <1>9, <2>1, OneChannel
  <2>3. msg[h] \in MsgRecs /\ msg[h].from # msg[h].to
    BY <2>2 DEF Settled, Types
  <2>4. msg[h].from \in Users /\ msg[h].to \in Names
    BY <2>3 DEF MsgRecs
  <2> QED
    BY <1>3, <2>1, <2>3, <2>4, TopicSeen
<1>13. msg \in Seq(MsgRecs) /\ log \in [Topics -> Seq(Nat)] /\ n \in Nat
  BY <1>4, <1>12 DEF Settled, Types
<1>14. zeros \in Seq(Nat) /\ ToSet(zeros) \subseteq {0}
  <2>1. DOMAIN ids = 1 .. Len(ids) /\ Len(ids) \in Nat
    BY <1>10
  <2>2. zeros = [l \in 1 .. Len(ids) |-> 0]
    BY <1>1, <1>2, <1>5, <2>1
  <2>3. zeros \in Seq(Nat) /\ DOMAIN zeros = 1 .. Len(ids) /\ \A l \in DOMAIN zeros : zeros[l] = 0
    BY <2>1, <2>2
  <2> QED
    BY <2>3 DEF ToSet
<1>15. j.pc = "notify" /\ j.rest = k.rest /\ j.msgs = k.msgs /\ j.items = <<>> /\ j.seqs = k.seqs
       /\ j.acks = k.acks /\ j \in JobRecs
  <2>1. j.pc = "notify" /\ j.rest = k.rest /\ j.msgs = k.msgs /\ j.items = <<>> /\ j.seqs = k.seqs
       /\ j.acks = k.acks
    BY <1>6, <1>7, <1>8
  <2>2. j \in JobRecs
    BY <1>6, <1>8 DEF JobRecs
  <2> QED
    BY <2>1, <2>2
<1>16. \A i \in ToSet(k.msgs) : msg[i].kind \in {"plain", "start"} => i \in ToSet(ids)
  BY <1>10, <1>11 DEF Stored, NoPersist, SyncOnce, StreamIng
<1>17. CASE ids = <<>> /\ job' = [job EXCEPT ![p] = j] /\ UNCHANGED <<msg, log>>
  <2>1. SameMessages(p) /\ Grows(p)
    BY <1>7, <1>17, QuietGrows DEF Settled
  <2>2. \A i \in ToSet(k.msgs) : msg[i].kind \notin {"plain", "start"}
    BY <1>16, <1>17, Empty
  <2>3. Done(j)'
    BY <1>7, <1>8, <1>15, <1>17, <2>2 DEF Done
  <2>4. Moves(p, j, {}) /\ Truthful(p, j)
    BY <1>1, <1>7, <1>9, <1>15, <1>17, <2>1, <2>3, GoesOn
  <2>5. Step(p, j, {})
    BY <1>7, <2>1, <2>4 DEF Step
  <2> QED
    BY <1>1, <1>7, <2>5, RunStep
<1>18. ASSUME msg' = Numbered(ids, n), NEW s \in Seq(Nat), log' = [log EXCEPT ![t] = @ \o s],
              ToSet(s) \subseteq {0} \cup ToSet(k.msgs)
       PROVE  /\ SameMessages(p) /\ Grows(p)
              /\ \A l \in DOMAIN ids : msg'[ids[l]].seq = n + l
              /\ \A l \in DOMAIN s : At(log'[t], n + l, s[l])
              /\ \A i \in DOMAIN msg : /\ msg'[i].kind = msg[i].kind
                                       /\ FakeChannelID(msg'[i].from, msg'[i].to) = FakeChannelID(msg[i].from, msg[i].to)
  <2>1. PICK ms : ms = msg'
    OBVIOUS
  <2>2. ms = Numbered(ids, n)
    BY <1>18, <2>1
  <2>3. /\ ms \in Seq(MsgRecs) /\ Len(ms) = Len(msg)
        /\ \A i \in DOMAIN msg :
             /\ ms[i].from = msg[i].from /\ ms[i].to = msg[i].to /\ ms[i].kind = msg[i].kind
             /\ i \notin ToSet(ids) => ms[i].seq = msg[i].seq
        /\ \A l \in DOMAIN ids : ids[l] \in DOMAIN msg => ms[ids[l]].seq = n + l
    BY <1>10, <1>13, <2>2, NumberedMessages
  <2>4. SameMessages(p)
    BY <1>1, <1>7, <1>10, <2>1, <2>3 DEF SameMessages
  <2>5. \A l \in DOMAIN ids : msg'[ids[l]].seq = n + l
    <3>1. \A l \in DOMAIN ids : ids[l] \in ToSet(ids)
      BY DEF ToSet
    <3>2. \A l \in DOMAIN ids : ids[l] \in DOMAIN msg
      BY <1>10, <1>11, <3>1
    <3> QED
      BY <2>1, <2>3, <3>2
  <2>6. PICK g : g = log'
    OBVIOUS
  <2>7. Appends(Topics, log, t, s, g)
    BY <1>12, <1>13, <1>18, <2>6 DEF Appends
  <2>8. /\ g \in [Topics -> Seq(Nat)] /\ Extends(log, g)
        /\ \A e \in Topics : \A i : Contains(g[e], i) => Contains(log[e], i) \/ i \in ToSet(s)
        /\ \A l \in DOMAIN s : At(g[t], n + l, s[l])
    BY <1>4, <2>7, Appended
  <2>9. \A i \in Nat \ {0} : Somewhere(i)' => Somewhere(i) \/ i \in ToSet(job[p].msgs)
    <3> SUFFICES ASSUME NEW i \in Nat \ {0}, Somewhere(i)', i \notin ToSet(k.msgs)
                 PROVE  Somewhere(i)
      BY <1>1
    <3>1. \A e \in Topics : Contains(log'[e], i) => Contains(log[e], i)
      BY <1>18, <2>6, <2>8
    <3> QED
      BY <1>7, <3>1 DEF Somewhere
  <2>10. Extends(queue, queue')
    BY <1>7 DEF Extends
  <2>11. Extends(log, log') /\ log' \in [Topics -> Seq(Nat)]
    BY <2>6, <2>8
  <2>12. Grows(p)
    BY <1>7, <2>9, <2>10, <2>11 DEF Grows, Settled, Types
  <2> QED
    BY <2>1, <2>3, <2>4, <2>5, <2>6, <2>8, <2>12
<1>19. CASE /\ msg' = Numbered(ids, n)
            /\ log' = [log EXCEPT ![t] = @ \o ids] /\ job' = [job EXCEPT ![p] = j]
  <2>1. /\ SameMessages(p) /\ Grows(p)
        /\ \A l \in DOMAIN ids : msg'[ids[l]].seq = n + l
        /\ \A l \in DOMAIN ids : At(log'[t], n + l, ids[l])
        /\ \A i \in DOMAIN msg : /\ msg'[i].kind = msg[i].kind
                                 /\ FakeChannelID(msg'[i].from, msg'[i].to) = FakeChannelID(msg[i].from, msg[i].to)
    BY <1>10, <1>18, <1>19
  <2>2. \A i \in ToSet(j.msgs) : msg'[i].kind \in {"plain", "start"} =>
          At(log'[FakeChannelID(msg'[i].from, msg'[i].to)], msg'[i].seq, i)
    <3> SUFFICES ASSUME NEW i \in ToSet(k.msgs), msg'[i].kind \in {"plain", "start"}
                 PROVE  At(log'[FakeChannelID(msg'[i].from, msg'[i].to)], msg'[i].seq, i)
      BY <1>15
    <3>1. i \in DOMAIN msg /\ msg'[i].kind = msg[i].kind /\ FakeChannelID(msg'[i].from, msg'[i].to) = t
      BY <1>11, <2>1
    <3>2. i \in ToSet(ids)
      BY <1>16, <3>1
    <3>3. PICK l \in DOMAIN ids : ids[l] = i
      BY <3>2 DEF ToSet
    <3>4. msg'[i].seq = n + l /\ At(log'[t], n + l, i)
      BY <2>1, <3>3
    <3> QED
      BY <3>1, <3>4
  <2>3. \A x \in j.seqs : At(queue'[x[1]], x[3], x[2])
    BY <1>7, <1>8, <1>15 DEF Done
  <2>4. Done(j)'
    BY <1>15, <2>2, <2>3 DEF Done
  <2>5. Moves(p, j, {}) /\ Truthful(p, j)
    BY <1>1, <1>7, <1>9, <1>15, <1>19, <2>1, <2>4, GoesOn
  <2>6. Step(p, j, {})
    BY <1>7, <2>1, <2>5 DEF Step
  <2> QED
    BY <1>1, <1>7, <2>6, RunStep
<1>20. CASE /\ msg' = Numbered(ids, n)
            /\ log' = [log EXCEPT ![t] = @ \o zeros] /\ job' = [job EXCEPT ![p] = GiveUp(k, msg')]
  <2>1. SameMessages(p) /\ Grows(p)
    BY <1>14, <1>18, <1>20
  <2>2. PICK i : i = GiveUp(job[p], msg')
    OBVIOUS
  <2>3. Moves(p, i, {}) /\ Truthful(p, i)
    BY <1>1, <1>7, <1>9, <1>20, <2>1, <2>2, GiveUpMoves
  <2>4. Step(p, i, {})
    BY <1>7, <2>1, <2>3 DEF Step
  <2> QED
    BY <1>1, <1>7, <2>4, RunStep
<1> QED
  BY <1>7, <1>17, <1>19, <1>20

-----------------------------------------------------------------------------
(* Every step. *)

\* The steps of the store, whoever called it.
LEMMA StreamStepInv ==
  ASSUME MsgInv, StreamStep, UNCHANGED <<msgVars, cursorVars>>
  PROVE  MsgInv'
<1>1. CASE \E p \in Procs : nextStreamSeq(p)
  BY <1>1, NextStreamSeqInv
<1>2. CASE \E p \in Procs : appendItem(p)
  BY <1>2, AppendItemInv
<1>3. CASE \E p \in Procs : saveMeta(p) \/ readMeta(p)
  BY <1>3, MetaInv
<1>4. CASE \E t \in Topics, closed \in BOOLEAN : Evict(t, closed)
  BY <1>4, EvictInv
<1> QED
  BY <1>1, <1>2, <1>3, <1>4 DEF StreamStep

\* The invariant is inductive,
LEMMA MsgNext == MsgInv /\ [Next]_vars => MsgInv'
<1> SUFFICES ASSUME MsgInv, [Next]_vars PROVE MsgInv'
  OBVIOUS
<1>1. ASSUME NEW p \in Frames, NEW u \in Users, NEW n \in 1 .. MaxBatch, processMsgs(p, u, n)
      PROVE  MsgInv'
  BY <1>1, ProcessMsgsInv
<1>2. ASSUME NEW p \in Handlers, NEW u \in Users, NEW to \in Names, NEW kind \in RequestKinds,
             sendRequest(p, u, to, kind)
      PROVE  MsgInv'
  BY <1>2, SendRequestInv
<1>3. ASSUME NEW p \in Frames, NEW to \in Names, prcocessChannelMessages(p, to)
      PROVE  MsgInv'
  BY <1>3, ProcessChannelInv
<1>4. ASSUME NEW p \in Handlers, sendMessageToChannel(p)
      PROVE  MsgInv'
  BY <1>4, SendMessageToChannelInv
<1>5. ASSUME NEW p \in Procs,
             \/ AppendStreamItem(p)
             \/ storeChannelMessagesIfNeed(p)
             \/ storeChannelMessagesToNotifyQueue(p)
             \/ \E u \in Users : storeMessageToUserQueueIfNeed(p, u)
             \/ deliveryMessages(p)
             \/ SaveStreamMeta(p)
             \/ streamMessageEnd(p)
             \/ response(p)
      PROVE  MsgInv'
  BY <1>5, AppendStreamItemInv, StoreInv, NotifyInv, StoreMessageToUserQueueInv, DeliveryInv,
     SaveStreamMetaInv, StreamMessageEndInv, ResponseInv
<1>6. ASSUME NEW k \in Ackers, processRecvacks(k)
      PROVE  MsgInv'
  <2>1. PICK d \in delivered : d.uid \in Readers /\ MoveCursor(k, d.uid, d.seq)
    BY <1>6 DEF processRecvacks
  <2>2. d \in RecvRecs
    BY DEF MsgInv, Types
  <2>3. d.uid \in Users /\ d.seq \in Nat
    BY <2>2 DEF RecvRecs
  <2> QED
    BY <2>1, <2>3, MoveCursorInv
<1>7. ASSUME NEW k \in Ackers, NEW u \in Readers, NEW n \in 1 .. Len(queue[u]) + 1, syncack(k, u, n)
      PROVE  MsgInv'
  <2>1. u \in Users
    BY MessageConstants
  <2>2. n \in Nat
    <3>1. Len(queue[u]) \in Nat
      BY <2>1 DEF MsgInv, Types
    <3> QED
      BY <3>1
  <2> QED
    BY <1>7, <2>1, <2>2, MoveCursorInv DEF syncack
<1>8. ASSUME NEW k \in Ackers, UpdateMessageOfUserCursorIfNeed(k)
      PROVE  MsgInv'
  BY <1>8, UpdateCursorInv
<1>9. CASE StreamStep /\ UNCHANGED <<msgVars, cursorVars>>
  BY <1>9, StreamStepInv
<1>10. CASE UNCHANGED vars
  <2>1. UNCHANGED <<msgVars, cursorVars, streamVars>>
    BY <1>10 DEF vars
  <2>2. UNCHANGED <<file, call>>
    BY <2>1 DEF streamVars
  <2>3. Custody' /\ Shapes' /\ Truth' /\ Deliveries'
    BY <2>1, <2>2, Aside DEF MsgInv, Settled
  <2>4. Types' /\ Cursors'
    BY <2>1 DEF MsgInv, Types, Cursors, msgVars, cursorVars
  <2>5. Calls'
    BY <2>1, <2>2 DEF MsgInv, Calls, Appending, msgVars
  <2> QED
    BY <2>3, <2>4, <2>5 DEF MsgInv
<1> QED
  BY <1>1, <1>2, <1>3, <1>4, <1>5, <1>6, <1>7, <1>8, <1>9, <1>10 DEF Next

\* and holds in every reachable state.
LEMMA MsgInvHolds == Spec => []MsgInv
<1>1. Init => MsgInv
  BY InitMsgInv
<1>2. MsgInv /\ [Next]_vars => MsgInv'
  BY MsgNext
<1> QED
  BY <1>1, <1>2, PTL DEF Spec

-----------------------------------------------------------------------------
(* Every packet and request is answered exactly once, whatever fails on the way and
   whatever else is in its run (processor.go:250-407, api_message.go:200-304). *)
THEOREM MessageAnsweredOnce == Spec => []AnsweredOnce
<1>1. MsgInv => AnsweredOnce
  <2> SUFFICES ASSUME MsgInv, NEW i \in DOMAIN msg
               PROVE  Len(replies[i]) + (IF Waiting(i) THEN 1 ELSE 0) = 1
    BY DEF AnsweredOnce
  <2>1. ASSUME NEW p \in Procs
        PROVE  Contains(job[p].rest \o job[p].msgs, i) \/ (\E r \in ToSet(job[p].acks) : r.id = i)
               <=> i \in Holds(job[p])
    <3>1. PICK k : k = job[p]
      OBVIOUS
    <3>2. k.rest \in Seq(Nat) /\ k.msgs \in Seq(Nat)
      BY <3>1, RunOf DEF MsgInv, Settled
    <3>3. PICK a, b : a = k.rest /\ b = k.msgs
      OBVIOUS
    <3>4. a \in Seq(Nat) /\ b \in Seq(Nat) /\ Len(a) \in Nat /\ Len(b) \in Nat
          /\ DOMAIN a = 1 .. Len(a) /\ DOMAIN b = 1 .. Len(b)
      BY <3>2, <3>3
    <3>5. PICK c : c = a \o b
      OBVIOUS
    <3>6. Len(c) = Len(a) + Len(b) /\ (\A n \in 1 .. Len(a) : c[n] = a[n])
          /\ (\A n \in 1 .. Len(b) : c[Len(a) + n] = b[n])
      BY <3>4, <3>5
    <3>7. Contains(c, i) => i \in ToSet(a) \cup ToSet(b)
      <4> SUFFICES ASSUME NEW n \in 1 .. Len(c), c[n] = i
                   PROVE  i \in ToSet(a) \cup ToSet(b)
        BY DEF Contains
      <4>1. CASE n <= Len(a)
        <5>1. n \in 1 .. Len(a)
          BY <3>4, <3>6, <4>1
        <5>2. a[n] = i
          BY <3>6, <5>1
        <5> QED
          BY <3>4, <5>1, <5>2 DEF ToSet
      <4>2. CASE n > Len(a)
        <5>1. PICK m : m = n - Len(a)
          OBVIOUS
        <5>2. m \in 1 .. Len(b) /\ n = Len(a) + m
          BY <3>4, <3>6, <4>2, <5>1
        <5>3. b[m] = i
          BY <3>6, <5>2
        <5> QED
          BY <3>4, <5>2, <5>3 DEF ToSet
      <4> QED
        BY <3>4, <3>6, <4>1, <4>2
    <3>8. i \in ToSet(a) => Contains(c, i)
      <4> SUFFICES ASSUME NEW n \in 1 .. Len(a), a[n] = i
                   PROVE  Contains(c, i)
        BY <3>4 DEF ToSet
      <4>1. n \in 1 .. Len(c) /\ c[n] = i
        BY <3>4, <3>6
      <4> QED
        BY <4>1 DEF Contains
    <3>9. i \in ToSet(b) => Contains(c, i)
      <4> SUFFICES ASSUME NEW n \in 1 .. Len(b), b[n] = i
                   PROVE  Contains(c, i)
        BY <3>4 DEF ToSet
      <4>1. Len(a) + n \in 1 .. Len(c) /\ c[Len(a) + n] = i
        BY <3>4, <3>6
      <4> QED
        BY <4>1 DEF Contains
    <3>10. (\E r \in ToSet(k.acks) : r.id = i) <=> i \in AckIds(k)
      BY DEF AckIds
    <3> QED
      BY <3>1, <3>3, <3>5, <3>7, <3>8, <3>9, <3>10 DEF Holds
  <2>2. Waiting(i) <=> \E p \in Procs : i \in Holds(job[p])
    BY <2>1 DEF Waiting
  <2>3. Len(replies[i]) = IF \E p \in Procs : i \in Holds(job[p]) THEN 0 ELSE 1
    BY DEF MsgInv, Custody
  <2> QED
    BY <2>2, <2>3
<1> QED
  BY <1>1, MsgInvHolds, PTL

(* A sendack that says Success tells the truth to both ends of the channel, and a
   refused message is nowhere (processor.go:380-407, 422-465, api_message.go:247-304). *)
THEOREM MessageAckTruth == Spec => []AckTruth
<1>1. MsgInv => AckTruth
  <2> SUFFICES ASSUME MsgInv, NEW i \in DOMAIN msg, NEW r \in ToSet(replies[i])
               PROVE  LET m == msg[i]
                          t == IF m.to = Group THEN <<Group>> ELSE GetFakeChannelIDWith(m.to, m.from)
                      IN /\ r.reason = "Success" =>
                              /\ m.kind \in {"plain", "start"} => r.seq \in DOMAIN log[t] /\ log[t][r.seq] = i
                              /\ m.kind = "syncOnce" => \A u \in Subscribers(m) : Contains(queue[u], i)
                              /\ WebhookOn /\ m.kind \notin {"ing", "command", "end"} => i \in notify
                         /\ r.reason \in {"Refused", "NotSupportHeader", "PayloadDecodeError"} => ~Somewhere(i)
    BY DEF AckTruth
  <2>1. Claims(i, r)
    BY DEF MsgInv, Truth
  <2>2. msg[i] \in MsgRecs /\ msg[i].from # msg[i].to
    BY DEF MsgInv, Types
  <2>3. msg[i].from \in Users /\ msg[i].to \in Names
    BY <2>2 DEF MsgRecs
  <2>4. msg[i].to # Group => GetFakeChannelIDWith(msg[i].to, msg[i].from) = FakeChannelID(msg[i].from, msg[i].to)
    <3>1. msg[i].from # Group
      BY <2>3, MessageConstants
    <3>2. msg[i].to # Group => FakeChannelID(msg[i].to, msg[i].from) = FakeChannelID(msg[i].from, msg[i].to)
      BY <2>2, <2>3, TopicSeen
    <3> QED
      BY <3>1, <3>2 DEF FakeChannelID
  <2>5. msg[i].to = Group => FakeChannelID(msg[i].from, msg[i].to) = <<Group>>
    BY DEF FakeChannelID
  <2> QED
    BY <2>1, <2>4, <2>5 DEF Claims, At, Refusals
<1> QED
  BY <1>1, MsgInvHolds, PTL

(* A recipient finds a delivered message where its RECV packet says: in the log of the
   channel as the recipient names it, or in the recipient's own queue
   (delivery_manager.go:78-95, channel.go:486-523). *)
THEOREM MessageDeliveredWhereSaid == Spec => []DeliveredWhereSaid
<1>1. MsgInv => DeliveredWhereSaid
  BY DEF MsgInv, Deliveries
<1> QED
  BY <1>1, MsgInvHolds, PTL

(* Whatever order acknowledgements come in, the next sync returns every message of the
   queue above all that was acknowledged (filestore.go:274-297, api_message.go:46-71). *)
THEOREM MessageSyncReturnsUnacked == Spec => []SyncReturnsUnacked
<1>1. MsgInv => SyncReturnsUnacked
  <2> SUFFICES ASSUME MsgInv, NEW u \in Users, NEW n \in 0 .. MaxSends,
                      NEW k \in DOMAIN queue[u], k > acked[u]
               PROVE  k \in SyncMessageOfUser(u, n)
    BY DEF SyncReturnsUnacked
  <2>1. cursor[u] # None => cursor[u] <= acked[u]
    BY DEF MsgInv, Cursors
  <2>2. acked[u] \in Nat /\ cursor[u] \in Nat \cup {None} /\ queue[u] \in Seq(Nat)
    BY DEF MsgInv, Types
  <2>3. k \in Nat
    BY <2>2
  <2>4. PICK c : c = GetMessageOfUserCursor(u)
    OBVIOUS
  <2>5. c \in Nat /\ c <= acked[u]
    BY <2>1, <2>2, <2>4 DEF GetMessageOfUserCursor
  <2>6. n \in Nat
    OBVIOUS
  <2>7. k >= syncFrom(u, n)
    BY <2>2, <2>3, <2>4, <2>5, <2>6 DEF syncFrom
  <2> QED
    BY <2>7 DEF SyncMessageOfUser
<1> QED
  BY <1>1, MsgInvHolds, PTL

-----------------------------------------------------------------------------
(* Sorting. *)

\* f puts s in order.
Sorts(f, s, n) ==
  /\ f \in Bijection(1 .. n, 1 .. n)
  /\ \A k, l \in 1 .. n : k < l => s[f[k]] <= s[f[l]]

\* Numbers can be sorted: the least comes first, the others are sorted in its absence.
LEMMA Sortable == \A n \in Nat : \A s \in [1 .. n -> Nat] : \E f : Sorts(f, s, n)
<1> DEFINE T == {n \in Nat : \A s \in [1 .. n -> Nat] : \E f : Sorts(f, s, n)}
<1>1. 0 \in T
  <2> SUFFICES ASSUME NEW s \in [1 .. 0 -> Nat] PROVE \E f : Sorts(f, s, 0)
    OBVIOUS
  <2> DEFINE f == [k \in {} |-> 0]
  <2>1. 1 .. 0 = {}
    OBVIOUS
  <2>2. f \in Bijection({}, {})
    BY DEF Bijection, Injection, Surjection, IsInjective
  <2>3. Sorts(f, s, 0)
    BY <2>1, <2>2 DEF Sorts
  <2> QED
    BY <2>3
<1>2. ASSUME NEW n \in Nat, n \in T
      PROVE  n + 1 \in T
  <2> SUFFICES ASSUME NEW s \in [1 .. n + 1 -> Nat] PROVE \E f : Sorts(f, s, n + 1)
    OBVIOUS
  <2>1. PICK m \in 1 .. n + 1 : \A k \in 1 .. n + 1 : s[m] <= s[k]
    <3> DEFINE U == {s[k] : k \in 1 .. n + 1}
    <3>1. U \subseteq Nat
      OBVIOUS
    <3>2. U # {}
      <4>1. 1 \in 1 .. n + 1
        OBVIOUS
      <4> QED
        BY <4>1
    <3>3. PICK x \in U : \A y \in U : x <= y
      <4> HIDE DEF U
      <4> QED
        BY <3>1, <3>2, LeastMember
    <3>4. PICK m \in 1 .. n + 1 : x = s[m]
      BY <3>3
    <3>5. \A k \in 1 .. n + 1 : s[k] \in U
      OBVIOUS
    <3> HIDE DEF U
    <3> QED
      BY <3>3, <3>4, <3>5
  <2> DEFINE other(x) == IF x = m THEN n + 1 ELSE x
             r == [k \in 1 .. n |-> s[other(k)]]
  <2>2. /\ \A x \in 1 .. n : other(x) \in 1 .. n + 1 /\ other(x) # m
        /\ \A x, y \in 1 .. n : other(x) = other(y) => x = y
        /\ \A y \in 1 .. n + 1 : y # m => \E x \in 1 .. n : other(x) = y
    <3>1. n + 1 \in 1 .. n + 1 /\ n + 1 \notin 1 .. n /\ 1 .. n \subseteq 1 .. n + 1
          /\ \A y \in 1 .. n + 1 : y # n + 1 => y \in 1 .. n
      OBVIOUS
    <3>2. m \in 1 .. n \/ m = n + 1
      BY <3>1
    <3>3. \A x \in 1 .. n : other(x) \in 1 .. n + 1 /\ other(x) # m
      BY <3>1
    <3>4. \A x, y \in 1 .. n : other(x) = other(y) => x = y
      BY <3>1
    <3>5. ASSUME NEW y \in 1 .. n + 1, y # m
          PROVE  \E x \in 1 .. n : other(x) = y
      <4>1. CASE y = n + 1
        <5>1. m \in 1 .. n /\ other(m) = y
          BY <3>2, <3>5, <4>1
        <5> QED
          BY <5>1
      <4>2. CASE y # n + 1
        <5>1. y \in 1 .. n /\ other(y) = y
          BY <3>1, <3>5, <4>2
        <5> QED
          BY <5>1
      <4> QED
        BY <4>1, <4>2
    <3> QED
      BY <3>3, <3>4, <3>5
  <2> HIDE DEF other
  <2>3. PICK f : Sorts(f, r, n)
    <3>1. r \in [1 .. n -> Nat]
      BY <2>2
    <3> QED
      BY <1>2, <3>1
  <2>4. /\ f \in [1 .. n -> 1 .. n]
        /\ \A k, l \in 1 .. n : f[k] = f[l] => k = l
        /\ \A x \in 1 .. n : \E k \in 1 .. n : f[k] = x
        /\ \A k, l \in 1 .. n : k < l => r[f[k]] <= r[f[l]]
    BY <2>3 DEF Sorts, Bijection, Injection, Surjection, IsInjective
  <2> DEFINE g == [k \in 1 .. n + 1 |-> IF k = 1 THEN m ELSE other(f[k - 1])]
  <2>5. \A k \in 1 .. n + 1 : k # 1 => k - 1 \in 1 .. n
    OBVIOUS
  <2>6. /\ 1 \in 1 .. n + 1 /\ g[1] = m
        /\ \A k \in 1 .. n + 1 : k # 1 => g[k] = other(f[k - 1])
    OBVIOUS
  <2>7. ASSUME NEW k \in 1 .. n + 1, k # 1
        PROVE  f[k - 1] \in 1 .. n /\ g[k] = other(f[k - 1]) /\ g[k] \in 1 .. n + 1 /\ g[k] # m
    <3>1. k - 1 \in 1 .. n
      BY <2>5, <2>7
    <3>2. PICK x \in 1 .. n : f[k - 1] = x
      BY <2>4, <3>1
    <3>3. other(x) \in 1 .. n + 1 /\ other(x) # m
      BY <2>2
    <3>4. g[k] = other(f[k - 1])
      BY <2>6, <2>7
    <3> HIDE DEF g
    <3> QED
      BY <3>2, <3>3, <3>4
  <2>8. g \in [1 .. n + 1 -> 1 .. n + 1]
    <3>1. \A k \in 1 .. n + 1 : (IF k = 1 THEN m ELSE other(f[k - 1])) \in 1 .. n + 1
      BY <2>2, <2>4, <2>5
    <3> QED
      BY <3>1
  <2> HIDE DEF g
  <2>9. \A k, l \in 1 .. n + 1 : g[k] = g[l] => k = l
    <3> SUFFICES ASSUME NEW k \in 1 .. n + 1, NEW l \in 1 .. n + 1, g[k] = g[l] PROVE k = l
      OBVIOUS
    <3>1. CASE k = 1 \/ l = 1
      BY <2>6, <2>7, <3>1
    <3>2. CASE k # 1 /\ l # 1
      <4>1. f[k - 1] = f[l - 1]
        <5>1. PICK x \in 1 .. n, y \in 1 .. n : f[k - 1] = x /\ f[l - 1] = y
          BY <2>7, <3>2
        <5>2. other(x) = other(y)
          BY <2>7, <3>2, <5>1
        <5>3. x = y
          BY <2>2, <5>2
        <5> QED
          BY <5>1, <5>3
      <4>2. k - 1 = l - 1
        BY <2>4, <2>5, <3>2, <4>1
      <4> QED
        BY <4>2
    <3> QED
      BY <3>1, <3>2
  <2>10. \A y \in 1 .. n + 1 : \E k \in 1 .. n + 1 : g[k] = y
    <3> SUFFICES ASSUME NEW y \in 1 .. n + 1, y # m PROVE \E k \in 1 .. n + 1 : g[k] = y
      BY <2>6
    <3>1. PICK x \in 1 .. n : other(x) = y
      BY <2>2
    <3>2. PICK k \in 1 .. n : f[k] = x
      BY <2>4
    <3>3. k + 1 \in 1 .. n + 1 /\ k + 1 # 1 /\ (k + 1) - 1 = k
      OBVIOUS
    <3>4. g[k + 1] = y
      BY <2>6, <3>1, <3>2, <3>3
    <3> QED
      BY <3>3, <3>4
  <2>11. ASSUME NEW k \in 1 .. n + 1, NEW l \in 1 .. n + 1, k < l
         PROVE  s[g[k]] <= s[g[l]]
    <3>1. CASE k = 1
      BY <2>1, <2>6, <2>8, <3>1
    <3>2. CASE k # 1
      <4>1. l # 1 /\ k - 1 \in 1 .. n /\ l - 1 \in 1 .. n /\ k - 1 < l - 1
        BY <2>11, <3>2
      <4>2. r[f[k - 1]] <= r[f[l - 1]]
        BY <2>4, <4>1
      <4>3. r[f[k - 1]] = s[g[k]] /\ r[f[l - 1]] = s[g[l]]
        BY <2>4, <2>6, <3>2, <4>1
      <4> QED
        BY <4>2, <4>3
    <3> QED
      BY <3>1, <3>2
  <2>12. Sorts(g, s, n + 1)
    BY <2>8, <2>9, <2>10, <2>11 DEF Sorts, Bijection, Injection, Surjection, IsInjective
  <2> QED
    BY <2>12
<1>3. \A n \in Nat : n \in T
  <2> HIDE DEF T
  <2> QED
    BY <1>1, <1>2, Induction
<1> QED
  BY <1>3

\* What is read back has each item of the file as often as the file.
LEMMA ReadsItems ==
  ASSUME NEW t \in Topics, NEW Q, file[t] \in Seq(Q),
         \A k \in DOMAIN file[t] : file[t][k].seq \in Nat,
         NEW i, NEW n \in DOMAIN file[t], file[t][n].id = i,
         \A k \in DOMAIN file[t] : file[t][k].id = i => k = n
  PROVE  Cardinality({k \in DOMAIN readItems(t) : readItems(t)[k].id = i}) = 1
<1> DEFINE items == [k \in DOMAIN file[t] |-> currentStreamItem(t, k)]
           Good(f) == /\ f \in Bijection(DOMAIN items, DOMAIN items)
                      /\ \A k, l \in DOMAIN items : k < l => items[f[k]].seq <= items[f[l]].seq
           order == CHOOSE f \in Bijection(DOMAIN items, DOMAIN items) :
                      \A k, l \in DOMAIN items : k < l => items[f[k]].seq <= items[f[l]].seq
           read == [k \in DOMAIN items |-> items[order[k]]]
<1>1. PICK N \in Nat : DOMAIN file[t] = 1 .. N
  OBVIOUS
<1>2. DOMAIN items = 1 .. N /\ \A k \in 1 .. N : items[k] = file[t][k]
  BY <1>1 DEF currentStreamItem
<1>3. readItems(t) = read
  BY DEF readItems
<1> HIDE DEF items
<1>4. \E f : Good(f)
  <2> DEFINE s == [k \in 1 .. N |-> items[k].seq]
  <2>1. s \in [1 .. N -> Nat]
    BY <1>1, <1>2
  <2>2. PICK f : Sorts(f, s, N)
    BY <2>1, Sortable
  <2>3. f \in [1 .. N -> 1 .. N]
    BY <2>2 DEF Sorts, Bijection, Injection
  <2>4. Good(f)
    BY <1>2, <2>2, <2>3 DEF Sorts
  <2> QED
    BY <2>4
<1>5. Good(order)
  BY <1>4
<1> HIDE DEF order
<1>6. /\ order \in [1 .. N -> 1 .. N]
      /\ \A k, l \in 1 .. N : order[k] = order[l] => k = l
      /\ \A x \in 1 .. N : \E k \in 1 .. N : order[k] = x
  BY <1>2, <1>5 DEF Bijection, Injection, Surjection, IsInjective
<1>7. PICK m \in 1 .. N : order[m] = n
  BY <1>1, <1>6
<1>8. DOMAIN read = 1 .. N /\ \A k \in 1 .. N : read[k] = file[t][order[k]]
  BY <1>2, <1>6
<1> HIDE DEF read
<1>9. {k \in DOMAIN read : read[k].id = i} = {m}
  <2>1. ASSUME NEW k \in 1 .. N, read[k].id = i
        PROVE  k = m
    <3>1. PICK l \in 1 .. N : order[k] = l
      BY <1>6
    <3>2. read[k] = file[t][l]
      BY <1>8, <3>1
    <3>3. l = n
      BY <1>1, <2>1, <3>2
    <3> QED
      BY <1>6, <1>7, <3>1, <3>3
  <2>2. read[m].id = i
    BY <1>7, <1>8
  <2> QED
    BY <1>8, <2>1, <2>2
<1> QED
  BY <1>3, <1>9, FS_Singleton

-----------------------------------------------------------------------------
(* Stream items. *)

\* Item i stands in the file of its stream.
Filed(i) ==
  LET t == StreamTopic(msg[i])
  IN \E k \in DOMAIN file[t] : file[t][k].id = i

\* A file has what was sent to it, once.
Files ==
  /\ \A t \in Topics : \A k \in DOMAIN file[t] :
       file[t][k].id \in DOMAIN msg /\ t = StreamTopic(msg[file[t][k].id])
  /\ \A t \in Topics : \A k, l \in DOMAIN file[t] : file[t][k].id = file[t][l].id => k = l

\* Items go to the channel of the stream that was started.
Sent ==
  \A i \in Items : /\ started # None
                   /\ FakeChannelID(msg[i].from, msg[i].to) = FakeChannelID(msg[started].from, msg[started].to)

\* The call has written its item.
Written(c) == c.op = "append" /\ c.pc = "done" /\ c.val = "ok"

\* Stream objects.
StreamRecs == [max : Nat \cup {None}, io : {"nil", "open", "closed"}, metaIO : {"nil", "open", "closed"}]

\* Objects that a topic or a call refers to are there, and numbers are numbers.
Held(o, ss) == o \in Objs /\ ss[o] \in StreamRecs

Objects ==
  /\ stream = [o \in Objs |-> stream[o]] /\ cached = [t \in Topics |-> cached[t]]
  /\ \A t \in Topics : cached[t] # None => Held(cached[t], stream)
  /\ \A p \in Procs : /\ call[p].pc \in {"none", "made", "held", "write", "done"}
                      /\ call[p].pc \in {"made", "held", "write"} => Held(call[p].obj, stream)
                      /\ call[p].pc = "write" => call[p].seq \in Nat
  /\ \A t \in Topics : \A k \in DOMAIN file[t] : file[t][k].seq \in Nat

\* The items of a run are those yet to be written, the first of them with the call that
\* is under way; the others of the run, and those whose success is to be answered, are filed.
Handled(j, c) ==
  /\ c.pc # "none" => \/ j.pc = "store" /\ j.items # <<>> /\ c.op = "append"
                      \/ j.pc \in {"meta", "end"} /\ c.op # "append"
  /\ c.op = "append" /\ c.pc \in {"made", "held", "write"} => c.topic = StreamTopic(msg[c.item])
  /\ j.pc = "end" => started # None
  /\ IsInjective(j.items)
  /\ \A n \in DOMAIN j.items : Filed(j.items[n]) <=> n = 1 /\ Written(c)
  /\ \A i \in ToSet(j.msgs) : StreamIng(msg[i]) => i \in ToSet(j.items) \/ Filed(i)
  /\ \A r \in ToSet(j.acks) : r.reason = "Success" /\ StreamIng(msg[r.id]) => Filed(r.id)

ItemInv ==
  /\ Files /\ Sent /\ Objects
  /\ \A p \in Procs : Handled(job[p], call[p])
  /\ \A i \in DOMAIN msg : \A r \in ToSet(replies[i]) : r.reason = "Success" /\ StreamIng(msg[i]) => Filed(i)

-----------------------------------------------------------------------------
(* Steps that write no item. *)

\* Messages stay, but for their numbers.
MessagesStay ==
  /\ DOMAIN msg \subseteq DOMAIN msg'
  /\ \A i \in DOMAIN msg : /\ msg'[i].from = msg[i].from /\ msg'[i].to = msg[i].to
                           /\ msg'[i].kind = msg[i].kind /\ msg'[i].api = msg[i].api

\* The topics of a message exist.
LEMMA TopicOf ==
  ASSUME Types, NEW i \in DOMAIN msg
  PROVE  /\ StreamTopic(msg[i]) \in Topics /\ <<msg[i].to>> \in Topics
         /\ msg[i].from \in Users /\ msg[i].to \in Names /\ msg[i].from # msg[i].to
<1>1. msg[i] \in MsgRecs /\ msg[i].from # msg[i].to
  BY DEF Types
<1>2. PICK from, to : from = msg[i].from /\ to = msg[i].to
  OBVIOUS
<1>3. from \in Users /\ to \in Names /\ from # to /\ from \in Names
  BY <1>1, <1>2 DEF MsgRecs, Names
<1>4. {<<to>>, GetFakeChannelIDWith(from, to)} \subseteq Topics \cup {<<to, to>>}
  BY <1>3, MessageConstants
<1>5. <<to>> # <<to, to>> /\ GetFakeChannelIDWith(from, to) # <<to, to>>
  BY <1>3 DEF GetFakeChannelIDWith
<1>6. FakeChannelID(from, to) \in Topics
  BY <1>3, TopicSeen
<1> QED
  BY <1>2, <1>3, <1>4, <1>5, <1>6 DEF StreamTopic

\* What is filed stays so, under the same topic.
LEMMA FiledStays ==
  ASSUME MessagesStay, file' = file, NEW i \in DOMAIN msg
  PROVE  /\ Filed(i)' <=> Filed(i)
         /\ StreamTopic(msg'[i]) = StreamTopic(msg[i])
         /\ StreamIng(msg'[i]) <=> StreamIng(msg[i])
<1>1. StreamTopic(msg'[i]) = StreamTopic(msg[i])
  BY DEF MessagesStay, StreamTopic
<1>2. PICK t : t = StreamTopic(msg[i])
  OBVIOUS
<1>3. Filed(i) <=> \E k \in DOMAIN file[t] : file[t][k].id = i
  BY <1>2 DEF Filed
<1>4. Filed(i)' <=> \E k \in DOMAIN file'[t] : file'[t][k].id = i
  BY <1>1, <1>2 DEF Filed
<1>5. StreamIng(msg'[i]) <=> StreamIng(msg[i])
  BY DEF MessagesStay, StreamIng
<1> QED
  BY <1>1, <1>3, <1>4, <1>5

\* Files are still of what was sent to them.
LEMMA FilesStay ==
  ASSUME MessagesStay, file' = file, Files
  PROVE  Files'
<1>1. ASSUME NEW t \in Topics, NEW k \in DOMAIN file[t]
      PROVE  file[t][k].id \in DOMAIN msg' /\ t = StreamTopic(msg'[file[t][k].id])
  <2>1. PICK i : i = file[t][k].id
    OBVIOUS
  <2>2. i \in DOMAIN msg /\ t = StreamTopic(msg[i])
    BY <2>1 DEF Files
  <2>3. StreamTopic(msg'[i]) = StreamTopic(msg[i]) /\ i \in DOMAIN msg'
    BY <2>2, FiledStays DEF MessagesStay
  <2> QED
    BY <2>1, <2>2, <2>3
<1> QED
  BY <1>1, SMTT(30) DEF Files

\* Items are still of the stream that was started.
LEMMA SentStays ==
  ASSUME MsgInv, MessagesStay, DOMAIN msg' = DOMAIN msg, started' = started, Sent
  PROVE  Sent'
<1>1. ASSUME NEW i \in DOMAIN msg', StreamIng(msg'[i])
      PROVE  /\ started' # None
             /\ FakeChannelID(msg'[i].from, msg'[i].to) = FakeChannelID(msg'[started'].from, msg'[started'].to)
  <2>1. i \in DOMAIN msg /\ StreamIng(msg[i])
    BY <1>1 DEF MessagesStay, StreamIng
  <2>2. i \in Items
    BY <2>1 DEF Items
  <2>3. /\ started # None
        /\ FakeChannelID(msg[i].from, msg[i].to) = FakeChannelID(msg[started].from, msg[started].to)
    BY <2>2 DEF Sent
  <2>4. started \in DOMAIN msg
    BY <2>3 DEF MsgInv, Shapes
  <2> QED
    BY <2>1, <2>3, <2>4 DEF MessagesStay
<1> QED
  BY <1>1 DEF Sent, Items

\* What a goroutine holds is still to be handled or was.
LEMMA HandledStays ==
  ASSUME MessagesStay, file' = file, started # None => started' # None,
         NEW j, NEW c, Handled(j, c), Appending(c, j), j.items \in Seq(Nat),
         Holds(j) \subseteq DOMAIN msg, ToSet(j.items) \subseteq ToSet(j.msgs)
  PROVE  Handled(j, c)'
<1>1. \A n \in DOMAIN j.items : j.items[n] \in ToSet(j.items)
  BY DEF ToSet
<1>2. ToSet(j.items) \subseteq DOMAIN msg /\ ToSet(j.msgs) \subseteq DOMAIN msg
      /\ \A r \in ToSet(j.acks) : r.id \in DOMAIN msg
  BY DEF Holds, AckIds
<1>3. c.op = "append" /\ c.pc \in {"made", "held", "write"} => c.topic = StreamTopic(msg'[c.item])
  <2> SUFFICES ASSUME c.op = "append", c.pc \in {"made", "held", "write"}
               PROVE  c.topic = StreamTopic(msg'[c.item])
    OBVIOUS
  <2>1. PICK s : s = j.items
    OBVIOUS
  <2>2. s \in Seq(Nat) /\ s # <<>> /\ c.item = Head(s)
    BY <2>1 DEF Appending
  <2>3. 1 \in DOMAIN s /\ c.item = s[1]
    BY <2>2
  <2>4. c.item \in DOMAIN msg
    BY <1>1, <1>2, <2>1, <2>3
  <2>5. c.topic = StreamTopic(msg[c.item])
    BY DEF Handled
  <2> QED
    BY <2>4, <2>5, FiledStays
<1>4. \A n \in DOMAIN j.items : Filed(j.items[n])' <=> n = 1 /\ Written(c)
  <2> TAKE n \in DOMAIN j.items
  <2>1. PICK i : i = j.items[n]
    OBVIOUS
  <2>2. i \in DOMAIN msg
    BY <1>1, <1>2, <2>1
  <2>3. Filed(i)' <=> Filed(i)
    BY <2>2, FiledStays
  <2>4. Filed(i) <=> n = 1 /\ Written(c)
    BY <2>1 DEF Handled
  <2> QED
    BY <2>1, <2>3, <2>4
<1>5. ASSUME NEW i \in ToSet(j.msgs), StreamIng(msg'[i])
      PROVE  i \in ToSet(j.items) \/ Filed(i)'
  <2>1. i \in DOMAIN msg
    BY <1>2
  <2>2. StreamIng(msg[i]) /\ (Filed(i)' <=> Filed(i))
    BY <1>5, <2>1, FiledStays
  <2> QED
    BY <2>2 DEF Handled
<1>6. ASSUME NEW r \in ToSet(j.acks), r.reason = "Success", StreamIng(msg'[r.id])
      PROVE  Filed(r.id)'
  <2>1. PICK i : i = r.id
    OBVIOUS
  <2>2. i \in DOMAIN msg
    BY <1>2, <2>1
  <2>3. StreamIng(msg[i]) /\ (Filed(i)' <=> Filed(i))
    BY <1>6, <2>1, <2>2, FiledStays
  <2>4. Filed(i)
    BY <1>6, <2>1, <2>3 DEF Handled
  <2> QED
    BY <2>1, <2>3, <2>4
<1> QED
  BY <1>3, <1>4, <1>5, <1>6 DEF Handled, Written

\* A goroutine p goes on to j, with the call c.
LEMMA ItemsStay ==
  ASSUME MsgInv, ItemInv, MessagesStay, file' = file, started # None => started' # None,
         NEW p \in Procs, NEW j, NEW c, job' = [job EXCEPT ![p] = j], call' = [call EXCEPT ![p] = c],
         Handled(j, c)', Sent', Objects',
         \A i \in DOMAIN msg' : \A r \in ToSet(replies'[i]) :
           r.reason = "Success" /\ StreamIng(msg'[i]) =>
             \/ i \in DOMAIN msg /\ r \in ToSet(replies[i])
             \/ r.id = i /\ r \in ToSet(job[p].acks)
  PROVE  ItemInv'
<1>1. Files'
  BY FilesStay DEF ItemInv
<1>2. /\ DOMAIN job = Procs /\ DOMAIN call = Procs
      /\ \A q \in Procs : job'[q] = IF q = p THEN j ELSE job[q]
      /\ \A q \in Procs : call'[q] = IF q = p THEN c ELSE call[q]
  <2>1. DOMAIN job = Procs /\ DOMAIN call = Procs
    BY DEF MsgInv, Types, Calls
  <2> QED
    BY <2>1
<1>3. ASSUME NEW q \in Procs
      PROVE  Handled(job[q], call[q])'
  <2>1. PICK k, d : k = job'[q] /\ d = call'[q]
    OBVIOUS
  <2>2. Handled(k, d)'
    <3>1. CASE q = p
      BY <1>2, <2>1, <3>1
    <3>2. CASE q # p
      <4>1. k = job[q] /\ d = call[q]
        BY <1>2, <2>1, <3>2
      <4>2. Handled(k, d) /\ Appending(d, k)
        BY <4>1 DEF ItemInv, MsgInv, Calls
      <4>3. k \in JobRecs /\ Holds(k) \subseteq DOMAIN msg /\ Shape(q, k)
        BY <4>1 DEF MsgInv, Types, Custody, Shapes
      <4>4. k.items \in Seq(Nat) /\ ToSet(k.items) \subseteq ToSet(k.msgs)
        BY <4>3 DEF JobRecs, Shape
      <4> QED
        BY <4>2, <4>3, <4>4, HandledStays
    <3> QED
      BY <3>1, <3>2
  <2> QED
    BY <2>1, <2>2
<1>4. ASSUME NEW i \in DOMAIN msg', NEW r \in ToSet(replies'[i]), r.reason = "Success", StreamIng(msg'[i])
      PROVE  Filed(i)'
  <2>1. CASE i \in DOMAIN msg /\ r \in ToSet(replies[i])
    <3>1. StreamIng(msg[i]) /\ (Filed(i)' <=> Filed(i))
      BY <1>4, <2>1, FiledStays
    <3>2. Filed(i)
      BY <1>4, <2>1, <3>1 DEF ItemInv
    <3> QED
      BY <3>1, <3>2
  <2>2. CASE r.id = i /\ r \in ToSet(job[p].acks)
    <3>1. PICK k : k = job[p]
      OBVIOUS
    <3>2. i \in AckIds(k)
      BY <2>2, <3>1 DEF AckIds
    <3>3. i \in DOMAIN msg
      BY <3>1, <3>2 DEF MsgInv, Custody, Holds
    <3>4. StreamIng(msg[i]) /\ (Filed(i)' <=> Filed(i))
      BY <1>4, <3>3, FiledStays
    <3>5. Filed(i)
      BY <1>4, <2>2, <3>4 DEF ItemInv, Handled
    <3> QED
      BY <3>4, <3>5
  <2> QED
    BY <1>4, <2>1, <2>2
<1> QED
  BY <1>1, <1>3, <1>4 DEF ItemInv

-----------------------------------------------------------------------------
(* Stream objects. *)

\* A set of values of a function on a finite set is no larger than the set.
LEMMA Values ==
  ASSUME NEW S, IsFiniteSet(S), NEW f
  PROVE  /\ IsFiniteSet({f[x] : x \in S})
         /\ Cardinality({f[x] : x \in S}) \in Nat /\ Cardinality({f[x] : x \in S}) <= Cardinality(S)
<1> DEFINE T == {f[x] : x \in S}
           g == [x \in S |-> f[x]]
<1>1. g \in Surjection(S, T)
  BY DEF Surjection
<1>2. IsFiniteSet(T) /\ Cardinality(T) <= Cardinality(S)
  BY <1>1, FS_Surjection
<1> QED
  BY <1>2, FS_CardinalityType

\* There are more objects than topics and goroutines can refer to.
LEMMA FreshExists ==
  ASSUME Objects
  PROVE  Fresh \in Objs
<1> DEFINE U == {cached[t] : t \in Topics}
           f == [p \in Procs |-> call[p].obj]
           V == {f[p] : p \in Procs}
<1>1. IsFiniteSet(U) /\ Cardinality(U) \in Nat /\ Cardinality(U) <= Cardinality(Topics)
  BY StreamConstants, Values
<1>2. IsFiniteSet(V) /\ Cardinality(V) \in Nat /\ Cardinality(V) <= Cardinality(Procs)
  BY StreamConstants, Values
<1>3. Range(cached) = U
  BY DEF Objects, Range
<1>4. \A p \in Procs : call[p].obj \in V
  OBVIOUS
<1>5. Cardinality(Topics) \in Nat /\ Cardinality(Procs) \in Nat /\ Cardinality(Objs) \in Nat
  BY StreamConstants, FS_CardinalityType
<1> HIDE DEF U, V
<1>6. Cardinality(U \cap V) \in Nat
  BY <1>1, FS_Intersection, FS_CardinalityType
<1>7. IsFiniteSet(U \cup V) /\ Cardinality(U \cup V) = Cardinality(U) + Cardinality(V) - Cardinality(U \cap V)
  BY <1>1, <1>2, FS_Union
<1>8. ~(Objs \subseteq U \cup V)
  <2> SUFFICES ASSUME Objs \subseteq U \cup V PROVE FALSE
    OBVIOUS
  <2>1. Cardinality(Objs) <= Cardinality(U \cup V)
    BY <1>7, FS_Subset
  <2> QED
    BY <1>1, <1>2, <1>5, <1>6, <1>7, <2>1, StreamConstants
<1>9. PICK o \in Objs : o \notin Range(cached) /\ \A p \in Procs : call[p].obj # o
  BY <1>3, <1>4, <1>8
<1> QED
  BY <1>9, Zenon DEF Fresh

\* Objects that are still referred to are kept.
LEMMA CollectKeeps ==
  ASSUME NEW ss, NEW ca, NEW cs, stream' = Collect(ss, ca, cs), cached' = ca, call' = cs,
         ca = [t \in Topics |-> ca[t]], \A t \in Topics : ca[t] # None => Held(ca[t], ss),
         \A p \in Procs : /\ cs[p].pc \in {"none", "made", "held", "write", "done"}
                          /\ cs[p].pc \in {"made", "held", "write"} => Held(cs[p].obj, ss)
                          /\ cs[p].pc = "write" => cs[p].seq \in Nat,
         \A t \in Topics : \A k \in DOMAIN file'[t] : file'[t][k].seq \in Nat
  PROVE  Objects'
<1>1. /\ stream' = [o \in Objs |-> stream'[o]]
      /\ \A o \in Objs : o \in Range(ca) \/ (\E p \in Procs : cs[p].obj = o) => stream'[o] = ss[o]
  BY DEF Collect
<1>2. ASSUME NEW t \in Topics, cached'[t] # None
      PROVE  Held(cached'[t], stream')
  <2>1. ca[t] \in Range(ca)
    BY DEF Range
  <2>2. ca[t] \in Objs /\ ss[ca[t]] \in StreamRecs
    BY <1>2 DEF Held
  <2>3. stream'[ca[t]] = ss[ca[t]]
    BY <1>1, <2>1, <2>2
  <2> QED
    BY <2>2, <2>3 DEF Held
<1>3. ASSUME NEW p \in Procs, call'[p].pc \in {"made", "held", "write"}
      PROVE  Held(call'[p].obj, stream')
  <2>1. cs[p].obj \in Objs /\ ss[cs[p].obj] \in StreamRecs
    BY <1>3 DEF Held
  <2>2. stream'[cs[p].obj] = ss[cs[p].obj]
    BY <1>1, <2>1
  <2> QED
    BY <2>1, <2>2 DEF Held
<1> QED
  BY <1>1, <1>2, <1>3 DEF Objects, Held

\* The call of p is forgotten.
LEMMA ObjectsForget ==
  ASSUME MsgInv, Objects, NEW p \in Procs, call' = [call EXCEPT ![p] = NoCall],
         UNCHANGED <<file, cached, stream>>
  PROVE  Objects'
<1>1. \A q \in Procs : call'[q] = IF q = p THEN NoCall ELSE call[q]
  BY DEF MsgInv, Calls
<1>2. NoCall.pc = "none"
  BY DEF NoCall
<1>3. \A q \in Procs : /\ call'[q].pc \in {"none", "made", "held", "write", "done"}
                       /\ call'[q].pc \in {"made", "held", "write"} => call'[q] = call[q]
  BY <1>1, <1>2 DEF Objects
<1> QED
  BY <1>3 DEF Objects, Held

\* A call begins, with a cached object or a new one.
LEMMA ObjectsGet ==
  ASSUME MsgInv, Objects, NEW p \in Procs, NEW op, NEW t \in Topics, NEW item, NEW val,
         getStream(p, op, t, item, val)
  PROVE  /\ Objects'
         /\ \E c : /\ call' = [call EXCEPT ![p] = c] /\ c.op = op /\ c.pc \in {"made", "held"}
                   /\ c.topic = t /\ c.item = item
<1>1. PICK o : o = IF cached[t] # None THEN cached[t] ELSE Fresh
  OBVIOUS
<1>2. PICK pc : pc = IF cached[t] # None THEN "held" ELSE "made"
  OBVIOUS
<1>3. PICK c : c = [NoCall EXCEPT !.pc = pc, !.op = op, !.topic = t, !.item = item, !.val = val, !.obj = o]
  OBVIOUS
<1>4. c = [pc |-> pc, op |-> op, topic |-> t, item |-> item, val |-> val, obj |-> o, seq |-> 0]
  BY <1>3 DEF NoCall
<1>5. /\ call' = [call EXCEPT ![p] = c]
      /\ stream' = (IF cached[t] # None THEN stream ELSE [stream EXCEPT ![o] = NewStream])
      /\ UNCHANGED <<file, cached>>
  BY <1>1, <1>2, <1>3 DEF getStream
<1>6. \A q \in Procs : call'[q] = IF q = p THEN c ELSE call[q]
  BY <1>5 DEF MsgInv, Calls
<1>7. o \in Objs /\ stream' = [x \in Objs |-> stream'[x]]
      /\ \A x \in Objs : stream'[x] = stream[x] \/ (x = o /\ stream'[x] = NewStream)
  <2>1. stream = [x \in Objs |-> stream[x]]
    BY DEF Objects
  <2>2. o \in Objs
    BY <1>1, FreshExists DEF Objects, Held
  <2> QED
    BY <1>5, <2>1, <2>2
<1>8. NewStream \in StreamRecs
  BY DEF NewStream, StreamRecs
<1>9. \A x \in Objs : stream[x] \in StreamRecs => stream'[x] \in StreamRecs
  BY <1>7, <1>8
<1>10. stream'[o] \in StreamRecs
  <2>1. CASE cached[t] # None
    BY <1>1, <1>5, <2>1 DEF Objects, Held
  <2>2. CASE cached[t] = None
    <3>1. stream = [x \in Objs |-> stream[x]]
      BY DEF Objects
    <3> QED
      BY <1>5, <1>7, <1>8, <2>2, <3>1
  <2> QED
    BY <2>1, <2>2
<1>11. pc \in {"held", "made"}
  BY <1>2
<1>12. ASSUME NEW q \in Procs
       PROVE  /\ call'[q].pc \in {"none", "made", "held", "write", "done"}
              /\ call'[q].pc \in {"made", "held", "write"} => Held(call'[q].obj, stream')
              /\ call'[q].pc = "write" => call'[q].seq \in Nat
  <2>1. CASE q = p
    BY <1>4, <1>6, <1>7, <1>10, <1>11, <2>1 DEF Held
  <2>2. CASE q # p
    <3>1. call'[q] = call[q]
      BY <1>6, <2>2
    <3> QED
      BY <1>9, <3>1 DEF Objects, Held
  <2> QED
    BY <2>1, <2>2
<1>13. \A x \in Topics : cached'[x] # None => Held(cached'[x], stream')
  BY <1>5, <1>9 DEF Objects, Held
<1>14. Objects'
  BY <1>5, <1>7, <1>12, <1>13 DEF Objects
<1>15. c.op = op /\ c.pc \in {"made", "held"} /\ c.topic = t /\ c.item = item
  BY <1>4, <1>11
<1> QED
  BY <1>5, <1>14, <1>15

-----------------------------------------------------------------------------
(* Steps of the store and items. *)

\* Steps that are not about messages.
LEMMA ItemsAside ==
  ASSUME ItemInv, UNCHANGED <<msgVars, file, call>>, Objects'
  PROVE  ItemInv'
<1> USE DEF msgVars
<1>1. Files' /\ Sent'
  BY DEF ItemInv, Files, Sent, Items
<1>2. \A i : Filed(i)' <=> Filed(i)
  BY DEF Filed
<1>3. \A p \in Procs : Handled(job[p], call[p])'
  BY <1>2 DEF ItemInv, Handled, Written
<1>4. \A i \in DOMAIN msg' : \A r \in ToSet(replies'[i]) :
        r.reason = "Success" /\ StreamIng(msg'[i]) => Filed(i)'
  BY <1>2 DEF ItemInv
<1> QED
  BY <1>1, <1>3, <1>4 DEF ItemInv

\* The call of p goes on.
LEMMA CallKeepsItems ==
  ASSUME MsgInv, ItemInv, UNCHANGED <<msgVars, file>>, Objects',
         NEW p \in Procs, NEW c, call' = [call EXCEPT ![p] = c], Handled(job[p], c)
  PROVE  ItemInv'
<1>1. PICK j : j = job[p]
  OBVIOUS
<1>2. Handled(j, c)'
  <2>1. \A i : Filed(i)' <=> Filed(i)
    BY DEF Filed, msgVars
  <2>2. Handled(j, c)
    BY <1>1
  <2> QED
    BY <2>1, <2>2 DEF Handled, Written, msgVars
<1>3. job' = [job EXCEPT ![p] = j]
  BY <1>1 DEF MsgInv, Types, msgVars
<1>4. MessagesStay /\ Sent'
  BY DEF MessagesStay, ItemInv, Sent, Items, msgVars
<1> QED
  BY <1>2, <1>3, <1>4, ItemsStay DEF msgVars

\* What a call that appends is about.
LEMMA AppendingCall ==
  ASSUME MsgInv, ItemInv, NEW p \in Procs, call[p].op = "append", call[p].pc \in {"made", "held", "write"}
  PROVE  /\ job[p].pc = "store" /\ job[p].items # <<>> /\ 1 \in DOMAIN job[p].items
         /\ call[p].item = job[p].items[1] /\ call[p].item \in DOMAIN msg
         /\ call[p].item \in Holds(job[p])
         /\ call[p].topic = StreamTopic(msg[call[p].item]) /\ call[p].topic \in Topics
         /\ ~Filed(call[p].item) /\ ~Written(call[p])
         /\ call[p].obj \in Objs /\ stream[call[p].obj] \in StreamRecs
<1>1. PICK j, c : j = job[p] /\ c = call[p]
  OBVIOUS
<1>2. Appending(c, j) /\ Handled(j, c) /\ j \in JobRecs /\ Shape(p, j) /\ Holds(j) \subseteq DOMAIN msg
  BY <1>1 DEF MsgInv, ItemInv, Calls, Types, Shapes, Custody
<1>3. PICK s : s = j.items
  OBVIOUS
<1>4. s \in Seq(Nat) /\ s # <<>> /\ c.item = Head(s) /\ j.pc = "store"
  BY <1>1, <1>2, <1>3 DEF Appending, JobRecs
<1>5. 1 \in DOMAIN s /\ c.item = s[1]
  BY <1>4
<1>6. c.item \in Holds(j)
  <2>1. c.item \in ToSet(s)
    BY <1>5 DEF ToSet
  <2> QED
    BY <1>2, <1>3, <2>1 DEF Shape, Holds
<1>7. c.topic = StreamTopic(msg[c.item]) /\ ~Written(c)
  BY <1>1, <1>2 DEF Handled, Written
<1>8. ~Filed(s[1])
  BY <1>2, <1>3, <1>5, <1>7 DEF Handled
<1>9. c.item \in DOMAIN msg
  BY <1>2, <1>6
<1>10. c.topic \in Topics
  BY <1>7, <1>9, TopicOf DEF MsgInv
<1>11. c.obj \in Objs /\ stream[c.obj] \in StreamRecs
  BY <1>1 DEF ItemInv, Objects, Held
<1> QED
  BY <1>1, <1>3, <1>4, <1>5, <1>6, <1>7, <1>8, <1>9, <1>10, <1>11

\* The object of a call that goes into the cache is there.
LEMMA AddedHeld ==
  ASSUME Objects, NEW p \in Procs, call[p].pc \in {"made", "held", "write"},
         NEW s \in StreamRecs, NEW ss, ss = [stream EXCEPT ![call[p].obj] = s]
  PROVE  /\ Added(p) = [t \in Topics |-> Added(p)[t]]
         /\ \A t \in Topics : Added(p)[t] # None => Held(Added(p)[t], ss)
         /\ \A t \in Topics : cached[t] # None => Held(cached[t], ss)
         /\ \A q \in Procs : call[q].pc \in {"made", "held", "write"} => Held(call[q].obj, ss)
<1>1. /\ stream = [o \in Objs |-> stream[o]] /\ cached = [t \in Topics |-> cached[t]]
      /\ call[p].obj \in Objs
  BY DEF Objects, Held
<1>2. \A o \in Objs : ss[o] = IF o = call[p].obj THEN s ELSE stream[o]
  BY <1>1
<1>3. \A o : Held(o, stream) => Held(o, ss)
  BY <1>2 DEF Held
<1>4. Held(call[p].obj, ss)
  BY <1>1, <1>2 DEF Held
<1>5. \A t \in Topics : Added(p)[t] = cached[t] \/ Added(p)[t] = call[p].obj
  BY <1>1 DEF Added
<1>6. Added(p) = [t \in Topics |-> Added(p)[t]]
  BY <1>1 DEF Added
<1> QED
  BY <1>3, <1>4, <1>5, <1>6 DEF Objects

\* An item gets its number.
LEMMA NextStreamSeqItems ==
  ASSUME MsgInv, ItemInv, NEW p \in Procs, nextStreamSeq(p), UNCHANGED msgVars
  PROVE  ItemInv'
<1>1. PICK c, s : c = call[p] /\ s = stream[call[p].obj]
  OBVIOUS
<1>2. PICK n : n = IF s.max = None THEN readMaxStreamSeq(c.topic) ELSE s.max
  OBVIOUS
<1>3. /\ c.pc \in {"made", "held"} /\ c.op = "append" /\ cached' = Added(p) /\ file' = file
      /\ call' = [call EXCEPT ![p].pc = "write", ![p].seq = n + 1]
      /\ stream' = Collect([stream EXCEPT ![c.obj] = [s EXCEPT !.max = n, !.io = Opened(@)]], cached', call')
  BY <1>1, <1>2 DEF nextStreamSeq
<1>4. /\ c.topic \in Topics /\ s \in StreamRecs /\ ~Written(c) /\ c.obj \in Objs
  BY <1>1, <1>3, AppendingCall
<1>5. n \in Nat
  <2>1. s.max \in Nat \cup {None}
    BY <1>4 DEF StreamRecs
  <2>2. readMaxStreamSeq(c.topic) \in Nat
    <3>1. PICK f : f = file[c.topic]
      OBVIOUS
    <3>2. PICK Q : f \in Seq(Q)
      BY <1>4, <3>1 DEF MsgInv, Calls
    <3>3. f # <<>> => Len(f) \in DOMAIN f
      BY <3>2
    <3>4. \A k \in DOMAIN f : f[k].seq \in Nat
      BY <1>4, <3>1 DEF ItemInv, Objects
    <3> QED
      BY <3>1, <3>3, <3>4 DEF readMaxStreamSeq, currentStreamItem
  <2> QED
    BY <1>2, <2>1, <2>2
<1>6. PICK s2 : s2 = [s EXCEPT !.max = n, !.io = Opened(@)]
  OBVIOUS
<1>7. s2 \in StreamRecs
  BY <1>4, <1>5, <1>6 DEF StreamRecs, Opened
<1>8. PICK ss : ss = [stream EXCEPT ![c.obj] = s2]
  OBVIOUS
<1>9. stream = [o \in Objs |-> stream[o]]
  BY DEF ItemInv, Objects
<1>10. stream' = Collect(ss, cached', call')
  <2>1. [stream EXCEPT ![c.obj] = [s EXCEPT !.max = n, !.io = Opened(@)]] = ss
    BY <1>1, <1>4, <1>6, <1>8, <1>9
  <2> QED
    BY <1>3, <2>1
<1>11. PICK d : d = [[c EXCEPT !.pc = "write"] EXCEPT !.seq = n + 1]
  OBVIOUS
<1>12. /\ DOMAIN call = Procs
       /\ c = [pc |-> c.pc, op |-> c.op, topic |-> c.topic, item |-> c.item, val |-> c.val,
               obj |-> c.obj, seq |-> c.seq]
  BY <1>1 DEF MsgInv, Calls
<1>13. call' = [call EXCEPT ![p] = d]
  BY <1>1, <1>3, <1>11, <1>12
<1>14. d.pc = "write" /\ d.op = "append" /\ d.topic = c.topic /\ d.item = c.item /\ d.obj = c.obj
       /\ d.seq = n + 1
  BY <1>3, <1>11, <1>12
<1>15. Objects'
  <2>1. \A q \in Procs : call'[q] = IF q = p THEN d ELSE call[q]
    BY <1>12, <1>13
  <2>2. PICK ca, cs : ca = Added(p) /\ cs = call'
    OBVIOUS
  <2>3. Objects
    BY DEF ItemInv
  <2>4. /\ ca = [t \in Topics |-> ca[t]]
        /\ \A t \in Topics : ca[t] # None => Held(ca[t], ss)
        /\ \A q \in Procs : call[q].pc \in {"made", "held", "write"} => Held(call[q].obj, ss)
    BY <1>1, <1>3, <1>7, <1>8, <2>2, <2>3, AddedHeld
  <2>5. \A q \in Procs : /\ cs[q].pc \in {"none", "made", "held", "write", "done"}
                         /\ cs[q].pc \in {"made", "held", "write"} => Held(cs[q].obj, ss)
                         /\ cs[q].pc = "write" => cs[q].seq \in Nat
    <3> TAKE q \in Procs
    <3>1. CASE q = p
      <4>1. cs[q] = d /\ Held(c.obj, ss)
        BY <1>1, <1>3, <2>1, <2>2, <2>4, <3>1
      <4> QED
        BY <1>5, <1>14, <4>1
    <3>2. CASE q # p
      <4>1. cs[q] = call[q]
        BY <2>1, <2>2, <3>2
      <4> QED
        BY <2>3, <2>4, <4>1 DEF Objects
    <3> QED
      BY <3>1, <3>2
  <2>6. \A t \in Topics : \A k \in DOMAIN file'[t] : file'[t][k].seq \in Nat
    BY <1>3, <2>3 DEF Objects
  <2>7. stream' = Collect(ss, ca, cs) /\ cached' = ca /\ call' = cs
    BY <1>3, <1>10, <2>2
  <2> QED
    BY <2>4, <2>5, <2>6, <2>7, CollectKeeps
<1>16. Handled(job[p], d)
  <2>1. Handled(job[p], c)
    BY <1>1 DEF ItemInv
  <2>2. ~Written(d)
    BY <1>14 DEF Written
  <2>3. d.topic = StreamTopic(msg[d.item])
    BY <1>1, <1>3, <1>14, AppendingCall
  <2> QED
    BY <1>3, <1>4, <1>14, <2>1, <2>2, <2>3 DEF Handled
<1> QED
  BY <1>3, <1>13, <1>15, <1>16, CallKeepsItems

\* A call ends.
LEMMA FinishObjects ==
  ASSUME MsgInv, Objects, NEW p \in Procs, call[p].pc \in {"made", "held", "write"}, NEW r,
         NEW s \in StreamRecs, NEW ss, ss = [stream EXCEPT ![call[p].obj] = s],
         NEW ca, ca = Added(p) \/ ca = cached, Finish(p, r, ss, ca),
         \A t \in Topics : \A k \in DOMAIN file'[t] : file'[t][k].seq \in Nat
  PROVE  /\ Objects'
         /\ \E d : call' = [call EXCEPT ![p] = d] /\ d.pc = "done" /\ d.op = call[p].op /\ d.val = r
<1>1. PICK d : d = [NoCall EXCEPT !.pc = "done", !.op = call[p].op, !.val = r]
  OBVIOUS
<1>2. d.pc = "done" /\ d.op = call[p].op /\ d.val = r
  BY <1>1 DEF NoCall
<1>3. PICK cs : cs = [call EXCEPT ![p] = d]
  OBVIOUS
<1>4. call' = cs /\ cached' = ca /\ stream' = Collect(ss, ca, cs)
  BY <1>1, <1>3 DEF Finish
<1>5. \A q \in Procs : cs[q] = IF q = p THEN d ELSE call[q]
  BY <1>3 DEF MsgInv, Calls
<1>6. /\ Added(p) = [t \in Topics |-> Added(p)[t]]
      /\ \A t \in Topics : Added(p)[t] # None => Held(Added(p)[t], ss)
      /\ \A t \in Topics : cached[t] # None => Held(cached[t], ss)
      /\ \A q \in Procs : call[q].pc \in {"made", "held", "write"} => Held(call[q].obj, ss)
  BY AddedHeld
<1>7. ca = [t \in Topics |-> ca[t]] /\ \A t \in Topics : ca[t] # None => Held(ca[t], ss)
  <2>1. CASE ca = Added(p)
    <3>1. PICK a : a = Added(p)
      OBVIOUS
    <3>2. a = [t \in Topics |-> a[t]] /\ \A t \in Topics : a[t] # None => Held(a[t], ss)
      BY <1>6, <3>1
    <3> QED
      BY <2>1, <3>1, <3>2
  <2>2. CASE ca = cached
    BY <1>6, <2>2 DEF Objects
  <2> QED
    BY <2>1, <2>2
<1>8. ASSUME NEW q \in Procs
      PROVE  /\ cs[q].pc \in {"none", "made", "held", "write", "done"}
             /\ cs[q].pc \in {"made", "held", "write"} => Held(cs[q].obj, ss)
             /\ cs[q].pc = "write" => cs[q].seq \in Nat
  <2>1. CASE q = p
    BY <1>2, <1>5, <2>1
  <2>2. CASE q # p
    <3>1. cs[q] = call[q]
      BY <1>5, <2>2
    <3> QED
      BY <1>6, <3>1 DEF Objects
  <2> QED
    BY <2>1, <2>2
<1>9. Objects'
  BY <1>4, <1>7, <1>8, CollectKeeps
<1> QED
  BY <1>2, <1>3, <1>4, <1>9

\* Meta data is written or read.
LEMMA MetaItems ==
  ASSUME MsgInv, ItemInv, NEW p \in Procs, saveMeta(p) \/ readMeta(p), UNCHANGED msgVars
  PROVE  ItemInv'
<1>1. PICK c : c = call[p]
  OBVIOUS
<1>2. c.pc \in {"made", "held"} /\ c.op \in {"save", "read"} /\ file' = file
  BY <1>1 DEF saveMeta, readMeta
<1>3. /\ stream = [o \in Objs |-> stream[o]] /\ c.obj \in Objs /\ stream[c.obj] \in StreamRecs
      /\ Objects /\ Handled(job[p], c)
  BY <1>1, <1>2 DEF ItemInv, Objects, Held
<1>4. \E r : \/ Finish(p, r, stream, Added(p))
             \/ Finish(p, r, [stream EXCEPT ![c.obj].metaIO = "open"], Added(p))
  BY <1>1 DEF saveMeta, readMeta
<1>5. PICK s, r : s \in StreamRecs /\ Finish(p, r, [stream EXCEPT ![c.obj] = s], Added(p))
  <2>1. PICK r : \/ Finish(p, r, stream, Added(p))
                 \/ Finish(p, r, [stream EXCEPT ![c.obj].metaIO = "open"], Added(p))
    BY <1>4
  <2>2. CASE Finish(p, r, stream, Added(p))
    <3>1. PICK s : s = stream[c.obj]
      OBVIOUS
    <3>2. s \in StreamRecs
      BY <1>3, <3>1
    <3>3. stream = [stream EXCEPT ![c.obj] = s]
      BY <1>3, <3>1
    <3>4. Finish(p, r, [stream EXCEPT ![c.obj] = s], Added(p))
      BY <2>2, <3>3
    <3> QED
      BY <3>2, <3>4, Zenon
  <2>3. CASE Finish(p, r, [stream EXCEPT ![c.obj].metaIO = "open"], Added(p))
    <3>1. PICK s : s = [stream[c.obj] EXCEPT !.metaIO = "open"]
      OBVIOUS
    <3>2. s \in StreamRecs
      BY <1>3, <3>1 DEF StreamRecs
    <3>3. [stream EXCEPT ![c.obj].metaIO = "open"] = [stream EXCEPT ![c.obj] = s]
      BY <1>3, <3>1
    <3>4. Finish(p, r, [stream EXCEPT ![c.obj] = s], Added(p))
      BY <2>3, <3>3
    <3> QED
      BY <3>2, <3>4, Zenon
  <2> QED
    BY <2>1, <2>2, <2>3
<1>6. \A t \in Topics : \A k \in DOMAIN file'[t] : file'[t][k].seq \in Nat
  BY <1>2, <1>3 DEF Objects
<1>7. /\ Objects'
      /\ \E d : call' = [call EXCEPT ![p] = d] /\ d.pc = "done" /\ d.op = c.op /\ d.val = r
  BY <1>1, <1>2, <1>3, <1>5, <1>6, FinishObjects
<1>8. PICK d : call' = [call EXCEPT ![p] = d] /\ d.pc = "done" /\ d.op = c.op
  BY <1>7
<1>9. Handled(job[p], d)
  BY <1>2, <1>3, <1>8 DEF Handled, Written
<1> QED
  BY <1>2, <1>7, <1>8, <1>9, CallKeepsItems

\* A stream leaves the cache.
LEMMA EvictItems ==
  ASSUME MsgInv, ItemInv, NEW t \in Topics, NEW closed \in BOOLEAN, Evict(t, closed), UNCHANGED msgVars
  PROVE  ItemInv'
<1>1. PICK o, s : o = cached[t] /\ s = stream[cached[t]]
  OBVIOUS
<1>2. PICK s2 : s2 = [s EXCEPT !.io = Closed(@), !.metaIO = Closed(@)]
  OBVIOUS
<1>3. PICK ss : ss = IF ~closed THEN stream ELSE [stream EXCEPT ![o] = s2]
  OBVIOUS
<1>4. /\ o # None /\ cached' = [cached EXCEPT ![t] = None] /\ UNCHANGED <<file, call>>
      /\ stream' = Collect(ss, cached', call)
  BY <1>1, <1>2, <1>3 DEF Evict
<1>5. Objects
  BY DEF ItemInv
<1>6. o \in Objs /\ s \in StreamRecs /\ stream = [x \in Objs |-> stream[x]] /\ cached = [x \in Topics |-> cached[x]]
  BY <1>1, <1>4, <1>5 DEF Objects, Held
<1>7. s2 \in StreamRecs
  BY <1>2, <1>6 DEF StreamRecs, Closed
<1>8. \A x : Held(x, stream) => Held(x, ss)
  BY <1>3, <1>6, <1>7 DEF Held
<1>9. PICK ca, cs : ca = cached' /\ cs = call
  OBVIOUS
<1>10. ca = [x \in Topics |-> ca[x]] /\ \A x \in Topics : ca[x] # None => Held(ca[x], ss)
  <2>1. ca = [cached EXCEPT ![t] = None]
    BY <1>4, <1>9
  <2>2. \A x \in Topics : ca[x] = None \/ ca[x] = cached[x]
    BY <1>6, <2>1
  <2>3. ca = [x \in Topics |-> ca[x]]
    BY <1>6, <2>1
  <2> QED
    BY <1>5, <1>8, <2>2, <2>3 DEF Objects
<1>11. \A q \in Procs : /\ cs[q].pc \in {"none", "made", "held", "write", "done"}
                        /\ cs[q].pc \in {"made", "held", "write"} => Held(cs[q].obj, ss)
                        /\ cs[q].pc = "write" => cs[q].seq \in Nat
  BY <1>5, <1>8, <1>9 DEF Objects
<1>12. \A x \in Topics : \A k \in DOMAIN file'[x] : file'[x][k].seq \in Nat
  BY <1>4, <1>5 DEF Objects
<1>13. stream' = Collect(ss, ca, cs) /\ cached' = ca /\ call' = cs
  BY <1>4, <1>9
<1>14. Objects'
  BY <1>10, <1>11, <1>12, <1>13, CollectKeeps
<1> QED
  BY <1>4, <1>14, ItemsAside

\* An item is written, at the end of the file of its stream, or cannot be.
LEMMA AppendItemItems ==
  ASSUME MsgInv, ItemInv, NEW p \in Procs, appendItem(p), UNCHANGED msgVars
  PROVE  ItemInv'
<1>1. PICK c, j : c = call[p] /\ j = job[p]
  OBVIOUS
<1>2. c.pc = "write" /\ c.op = "append"
  BY <1>1 DEF appendItem, MsgInv, Calls
<1>3. /\ c.topic \in Topics /\ c.topic = StreamTopic(msg[c.item]) /\ c.item \in DOMAIN msg
      /\ j.pc = "store" /\ j.items # <<>> /\ 1 \in DOMAIN j.items /\ c.item = j.items[1]
      /\ c.item \in Holds(j) /\ ~Filed(c.item) /\ ~Written(c)
      /\ c.obj \in Objs /\ stream[c.obj] \in StreamRecs
  BY <1>1, <1>2, AppendingCall
<1>4. Objects /\ Handled(j, c) /\ c.seq \in Nat /\ stream = [o \in Objs |-> stream[o]]
  BY <1>1, <1>2 DEF ItemInv, Objects
<1>5. CASE Finish(p, "error", stream, cached) /\ file' = file
  <2>1. stream = [stream EXCEPT ![c.obj] = stream[c.obj]]
    BY <1>4
  <2>2. \A t \in Topics : \A k \in DOMAIN file'[t] : file'[t][k].seq \in Nat
    BY <1>4, <1>5 DEF Objects
  <2>3. /\ Objects'
        /\ \E d : call' = [call EXCEPT ![p] = d] /\ d.pc = "done" /\ d.op = c.op /\ d.val = "error"
    BY <1>1, <1>2, <1>3, <1>4, <1>5, <2>1, <2>2, FinishObjects
  <2>4. PICK d : call' = [call EXCEPT ![p] = d] /\ d.pc = "done" /\ d.op = c.op /\ d.val = "error"
    BY <2>3
  <2>5. Handled(j, d)
    BY <1>2, <1>3, <1>4, <2>4 DEF Handled, Written
  <2> QED
    BY <1>1, <1>5, <2>3, <2>4, <2>5, CallKeepsItems
<1>6. CASE /\ file' = [file EXCEPT ![c.topic] = Append(@, StreamItem(c.item, c.seq))]
           /\ Finish(p, "ok", [stream EXCEPT ![c.obj].max = c.seq], cached)
  <2>1. PICK x, i, t0, f : x = StreamItem(c.item, c.seq) /\ i = c.item /\ t0 = c.topic /\ f = file[c.topic]
    OBVIOUS
  <2>2. x.id = i /\ x.seq \in Nat
    BY <1>4, <2>1 DEF StreamItem
  <2>3. PICK Q : f \in Seq(Q)
    BY <1>3, <2>1 DEF MsgInv, Calls
  <2>4. PICK g : g = Append(f, x)
    OBVIOUS
  <2>5. /\ \A k \in DOMAIN g : (k \in DOMAIN f /\ g[k] = f[k]) \/ (k = Len(f) + 1 /\ g[k] = x)
        /\ \A k \in DOMAIN f : k \in DOMAIN g /\ g[k] = f[k]
        /\ Len(f) + 1 \in DOMAIN g /\ g[Len(f) + 1] = x
    <3>1. f \in Seq(Q \cup {x}) /\ x \in Q \cup {x}
      BY <2>3
    <3> QED
      BY <2>4, <3>1
  <2>6. \A t \in Topics : file'[t] = IF t = t0 THEN g ELSE file[t]
    <3>1. file = [t \in Topics |-> file[t]]
      BY DEF MsgInv, Calls
    <3> QED
      BY <1>3, <1>6, <2>1, <2>4, <3>1
  <2>7. \A t \in Topics : \A k \in DOMAIN file[t] :
          file[t][k].id \in DOMAIN msg /\ t = StreamTopic(msg[file[t][k].id])
    BY DEF ItemInv, Files
  <2>8. \A k \in DOMAIN f : f[k].id # i
    BY <1>3, <2>1 DEF Filed
  <2>9. ASSUME NEW k \in DOMAIN msg
        PROVE  Filed(k)' <=> Filed(k) \/ k = i
    <3>1. PICK t : t = StreamTopic(msg[k])
      OBVIOUS
    <3>2. t \in Topics
      BY <3>1, TopicOf DEF MsgInv
    <3>3. Filed(k)' <=> \E l \in DOMAIN file'[t] : file'[t][l].id = k
      BY <3>1 DEF Filed, msgVars
    <3>4. Filed(k) <=> \E l \in DOMAIN file[t] : file[t][l].id = k
      BY <3>1 DEF Filed
    <3>5. CASE t = t0
      <4>1. file[t] = f /\ file'[t] = g
        BY <2>1, <2>6, <3>2, <3>5
      <4> QED
        BY <2>2, <2>5, <3>3, <3>4, <4>1
    <3>6. CASE t # t0
      <4>1. k # i
        BY <1>3, <2>1, <3>1, <3>6
      <4> QED
        BY <2>6, <3>2, <3>3, <3>4, <3>6, <4>1
    <3> QED
      BY <3>5, <3>6
  <2>10. Files'
    <3>1. ASSUME NEW t \in Topics, NEW k \in DOMAIN file'[t]
          PROVE  file'[t][k].id \in DOMAIN msg' /\ t = StreamTopic(msg'[file'[t][k].id])
      <4>1. file'[t][k].id \in DOMAIN msg /\ t = StreamTopic(msg[file'[t][k].id])
        <5>1. CASE t = t0
          <6>1. file'[t] = g /\ file[t] = f
            BY <2>1, <2>6, <5>1
          <6> QED
            BY <1>3, <2>1, <2>2, <2>5, <2>7, <3>1, <5>1, <6>1
        <5>2. CASE t # t0
          BY <2>6, <2>7, <3>1, <5>2
        <5> QED
          BY <5>1, <5>2
      <4> QED
        BY <4>1 DEF msgVars
    <3>2. ASSUME NEW t \in Topics, NEW k \in DOMAIN file'[t], NEW l \in DOMAIN file'[t],
                 file'[t][k].id = file'[t][l].id
          PROVE  k = l
      <4>1. \A m, n \in DOMAIN file[t] : file[t][m].id = file[t][n].id => m = n
        BY DEF ItemInv, Files
      <4>2. CASE t = t0
        <5>1. file'[t] = g /\ file[t] = f
          BY <2>1, <2>6, <4>2
        <5>2. g[k].id = g[l].id /\ k \in DOMAIN g /\ l \in DOMAIN g
          BY <3>2, <5>1
        <5> QED
          BY <2>2, <2>5, <2>8, <4>1, <5>1, <5>2
      <4>3. CASE t # t0
        BY <2>6, <3>2, <4>1, <4>3
      <4> QED
        BY <4>2, <4>3
    <3> QED
      BY <3>1, <3>2 DEF Files
  <2>11. /\ Objects'
         /\ \E d : call' = [call EXCEPT ![p] = d] /\ d.pc = "done" /\ d.op = c.op /\ d.val = "ok"
    <3>1. PICK s : s = [stream[c.obj] EXCEPT !.max = c.seq]
      OBVIOUS
    <3>2. s \in StreamRecs
      BY <1>3, <1>4, <3>1 DEF StreamRecs
    <3>3. [stream EXCEPT ![c.obj].max = c.seq] = [stream EXCEPT ![c.obj] = s]
      BY <1>3, <1>4, <3>1
    <3>4. \A t \in Topics : \A k \in DOMAIN file'[t] : file'[t][k].seq \in Nat
      <4> TAKE t \in Topics
      <4> TAKE k \in DOMAIN file'[t]
      <4>1. \A l \in DOMAIN file[t] : file[t][l].seq \in Nat
        BY <1>4 DEF Objects
      <4>2. CASE t = t0
        <5>1. file'[t] = g /\ file[t] = f
          BY <2>1, <2>6, <4>2
        <5> QED
          BY <2>2, <2>5, <4>1, <5>1
      <4>3. CASE t # t0
        BY <2>6, <4>1, <4>3
      <4> QED
        BY <4>2, <4>3
    <3> QED
      <4>1. Finish(p, "ok", [stream EXCEPT ![call[p].obj] = s], cached)
        BY <1>1, <1>6, <3>3
      <4>2. call[p].pc \in {"made", "held", "write"} /\ Objects
        BY <1>1, <1>2, <1>4
      <4>3. Objects'
        BY <3>2, <3>4, <4>1, <4>2, FinishObjects
      <4>4. \E d : call' = [call EXCEPT ![p] = d] /\ d.pc = "done" /\ d.op = call[p].op /\ d.val = "ok"
        BY <3>2, <3>4, <4>1, <4>2, FinishObjects
      <4> QED
        BY <1>1, <4>3, <4>4
  <2>12. PICK d : call' = [call EXCEPT ![p] = d] /\ d.pc = "done" /\ d.op = c.op /\ d.val = "ok"
    BY <2>11
  <2>13. Written(d)
    BY <1>2, <2>12 DEF Written
  <2>14. \A q \in Procs : call'[q] = IF q = p THEN d ELSE call[q]
    BY <2>12 DEF MsgInv, Calls
  <2>15. ASSUME NEW q \in Procs
         PROVE  Handled(job[q], call[q])'
    <3>1. PICK k, e, e0 : k = job[q] /\ e = call'[q] /\ e0 = call[q]
      OBVIOUS
    <3>2. Handled(k, e0) /\ k \in JobRecs /\ Holds(k) \subseteq DOMAIN msg /\ Shape(q, k)
      BY <3>1 DEF ItemInv, MsgInv, Types, Custody, Shapes
    <3>3. /\ \A n \in DOMAIN k.items : k.items[n] \in ToSet(k.items)
          /\ ToSet(k.items) \subseteq ToSet(k.msgs) /\ ToSet(k.msgs) \subseteq Holds(k)
          /\ \A r \in ToSet(k.acks) : r.id \in Holds(k)
      BY <3>2 DEF ToSet, Shape, Holds, AckIds
    <3>4. \A l \in ToSet(k.msgs) : StreamIng(msg[l]) => l \in ToSet(k.items) \/ Filed(l)'
      BY <2>9, <3>2, <3>3 DEF Handled
    <3>5. \A r \in ToSet(k.acks) : r.reason = "Success" /\ StreamIng(msg[r.id]) => Filed(r.id)'
      <4> TAKE r \in ToSet(k.acks)
      <4>1. PICK l : l = r.id
        OBVIOUS
      <4>2. Filed(l) => Filed(l)'
        BY <2>9, <3>2, <3>3, <4>1
      <4>3. r.reason = "Success" /\ StreamIng(msg[r.id]) => Filed(r.id)
        BY <3>2 DEF Handled
      <4> QED
        BY <4>1, <4>2, <4>3
    <3>6. \A n \in DOMAIN k.items : Filed(k.items[n])' <=> n = 1 /\ Written(e)
      <4> TAKE n \in DOMAIN k.items
      <4>1. PICK l : l = k.items[n]
        OBVIOUS
      <4>2. l \in DOMAIN msg /\ l \in Holds(k)
        BY <3>2, <3>3, <4>1
      <4>3. Filed(l)' <=> Filed(l) \/ l = i
        BY <2>9, <4>2
      <4>4. Filed(l) <=> n = 1 /\ Written(e0)
        BY <3>2, <4>1 DEF Handled
      <4>5. CASE q = p
        <5>1. k = j /\ e0 = c /\ e = d
          BY <1>1, <2>14, <3>1, <4>5
        <5>2. IsInjective(k.items)
          BY <3>2 DEF Handled
        <5>3. l = i <=> n = 1
          BY <1>3, <2>1, <4>1, <5>1, <5>2 DEF IsInjective
        <5> QED
          BY <1>3, <2>13, <4>1, <4>3, <4>4, <5>1, <5>3
      <4>6. CASE q # p
        <5>1. e = e0
          BY <2>14, <3>1, <4>6
        <5>2. Holds(k) \cap Holds(j) = {}
          BY <1>1, <3>1, <4>6 DEF MsgInv, Custody
        <5>3. l # i
          BY <1>3, <2>1, <4>2, <5>2
        <5> QED
          BY <4>1, <4>3, <4>4, <5>1, <5>3
      <4> QED
        BY <4>5, <4>6
    <3>7. /\ e.pc # "none" => \/ k.pc = "store" /\ k.items # <<>> /\ e.op = "append"
                              \/ k.pc \in {"meta", "end"} /\ e.op # "append"
          /\ e.op = "append" /\ e.pc \in {"made", "held", "write"} => e.topic = StreamTopic(msg[e.item])
      <4>1. CASE q = p
        <5>1. k = j /\ e = d
          BY <1>1, <2>14, <3>1, <4>1
        <5> QED
          BY <1>2, <1>3, <2>12, <5>1
      <4>2. CASE q # p
        <5>1. e = e0
          BY <2>14, <3>1, <4>2
        <5> QED
          BY <3>2, <5>1 DEF Handled
      <4> QED
        BY <4>1, <4>2
    <3>8. /\ k.pc = "end" => started # None
          /\ IsInjective(k.items)
      BY <3>2 DEF Handled
    <3>9. Handled(k, e)'
      BY <3>4, <3>5, <3>6, <3>7, <3>8 DEF Handled, Written, msgVars
    <3> QED
      BY <3>1, <3>9 DEF msgVars
  <2>16. Sent'
    BY DEF ItemInv, Sent, Items, msgVars
  <2>17. \A k \in DOMAIN msg' : \A r \in ToSet(replies'[k]) :
           r.reason = "Success" /\ StreamIng(msg'[k]) => Filed(k)'
    BY <2>9 DEF ItemInv, msgVars
  <2> QED
    BY <2>10, <2>11, <2>15, <2>16, <2>17 DEF ItemInv
<1> QED
  BY <1>1, <1>5, <1>6 DEF appendItem

-----------------------------------------------------------------------------
(* Steps of a run and items. *)

\* A run goes on, and no item is written.
LEMMA RunItems ==
  ASSUME MsgInv, MsgInv', ItemInv, MessagesStay, DOMAIN msg' = DOMAIN msg, UNCHANGED <<file, started>>,
         NEW p \in Procs, NEW j, NEW c, job' = [job EXCEPT ![p] = j], call' = [call EXCEPT ![p] = c],
         Handled(j, c), Objects',
         \A i \in DOMAIN msg' : \A r \in ToSet(replies'[i]) : \/ r \in ToSet(replies[i])
                                                              \/ r.id = i /\ r \in ToSet(job[p].acks)
                                                              \/ r.reason # "Success"
  PROVE  ItemInv'
<1>1. job'[p] = j /\ call'[p] = c
  BY ZenonT(60) DEF MsgInv, Types, Calls
<1>2. j \in JobRecs /\ Appending(c, j) /\ Holds(j) \subseteq DOMAIN msg /\ Shape(p, j)'
  BY <1>1 DEF MsgInv, Types, Calls, Custody, Shapes
<1>3. j.items \in Seq(Nat) /\ ToSet(j.items) \subseteq ToSet(j.msgs)
  BY <1>2 DEF JobRecs, Shape
<1>4. Handled(j, c)'
  BY <1>2, <1>3, HandledStays
<1>5. Sent'
  BY SentStays DEF ItemInv
<1> QED
  BY <1>4, <1>5, ItemsStay, ZenonT(60)

\* A goroutine that makes no call goes on.
LEMMA RunAlone ==
  ASSUME MsgInv, MsgInv', ItemInv, MessagesStay, DOMAIN msg' = DOMAIN msg,
         UNCHANGED <<file, started, cached, stream, call>>,
         NEW p \in Procs, NEW j, job' = [job EXCEPT ![p] = j], Handled(j, call[p]),
         \A i \in DOMAIN msg' : \A r \in ToSet(replies'[i]) : \/ r \in ToSet(replies[i])
                                                              \/ r.id = i /\ r \in ToSet(job[p].acks)
                                                              \/ r.reason # "Success"
  PROVE  ItemInv'
<1>1. PICK c : c = call[p]
  OBVIOUS
<1>2. call' = [call EXCEPT ![p] = c]
  BY <1>1 DEF MsgInv, Calls
<1>3. Objects'
  BY DEF ItemInv, Objects, Held
<1> QED
  BY <1>1, <1>2, <1>3, RunItems

\* What a goroutine has and does.
LEMMA HandledBy ==
  ASSUME MsgInv, ItemInv, NEW p \in Procs, NEW k, NEW c, k = job[p], c = call[p]
  PROVE  /\ Handled(k, c)
         /\ k \in JobRecs
         /\ k = [pc |-> k.pc, rest |-> k.rest, msgs |-> k.msgs, items |-> k.items, subs |-> k.subs,
                 seqs |-> k.seqs, acks |-> k.acks]
         /\ k.rest \in Seq(Nat) /\ k.msgs \in Seq(Nat) /\ k.items \in Seq(Nat) /\ k.acks \in Seq(AckRecs)
         /\ Shape(p, k) /\ Separate(k) /\ Holds(k) \subseteq DOMAIN msg
         /\ c.pc # "none" => k.pc \in {"store", "meta", "end"}
         /\ k.pc = "store" /\ k.items = <<>> => c.pc = "none"
<1>1. Handled(k, c)
  BY DEF ItemInv
<1>2. Settled
  BY DEF MsgInv, Settled
<1> QED
  BY <1>1, <1>2, RunOf DEF Handled

\* The messages of a run stay where they are, or are answered with an error.
LEMMA HandledOn ==
  ASSUME NEW k, NEW c, Handled(k, c), NEW d, d.pc = "none", c.pc = "none", NEW j, j.pc # "end",
         \/ j.items = k.items /\ j.msgs = k.msgs
         \/ j.items = <<>> /\ j.msgs = <<>>,
         \A r \in ToSet(j.acks) : r \in ToSet(k.acks) \/ r.reason # "Success"
  PROVE  Handled(j, d)
<1>1. ~Written(d) /\ ~Written(c)
  BY DEF Written
<1>2. \A r \in ToSet(j.acks) : r.reason = "Success" /\ StreamIng(msg[r.id]) => Filed(r.id)
  BY DEF Handled
<1>3. CASE j.items = k.items /\ j.msgs = k.msgs
  BY <1>1, <1>2, <1>3 DEF Handled
<1>4. CASE j.items = <<>> /\ j.msgs = <<>>
  <2>1. ToSet(j.msgs) = {} /\ IsInjective(j.items) /\ DOMAIN j.items = {}
    BY <1>4, Empty
  <2> QED
    BY <1>2, <2>1 DEF Handled
<1> QED
  BY <1>3, <1>4

\* Two runs of sendacks.
LEMMA Joined ==
  ASSUME NEW A, NEW a \in Seq(A), NEW b \in Seq(A), NEW r \in ToSet(a \o b)
  PROVE  r \in ToSet(a) \/ r \in ToSet(b)
<1>1. PICK c : c = a \o b
  OBVIOUS
<1>2. PICK n \in DOMAIN c : r = c[n]
  BY <1>1 DEF ToSet
<1>3. (n \in DOMAIN a /\ c[n] = a[n]) \/ (n - Len(a) \in DOMAIN b /\ c[n] = b[n - Len(a)])
  BY <1>1, <1>2
<1> QED
  BY <1>2, <1>3 DEF ToSet

\* A channel's messages are given up.
LEMMA GivenUp ==
  ASSUME MsgInv, ItemInv, NEW p \in Procs, NEW k, k = job[p], NEW ms \in Seq(MsgRecs),
         DOMAIN ms = DOMAIN msg, NEW j, j = GiveUp(k, ms)
  PROVE  /\ j.pc = "split" /\ j.items = <<>> /\ j.msgs = <<>>
         /\ \A r \in ToSet(j.acks) : r \in ToSet(k.acks) \/ r.reason # "Success"
<1>1. PICK as : as = getSendackPacket(k.msgs, ms, "SystemError")
  OBVIOUS
<1>2. /\ k.acks \in Seq(AckRecs) /\ k.msgs \in Seq(Nat) /\ ToSet(k.msgs) \subseteq DOMAIN msg
      /\ k = [pc |-> k.pc, rest |-> k.rest, msgs |-> k.msgs, items |-> k.items, subs |-> k.subs,
              seqs |-> k.seqs, acks |-> k.acks]
  <2>1. PICK c : c = call[p]
    OBVIOUS
  <2> QED
    BY <2>1, HandledBy DEF Holds
<1>3. as \in Seq(AckRecs) /\ \A r \in ToSet(as) : r.reason = "SystemError"
  <2>1. "SystemError" \in Reasons
    BY DEF Reasons
  <2>2. PICK ids : ids = k.msgs
    OBVIOUS
  <2>3. ids \in Seq(Nat) /\ ToSet(ids) \subseteq DOMAIN ms /\ as = getSendackPacket(ids, ms, "SystemError")
    BY <1>1, <1>2, <2>2
  <2>4. /\ getSendackPacket(ids, ms, "SystemError") \in Seq(AckRecs)
        /\ \A r \in ToSet(getSendackPacket(ids, ms, "SystemError")) : r.reason = "SystemError"
    BY <2>1, <2>3, NumberedSendacks
  <2> QED
    BY <2>3, <2>4
<1>4. j.pc = "split" /\ j.items = <<>> /\ j.msgs = <<>> /\ j.acks = k.acks \o as
  BY <1>1, <1>2 DEF GiveUp
<1>5. \A r \in ToSet(j.acks) : r \in ToSet(k.acks) \/ r \in ToSet(as)
  BY <1>2, <1>3, <1>4, Joined
<1> QED
  BY <1>3, <1>4, <1>5

\* All is answered.
LEMMA ResponseItems ==
  ASSUME MsgInv, MsgInv', ItemInv, NEW p \in Procs, response(p)
  PROVE  ItemInv'
<1>1. PICK k, c, j : k = job[p] /\ c = call[p] /\ j = Idle
  OBVIOUS
<1>2. /\ k.pc = "split" /\ Respond(k.acks) /\ job' = [job EXCEPT ![p] = j]
      /\ UNCHANGED <<msg, file, started, cached, stream, call>>
  BY <1>1 DEF response, Goto, streamVars
<1>3. Handled(k, c) /\ k.acks \in Seq(AckRecs) /\ c.pc = "none" /\ Separate(k)
  BY <1>1, <1>2, HandledBy, ZenonT(60)
<1>4. j.pc = "idle" /\ j.items = <<>> /\ j.msgs = <<>> /\ ToSet(j.acks) = {}
  BY <1>1, Empty DEF Idle
<1>5. Handled(j, c)
  BY <1>3, <1>4, HandledOn
<1>6. MessagesStay
  BY <1>2 DEF MessagesStay
<1>7. \A i \in DOMAIN replies : \A r \in ToSet(replies'[i]) :
        r \in ToSet(replies[i]) \/ (r \in ToSet(k.acks) /\ r.id = i)
  BY <1>2, <1>3, Answers DEF Separate, MsgInv, Types
<1>8. DOMAIN replies = DOMAIN msg
  BY DEF MsgInv, Types
<1> QED
  BY <1>1, <1>2, <1>5, <1>6, <1>7, <1>8, RunAlone

\* What is filed is somewhere, and what nobody has looked at is nowhere.
LEMMA NotFiledYet ==
  ASSUME MsgInv, NEW p \in Procs, NEW i \in ToSet(job[p].rest)
  PROVE  ~Filed(i)
<1>1. i \in DOMAIN msg /\ ~Somewhere(i)
  BY DEF MsgInv, Truth, Custody, Holds
<1>2. PICK t : t = StreamTopic(msg[i])
  OBVIOUS
<1>3. t \in Topics
  BY <1>1, <1>2, TopicOf DEF MsgInv
<1>4. \A x \in ToSet(file[t]) : x.id # i
  BY <1>1, <1>3 DEF Somewhere
<1>5. \A k \in DOMAIN file[t] : file[t][k] \in ToSet(file[t])
  BY DEF ToSet
<1> QED
  BY <1>2, <1>4, <1>5 DEF Filed

\* A goroutine p takes messages that nobody has looked at, and no item is stored yet.
Accepts(p, j) ==
  /\ job[p].pc = "split" /\ j.pc # "end" /\ job' = [job EXCEPT ![p] = j]
  /\ ToSet(j.msgs) \subseteq ToSet(job[p].rest)
  /\ IsInjective(j.items) /\ ToSet(j.items) = ToSet(j.msgs) \cap Items
  /\ \A r \in ToSet(j.acks) : r \in ToSet(job[p].acks) \/ r.reason # "Success"
  /\ \A i \in DOMAIN msg : \A r \in ToSet(replies'[i]) : r \in ToSet(replies[i]) \/ r.reason # "Success"
  /\ UNCHANGED <<msg, file, started, cached, stream, call>>

LEMMA SplitItems ==
  ASSUME MsgInv, MsgInv', ItemInv, NEW p \in Procs, NEW j, Accepts(p, j)
  PROVE  ItemInv'
<1> USE DEF Accepts
<1>0. PICK k : k = job[p]
  OBVIOUS
<1>1. PICK c : c = call[p]
  OBVIOUS
<1>2. Handled(k, c) /\ c.pc = "none" /\ Holds(k) \subseteq DOMAIN msg
  BY <1>0, <1>1, HandledBy
<1>3. \A n \in DOMAIN j.items : ~Filed(j.items[n])
  <2> TAKE n \in DOMAIN j.items
  <2>1. j.items[n] \in ToSet(k.rest)
    BY <1>0 DEF ToSet
  <2> QED
    BY <1>0, <2>1, NotFiledYet
<1>4. \A i \in ToSet(j.msgs) : StreamIng(msg[i]) => i \in ToSet(j.items)
  BY <1>0, <1>2 DEF Holds, Items
<1>5. \A r \in ToSet(j.acks) : r.reason = "Success" /\ StreamIng(msg[r.id]) => Filed(r.id)
  BY <1>0, <1>2 DEF Handled
<1>6. Handled(j, c)
  BY <1>2, <1>3, <1>4, <1>5 DEF Handled, Written
<1>7. MessagesStay
  BY DEF MessagesStay
<1> QED
  BY <1>1, <1>6, <1>7, RunAlone

\* A request is accepted or refused.
LEMMA SendMessageToChannelItems ==
  ASSUME MsgInv, MsgInv', ItemInv, NEW p \in Procs, sendMessageToChannel(p)
  PROVE  ItemInv'
<1>1. PICK k, c : k = job[p] /\ c = call[p]
  OBVIOUS
<1>2. /\ k.rest \in Seq(Nat) /\ k.acks \in Seq(AckRecs) /\ k.msgs \in Seq(Nat) /\ k.items \in Seq(Nat)
      /\ k = [pc |-> k.pc, rest |-> k.rest, msgs |-> k.msgs, items |-> k.items, subs |-> k.subs,
               seqs |-> k.seqs, acks |-> k.acks]
      /\ Handled(k, c) /\ Separate(k) /\ Shape(p, k)
  BY <1>1, HandledBy
<1>3. /\ k.pc = "split" /\ k.rest # <<>>
      /\ UNCHANGED <<msg, file, replies, started, cached, stream, call>>
      /\ \/ job' = [job EXCEPT ![p] = Accepted([k EXCEPT !.rest = <<>>], k.rest)]
         \/ job' = [job EXCEPT ![p] = [[k EXCEPT !.rest = <<>>]
                     EXCEPT !.acks = getSendackPacketWithSendPacket(k.rest, "Refused")]]
  <2>1. [job[p] EXCEPT !.rest = <<>>].pc = job[p].pc
    BY <1>1, <1>2
  <2> QED
    BY <1>1, <2>1 DEF sendMessageToChannel, Goto
<1>4. \A i \in DOMAIN msg : \A r \in ToSet(replies'[i]) : r \in ToSet(replies[i])
  BY <1>3
<1>5. k.msgs = <<>> /\ ToSet(k.msgs) = {} /\ ToSet(k.items) = {} /\ IsInjective(k.items)
  BY <1>2, <1>3, Empty DEF Shape, Handled
<1>6. CASE job' = [job EXCEPT ![p] = Accepted([k EXCEPT !.rest = <<>>], k.rest)]
  <2>1. PICK j, items : j = Accepted([k EXCEPT !.rest = <<>>], k.rest) /\ items = Only(k.rest, Items)
    OBVIOUS
  <2>2. IsInjective(items) /\ ToSet(items) = ToSet(k.rest) \cap Items
    BY <1>2, <2>1, OnlyKeeps DEF Separate
  <2>3. j.pc = "store" /\ j.msgs = k.rest /\ j.items = items /\ j.acks = k.acks
    BY <1>2, <1>3, <2>1 DEF Accepted
  <2>4. job' = [job EXCEPT ![p] = j]
    BY <1>6, <2>1
  <2> QED
    <3>1. Accepts(p, j)
      BY <1>1, <1>2, <1>3, <1>4, <2>2, <2>3, <2>4 DEF Accepts
    <3> QED
      BY <3>1, SplitItems
<1>7. CASE job' = [job EXCEPT ![p] = [[k EXCEPT !.rest = <<>>]
                     EXCEPT !.acks = getSendackPacketWithSendPacket(k.rest, "Refused")]]
  <2>1. PICK as : as = getSendackPacketWithSendPacket(k.rest, "Refused")
    OBVIOUS
  <2>2. PICK j : j = [[k EXCEPT !.rest = <<>>] EXCEPT !.acks = as]
    OBVIOUS
  <2>3. j.pc = "split" /\ j.msgs = k.msgs /\ j.items = k.items /\ j.acks = as
    BY <1>2, <1>3, <2>2
  <2>4. \A r \in ToSet(as) : r.reason = "Refused"
    <3>1. "Refused" \in Reasons
      BY DEF Reasons
    <3> QED
      BY <1>2, <2>1, <3>1, Sendacks
  <2>5. job' = [job EXCEPT ![p] = j]
    BY <1>7, <2>1, <2>2
  <2> QED
    <3>1. Accepts(p, j)
      BY <1>1, <1>3, <1>4, <1>5, <2>3, <2>4, <2>5 DEF Accepts
    <3> QED
      BY <3>1, SplitItems
<1> QED
  BY <1>3, <1>6, <1>7

\* A channel of a run of packets is taken.
LEMMA ProcessChannelItems ==
  ASSUME MsgInv, MsgInv', ItemInv, NEW p \in Procs, NEW to, prcocessChannelMessages(p, to)
  PROVE  ItemInv'
<1>1. PICK k, c : k = job[p] /\ c = call[p]
  OBVIOUS
<1>2. /\ k.rest \in Seq(Nat) /\ k.acks \in Seq(AckRecs) /\ k.msgs \in Seq(Nat) /\ k.items \in Seq(Nat)
      /\ k = [pc |-> k.pc, rest |-> k.rest, msgs |-> k.msgs, items |-> k.items, subs |-> k.subs,
               seqs |-> k.seqs, acks |-> k.acks]
      /\ Handled(k, c) /\ Separate(k) /\ Shape(p, k)
  BY <1>1, HandledBy
<1>3. PICK C, O, B, G : /\ C = {i \in DOMAIN msg : msg[i].to = to}
                        /\ O = {i \in C : SyncOnce(msg[i])}
                        /\ B = {i \in C : ~SyncOnce(msg[i]) /\ ~checkAndDecodePayload(msg[i])}
                        /\ G = {i \in C : ~SyncOnce(msg[i]) /\ checkAndDecodePayload(msg[i])}
  OBVIOUS
<1>4. PICK rest, mine : rest = Only(k.rest, DOMAIN msg \ C) /\ mine = Only(k.rest, C)
  OBVIOUS
<1>5. PICK once, bad, good : once = Only(mine, O) /\ bad = Only(mine, B) /\ good = Only(mine, G)
  OBVIOUS
<1>6. /\ k.pc = "split"
      /\ UNCHANGED <<msg, started, file, cached, stream, call>>
      /\ \/ /\ job' = [job EXCEPT ![p] = [Accepted([k EXCEPT !.rest = rest], good) EXCEPT !.acks = @ \o
                                             getSendackPacketWithSendPacket(once, "NotSupportHeader")]]
            /\ Respond(getSendackPacketWithSendPacket(bad, "PayloadDecodeError"))
         \/ /\ \E reason \in {"SystemError", "Refused"} :
                  job' = [job EXCEPT ![p] = [[k EXCEPT !.rest = rest] EXCEPT !.acks = @ \o
                                              getSendackPacketWithSendPacket(mine, reason)]]
            /\ replies' = replies
  <2>1. \A s : [k EXCEPT !.rest = s].pc = k.pc
    BY <1>2
  <2> QED
    BY <1>1, <1>3, <1>4, <1>5, <2>1 DEF prcocessChannelMessages, Goto
<1>7. /\ mine \in Seq(Nat) /\ ToSet(mine) \subseteq ToSet(k.rest) /\ IsInjective(mine)
  BY <1>2, <1>4, OnlyKeeps DEF Separate
<1>8. k.msgs = <<>> /\ ToSet(k.msgs) = {} /\ ToSet(k.items) = {} /\ IsInjective(k.items)
  BY <1>2, <1>6, Empty DEF Shape, Handled
<1>9. CASE /\ job' = [job EXCEPT ![p] = [Accepted([k EXCEPT !.rest = rest], good) EXCEPT !.acks = @ \o
                                             getSendackPacketWithSendPacket(once, "NotSupportHeader")]]
           /\ Respond(getSendackPacketWithSendPacket(bad, "PayloadDecodeError"))
  <2>1. once \in Seq(Nat) /\ bad \in Seq(Nat) /\ IsInjective(bad)
    BY <1>5, <1>7, OnlyKeeps
  <2>2. good \in Seq(Nat) /\ ToSet(good) \subseteq ToSet(k.rest) /\ IsInjective(good)
    BY <1>5, <1>7, OnlyKeeps
  <2>3. PICK os, bs : /\ os = getSendackPacketWithSendPacket(once, "NotSupportHeader")
                      /\ bs = getSendackPacketWithSendPacket(bad, "PayloadDecodeError")
    OBVIOUS
  <2>4. os \in Seq(AckRecs) /\ \A r \in ToSet(os) : r.reason = "NotSupportHeader"
    <3>1. "NotSupportHeader" \in Reasons
      BY DEF Reasons
    <3> QED
      BY <2>1, <2>3, <3>1, Sendacks
  <2>5. bs \in Seq(AckRecs) /\ OncePerId(bs) /\ \A r \in ToSet(bs) : r.reason = "PayloadDecodeError"
    <3>1. "PayloadDecodeError" \in Reasons
      BY DEF Reasons
    <3> QED
      BY <2>1, <2>3, <3>1, Sendacks
  <2>6. PICK items : items = Only(good, Items)
    OBVIOUS
  <2>7. IsInjective(items) /\ ToSet(items) = ToSet(good) \cap Items
    BY <2>2, <2>6, OnlyKeeps
  <2>8. PICK j : j = [Accepted([k EXCEPT !.rest = rest], good) EXCEPT !.acks = @ \o os]
    OBVIOUS
  <2>9. j.pc # "end" /\ j.msgs = good /\ j.items = items /\ j.acks = k.acks \o os
    BY <1>2, <2>6, <2>8 DEF Accepted
  <2>10. \A r \in ToSet(j.acks) : r \in ToSet(k.acks) \/ r.reason # "Success"
    <3> TAKE r \in ToSet(j.acks)
    <3>1. r \in ToSet(k.acks) \/ r \in ToSet(os)
      BY <1>2, <2>4, <2>9, Joined
    <3> QED
      BY <2>4, <3>1
  <2>11. \A i \in DOMAIN msg : \A r \in ToSet(replies'[i]) : r \in ToSet(replies[i]) \/ r.reason # "Success"
    <3>1. replies \in Seq(Seq(AckRecs)) /\ Respond(bs) /\ DOMAIN replies = DOMAIN msg
      BY <1>9, <2>3 DEF MsgInv, Types
    <3>2. \A i \in DOMAIN replies : \A r \in ToSet(replies'[i]) : r \in ToSet(replies[i]) \/ r \in ToSet(bs)
      BY <2>5, <3>1, Answers
    <3> QED
      BY <2>5, <3>1, <3>2
  <2>12. job' = [job EXCEPT ![p] = j]
    BY <1>9, <2>3, <2>8
  <2> QED
    <3>1. Accepts(p, j)
      BY <1>1, <1>6, <2>2, <2>7, <2>9, <2>10, <2>11, <2>12 DEF Accepts
    <3> QED
      BY <3>1, SplitItems
<1>10. ASSUME NEW reason \in {"SystemError", "Refused"}, replies' = replies,
              job' = [job EXCEPT ![p] = [[k EXCEPT !.rest = rest] EXCEPT !.acks = @ \o
                                              getSendackPacketWithSendPacket(mine, reason)]]
       PROVE  ItemInv'
  <2>1. PICK ms : ms = getSendackPacketWithSendPacket(mine, reason)
    OBVIOUS
  <2>2. ms \in Seq(AckRecs) /\ \A r \in ToSet(ms) : r.reason = reason
    <3>1. reason \in Reasons
      BY DEF Reasons
    <3> QED
      BY <1>7, <2>1, <3>1, Sendacks
  <2>3. PICK j : j = [[k EXCEPT !.rest = rest] EXCEPT !.acks = @ \o ms]
    OBVIOUS
  <2>4. j.pc # "end" /\ j.msgs = k.msgs /\ j.items = k.items /\ j.acks = k.acks \o ms
    BY <1>2, <1>6, <2>3
  <2>5. \A r \in ToSet(j.acks) : r \in ToSet(k.acks) \/ r.reason # "Success"
    <3> TAKE r \in ToSet(j.acks)
    <3>1. r \in ToSet(k.acks) \/ r \in ToSet(ms)
      BY <1>2, <2>2, <2>4, Joined
    <3> QED
      BY <2>2, <3>1
  <2>6. job' = [job EXCEPT ![p] = j]
    BY <1>10, <2>1, <2>3
  <2>7. \A i \in DOMAIN msg : \A r \in ToSet(replies'[i]) : r \in ToSet(replies[i])
    BY <1>10
  <2> QED
    <3>1. Accepts(p, j)
      BY <1>1, <1>6, <1>8, <2>4, <2>5, <2>6, <2>7 DEF Accepts
    <3> QED
      BY <3>1, SplitItems
<1> QED
  BY <1>6, <1>9, <1>10

\* Items of a run get on, to the next or to the end.
LEMMA AppendStreamItemItems ==
  ASSUME MsgInv, MsgInv', ItemInv, NEW p \in Procs, AppendStreamItem(p)
  PROVE  ItemInv'
<1>1. PICK k, c : k = job[p] /\ c = call[p]
  OBVIOUS
<1>2. /\ k.items \in Seq(Nat) /\ k.msgs \in Seq(Nat) /\ Handled(k, c) /\ Shape(p, k) /\ Holds(k) \subseteq DOMAIN msg
      /\ k = [pc |-> k.pc, rest |-> k.rest, msgs |-> k.msgs, items |-> k.items, subs |-> k.subs,
               seqs |-> k.seqs, acks |-> k.acks]
  BY <1>1, HandledBy
<1>3. k.pc = "store" /\ k.items # <<>> /\ UNCHANGED <<msg, replies, started, delivered, log, queue, notify>>
  BY <1>1 DEF AppendStreamItem
<1>4. PICK s : s = k.items
  OBVIOUS
<1>5. /\ s \in Seq(Nat) /\ s # <<>> /\ 1 \in DOMAIN s /\ Head(s) = s[1] /\ s[1] \in ToSet(s)
      /\ s[1] \in DOMAIN msg
  <2>1. s \in Seq(Nat) /\ s # <<>> /\ 1 \in DOMAIN s /\ Head(s) = s[1]
    BY <1>2, <1>3, <1>4
  <2>2. s[1] \in ToSet(s)
    BY <2>1 DEF ToSet
  <2> QED
    BY <1>2, <1>4, <2>1, <2>2 DEF Shape, Holds
<1>6. CASE c.pc = "none"
  <2>1. PICK i, t : i = s[1] /\ t = StreamTopic(msg[i])
    OBVIOUS
  <2>2. getStream(p, "append", t, i, "none") /\ job' = job
    BY <1>1, <1>4, <1>5, <1>6, <2>1 DEF AppendStreamItem
  <2>3. t \in Topics
    BY <1>5, <2>1, TopicOf DEF MsgInv
  <2>4. /\ Objects'
        /\ \E d : /\ call' = [call EXCEPT ![p] = d] /\ d.op = "append" /\ d.pc \in {"made", "held"}
                  /\ d.topic = t /\ d.item = i
    BY <2>2, <2>3, ObjectsGet DEF ItemInv
  <2>5. PICK d : /\ call' = [call EXCEPT ![p] = d] /\ d.op = "append" /\ d.pc \in {"made", "held"}
                 /\ d.topic = t /\ d.item = i
    BY <2>4
  <2>6. Handled(k, d)
    BY <1>2, <1>3, <1>6, <2>1, <2>5 DEF Handled, Written
  <2>7. UNCHANGED <<msgVars, file>>
    BY <1>3, <2>2 DEF getStream, msgVars
  <2> QED
    BY <1>1, <2>4, <2>5, <2>6, <2>7, CallKeepsItems
<1>7. CASE c.pc # "none"
  <2>1. PICK j, d : j = (IF c.val = "ok" THEN [k EXCEPT !.items = Tail(@)] ELSE GiveUp(k, msg)) /\ d = NoCall
    OBVIOUS
  <2>2. /\ c.pc = "done" /\ c.op = "append" /\ job' = [job EXCEPT ![p] = j] /\ call' = [call EXCEPT ![p] = d]
        /\ UNCHANGED <<file, cached, stream>>
    <3>1. c.op = "append"
      BY <1>2, <1>3, <1>7 DEF Handled
    <3> QED
      BY <1>1, <1>7, <2>1, <3>1 DEF AppendStreamItem, Goto
  <2>3. d.pc = "none"
    BY <2>1 DEF NoCall
  <2>4. Objects'
    BY <2>1, <2>2, ObjectsForget DEF ItemInv
  <2>5. \A n \in DOMAIN s : Filed(s[n]) <=> n = 1 /\ c.val = "ok"
    BY <1>2, <1>4, <2>2 DEF Handled, Written
  <2>6. /\ IsInjective(s) /\ \A r \in ToSet(k.acks) : r.reason = "Success" /\ StreamIng(msg[r.id]) => Filed(r.id)
        /\ \A i \in ToSet(k.msgs) : StreamIng(msg[i]) => i \in ToSet(s) \/ Filed(i)
    BY <1>2, <1>4 DEF Handled
  <2>7. Handled(j, d)
    <3>1. CASE c.val = "ok"
      <4>1. PICK u : u = Tail(s)
        OBVIOUS
      <4>2. /\ \A n \in DOMAIN u : n + 1 \in DOMAIN s /\ u[n] = s[n + 1] /\ n \in Nat /\ n # 0
            /\ \A n \in DOMAIN s : n = 1 \/ (n - 1 \in DOMAIN u /\ u[n - 1] = s[n])
        BY <1>5, <4>1, SMTT(30)
      <4>3. j.pc = "store" /\ j.msgs = k.msgs /\ j.acks = k.acks /\ j.items = u
        BY <1>2, <1>3, <1>4, <2>1, <3>1, <4>1
      <4>4. IsInjective(u)
        BY <2>6, <4>2 DEF IsInjective
      <4>5. \A n \in DOMAIN u : ~Filed(u[n])
        <5> TAKE n \in DOMAIN u
        <5>1. n + 1 \in DOMAIN s /\ u[n] = s[n + 1] /\ n + 1 # 1
          BY <4>2
        <5> QED
          BY <2>5, <5>1
      <4>6. \A i \in ToSet(s) : i \in ToSet(u) \/ Filed(i)
        <5> TAKE i \in ToSet(s)
        <5>1. PICK n \in DOMAIN s : i = s[n]
          BY DEF ToSet
        <5>2. CASE n = 1
          BY <2>5, <3>1, <5>1, <5>2
        <5>3. CASE n # 1
          BY <4>2, <5>1, <5>3 DEF ToSet
        <5> QED
          BY <5>2, <5>3
      <4>7. ~Written(d)
        BY <2>3 DEF Written
      <4> QED
        BY <2>3, <2>6, <4>3, <4>4, <4>5, <4>6, <4>7 DEF Handled
    <3>2. CASE c.val # "ok"
      <4>1. j = GiveUp(k, msg) /\ msg \in Seq(MsgRecs)
        BY <2>1, <3>2 DEF MsgInv, Types
      <4>2. /\ j.pc = "split" /\ j.items = <<>> /\ j.msgs = <<>>
            /\ \A r \in ToSet(j.acks) : r \in ToSet(k.acks) \/ r.reason # "Success"
        BY <1>1, <4>1, GivenUp
      <4>3. ToSet(j.msgs) = {} /\ IsInjective(j.items) /\ DOMAIN j.items = {}
        BY <4>2, Empty
      <4> QED
        BY <2>3, <2>6, <4>2, <4>3 DEF Handled
    <3> QED
      BY <3>1, <3>2
  <2>8. MessagesStay
    BY <1>3 DEF MessagesStay
  <2>9. \A i \in DOMAIN msg' : \A r \in ToSet(replies'[i]) : r \in ToSet(replies[i])
    BY <1>3
  <2> QED
    BY <1>3, <2>2, <2>4, <2>7, <2>8, <2>9, RunItems
<1> QED
  BY <1>6, <1>7

\* The messages of a run go on to the next step, or are given up.
KeepsOn(p, j) ==
  /\ job' = [job EXCEPT ![p] = j]
  /\ job[p].pc \in {"notify", "put"} \/ (job[p].pc = "store" /\ job[p].items = <<>>)
  /\ \/ j.items = job[p].items /\ j.msgs = job[p].msgs /\ j.acks = job[p].acks /\ j.pc # "end"
     \/ j = GiveUp(job[p], msg')
  /\ UNCHANGED <<replies, started, file, cached, stream, call>>

LEMMA KeepsOnItems ==
  ASSUME MsgInv, MsgInv', ItemInv, MessagesStay, DOMAIN msg' = DOMAIN msg, NEW p \in Procs, NEW j, KeepsOn(p, j)
  PROVE  ItemInv'
<1>1. PICK k, c : k = job[p] /\ c = call[p]
  OBVIOUS
<1>2. Handled(k, c) /\ c.pc = "none"
  BY <1>1, HandledBy DEF KeepsOn
<1>3. Handled(j, c)
  <2>1. CASE j.items = k.items /\ j.msgs = k.msgs /\ j.acks = k.acks /\ j.pc # "end"
    BY <1>2, <2>1, HandledOn
  <2>2. CASE j = GiveUp(k, msg')
    <3>1. PICK ms : ms = msg'
      OBVIOUS
    <3>2. ms \in Seq(MsgRecs) /\ DOMAIN ms = DOMAIN msg /\ j = GiveUp(k, ms)
      BY <2>2, <3>1 DEF MsgInv, Types
    <3>3. /\ j.pc = "split" /\ j.items = <<>> /\ j.msgs = <<>>
          /\ \A r \in ToSet(j.acks) : r \in ToSet(k.acks) \/ r.reason # "Success"
      BY <1>1, <3>2, GivenUp
    <3> QED
      BY <1>2, <3>3, HandledOn
  <2> QED
    BY <1>1, <2>1, <2>2 DEF KeepsOn
<1>4. \A i \in DOMAIN msg' : \A r \in ToSet(replies'[i]) : r \in ToSet(replies[i])
  BY DEF KeepsOn
<1> QED
  BY <1>1, <1>3, <1>4, RunAlone DEF KeepsOn

\* Messages that are no items are stored.
LEMMA StoreItems ==
  ASSUME MsgInv, MsgInv', ItemInv, NEW p \in Procs, storeChannelMessagesIfNeed(p)
  PROVE  ItemInv'
<1>1. PICK k, c : k = job[p] /\ c = call[p]
  OBVIOUS
<1>2. k = [pc |-> k.pc, rest |-> k.rest, msgs |-> k.msgs, items |-> k.items, subs |-> k.subs,
           seqs |-> k.seqs, acks |-> k.acks]
  BY <1>1, HandledBy
<1>3. PICK ids, n : /\ ids = Only(k.msgs, Stored)
                    /\ n = Len(log[FakeChannelID(msg[k.msgs[1]].from, msg[k.msgs[1]].to)])
  OBVIOUS
<1>4. PICK j : j = [k EXCEPT !.pc = "notify"]
  OBVIOUS
<1>5. /\ k.pc = "store" /\ k.items = <<>>
      /\ UNCHANGED <<replies, started, file, cached, stream, call>>
      /\ msg' = msg \/ msg' = Numbered(ids, n)
      /\ job' = [job EXCEPT ![p] = j] \/ job' = [job EXCEPT ![p] = GiveUp(k, msg')]
  BY <1>1, <1>3, <1>4 DEF storeChannelMessagesIfNeed, Goto
<1>6. MessagesStay /\ DOMAIN msg' = DOMAIN msg
  <2>1. CASE msg' = msg
    BY <2>1 DEF MessagesStay
  <2>2. CASE msg' = Numbered(ids, n)
    <3>1. DOMAIN msg' = DOMAIN msg
      BY <2>2 DEF Numbered
    <3>2. ASSUME NEW i \in DOMAIN msg
          PROVE  /\ msg'[i].from = msg[i].from /\ msg'[i].to = msg[i].to
                 /\ msg'[i].kind = msg[i].kind /\ msg'[i].api = msg[i].api
      <4>1. PICK m : m = msg[i]
        OBVIOUS
      <4>2. m \in MsgRecs
        BY <4>1 DEF MsgInv, Types
      <4>3. \E s : msg'[i] = [m EXCEPT !.seq = s]
        BY <2>2, <4>1 DEF Numbered
      <4>4. \A s : /\ [m EXCEPT !.seq = s].from = m.from /\ [m EXCEPT !.seq = s].to = m.to
                   /\ [m EXCEPT !.seq = s].kind = m.kind /\ [m EXCEPT !.seq = s].api = m.api
        BY <4>2 DEF MsgRecs
      <4> QED
        BY <4>1, <4>3, <4>4
    <3> QED
      BY <3>1, <3>2 DEF MessagesStay
  <2> QED
    BY <1>5, <2>1, <2>2
<1>7. CASE job' = [job EXCEPT ![p] = j]
  <2>1. KeepsOn(p, j)
    BY <1>1, <1>2, <1>4, <1>5, <1>7 DEF KeepsOn
  <2> QED
    BY <1>6, <2>1, KeepsOnItems
<1>8. CASE job' = [job EXCEPT ![p] = GiveUp(k, msg')]
  <2>1. PICK g : g = GiveUp(k, msg')
    OBVIOUS
  <2>2. KeepsOn(p, g)
    BY <1>1, <1>5, <1>8, <2>1 DEF KeepsOn
  <2> QED
    BY <1>6, <2>2, KeepsOnItems
<1> QED
  BY <1>5, <1>7, <1>8

\* Messages go into the webhook's queue,
LEMMA NotifyItems ==
  ASSUME MsgInv, MsgInv', ItemInv, NEW p \in Procs, storeChannelMessagesToNotifyQueue(p)
  PROVE  ItemInv'
<1>1. PICK k, c : k = job[p] /\ c = call[p]
  OBVIOUS
<1>2. k = [pc |-> k.pc, rest |-> k.rest, msgs |-> k.msgs, items |-> k.items, subs |-> k.subs,
           seqs |-> k.seqs, acks |-> k.acks]
  BY <1>1, HandledBy
<1>3. PICK j : j = [k EXCEPT !.pc = "put", !.subs = Subscribers(msg[k.msgs[1]])]
  OBVIOUS
<1>4. PICK g : g = GiveUp(k, msg)
  OBVIOUS
<1>5. /\ k.pc = "notify" /\ UNCHANGED <<msg, replies, started, file, cached, stream, call>>
      /\ job' = [job EXCEPT ![p] = j] \/ job' = [job EXCEPT ![p] = g]
  BY <1>1, <1>3, <1>4 DEF storeChannelMessagesToNotifyQueue, Goto
<1>6. MessagesStay /\ DOMAIN msg' = DOMAIN msg
  BY <1>5 DEF MessagesStay
<1>7. CASE job' = [job EXCEPT ![p] = j]
  <2>1. KeepsOn(p, j)
    BY <1>1, <1>2, <1>3, <1>5, <1>7 DEF KeepsOn
  <2> QED
    BY <1>6, <2>1, KeepsOnItems
<1>8. CASE job' = [job EXCEPT ![p] = g]
  <2>1. g = GiveUp(job[p], msg')
    BY <1>1, <1>4, <1>5
  <2>2. KeepsOn(p, g)
    BY <1>1, <1>5, <1>8, <2>1 DEF KeepsOn
  <2> QED
    BY <1>6, <2>2, KeepsOnItems
<1> QED
  BY <1>5, <1>7, <1>8

\* and into those of their recipients.
LEMMA PutItems ==
  ASSUME MsgInv, MsgInv', ItemInv, NEW p \in Procs, NEW u \in Users, storeMessageToUserQueueIfNeed(p, u)
  PROVE  ItemInv'
<1>1. PICK k, c : k = job[p] /\ c = call[p]
  OBVIOUS
<1>2. k = [pc |-> k.pc, rest |-> k.rest, msgs |-> k.msgs, items |-> k.items, subs |-> k.subs,
           seqs |-> k.seqs, acks |-> k.acks]
  BY <1>1, HandledBy
<1>3. PICK new : new = {<<u, Only(job[p].msgs, Queued)[l], Len(queue[u]) + l>> :
                        l \in DOMAIN Only(job[p].msgs, Queued)}
  OBVIOUS
<1>4. PICK j : j = [k EXCEPT !.subs = @ \ {u}, !.seqs = @ \cup new]
  OBVIOUS
<1>5. PICK g : g = GiveUp(k, msg)
  OBVIOUS
<1>6. /\ k.pc = "put" /\ UNCHANGED <<msg, replies, started, file, cached, stream, call>>
      /\ job' = [job EXCEPT ![p] = j] \/ job' = [job EXCEPT ![p] = g]
  <2>1. LET i == job[p]
            q == Only(i.msgs, Queued)
            m == Len(queue[u])
        IN /\ i.pc = "put" /\ UNCHANGED <<msg, replies, started, file, cached, stream, call>>
           /\ \/ job' = [job EXCEPT ![p] = [i EXCEPT !.subs = @ \ {u},
                                        !.seqs = @ \cup {<<u, q[l], m + l>> : l \in DOMAIN q}]]
              \/ job' = [job EXCEPT ![p] = GiveUp(i, msg)]
    BY DEF storeMessageToUserQueueIfNeed, Goto
  <2> QED
    BY <1>1, <1>3, <1>4, <1>5, <2>1
<1>7. MessagesStay /\ DOMAIN msg' = DOMAIN msg
  BY <1>6 DEF MessagesStay
<1>8. CASE job' = [job EXCEPT ![p] = j]
  <2>1. j.items = k.items /\ j.msgs = k.msgs /\ j.acks = k.acks /\ j.pc = "put"
    BY <1>2, <1>4, <1>6
  <2>2. KeepsOn(p, j)
    BY <1>1, <1>6, <1>8, <2>1 DEF KeepsOn
  <2> QED
    BY <1>7, <2>2, KeepsOnItems
<1>9. CASE job' = [job EXCEPT ![p] = g]
  <2>1. g = GiveUp(job[p], msg')
    BY <1>1, <1>5, <1>6
  <2>2. KeepsOn(p, g)
    BY <1>1, <1>6, <1>9, <2>1 DEF KeepsOn
  <2> QED
    BY <1>7, <2>2, KeepsOnItems
<1> QED
  BY <1>6, <1>8, <1>9

\* Messages are delivered: the items among them are filed.
LEMMA DeliveryItems ==
  ASSUME MsgInv, MsgInv', ItemInv, NEW p \in Procs, deliveryMessages(p)
  PROVE  ItemInv'
<1>1. PICK k, c : k = job[p] /\ c = call[p]
  OBVIOUS
<1>2. PICK ss : ss = getSendackPacket(k.msgs, msg, "Success")
  OBVIOUS
<1>3. PICK pc : pc = IF msg[k.msgs[1]].kind = "start" THEN "meta" ELSE "split"
  OBVIOUS
<1>4. PICK j : j = [k EXCEPT !.pc = pc, !.msgs = <<>>, !.subs = {}, !.seqs = {}, !.acks = @ \o ss]
  OBVIOUS
<1>5. /\ k.pc = "put" /\ UNCHANGED <<msg, replies, started, file, cached, stream, call>>
      /\ job' = [job EXCEPT ![p] = j]
  BY <1>1, <1>2, <1>3, <1>4 DEF deliveryMessages, Goto, streamVars
<1>6. /\ Handled(k, c) /\ c.pc = "none" /\ k.msgs \in Seq(Nat) /\ k.acks \in Seq(AckRecs)
      /\ Holds(k) \subseteq DOMAIN msg /\ Shape(p, k)
      /\ k = [pc |-> k.pc, rest |-> k.rest, msgs |-> k.msgs, items |-> k.items, subs |-> k.subs,
           seqs |-> k.seqs, acks |-> k.acks]
  BY <1>1, <1>5, HandledBy
<1>7. k.items = <<>> /\ ToSet(k.items) = {}
  BY <1>5, <1>6, Empty DEF Shape
<1>8. /\ ss \in Seq(AckRecs)
      /\ {r.id : r \in ToSet(ss)} = ToSet(k.msgs)
  <2>1. PICK ms, ids : ms = msg /\ ids = k.msgs
    OBVIOUS
  <2>2. ms \in Seq(MsgRecs) /\ ids \in Seq(Nat) /\ ToSet(ids) \subseteq DOMAIN ms
    BY <1>6, <2>1 DEF MsgInv, Types, Holds
  <2>3. "Success" \in Reasons
    BY DEF Reasons
  <2>4. /\ getSendackPacket(ids, ms, "Success") \in Seq(AckRecs)
        /\ {r.id : r \in ToSet(getSendackPacket(ids, ms, "Success"))} = ToSet(ids)
    BY <2>2, <2>3, NumberedSendacks
  <2> QED
    BY <1>2, <2>1, <2>4
<1>9. pc \in {"meta", "split"}
  BY <1>3
<1>10. j.pc # "end" /\ j.items = <<>> /\ j.msgs = <<>> /\ j.acks = k.acks \o ss
  BY <1>4, <1>6, <1>7, <1>9
<1>11. \A r \in ToSet(j.acks) : r.reason = "Success" /\ StreamIng(msg[r.id]) => Filed(r.id)
  <2> SUFFICES ASSUME NEW r \in ToSet(j.acks), r.reason = "Success", StreamIng(msg[r.id]) PROVE Filed(r.id)
    OBVIOUS
  <2>1. r \in ToSet(k.acks) \/ r \in ToSet(ss)
    BY <1>6, <1>8, <1>10, Joined
  <2>2. CASE r \in ToSet(k.acks)
    BY <1>6, <2>2 DEF Handled
  <2>3. CASE r \in ToSet(ss)
    <3>1. r.id \in ToSet(k.msgs)
      BY <1>8, <2>3
    <3> QED
      BY <1>6, <1>7, <3>1 DEF Handled
  <2> QED
    BY <2>1, <2>2, <2>3
<1>12. Handled(j, c)
  <2>1. ToSet(j.msgs) = {} /\ IsInjective(j.items) /\ DOMAIN j.items = {}
    BY <1>10, Empty
  <2> QED
    BY <1>6, <1>10, <1>11, <2>1 DEF Handled
<1>13. MessagesStay
  BY <1>5 DEF MessagesStay
<1>14. \A i \in DOMAIN msg' : \A r \in ToSet(replies'[i]) : r \in ToSet(replies[i])
  BY <1>5
<1> QED
  BY <1>1, <1>5, <1>12, <1>13, <1>14, RunAlone

\* The meta data of a stream is read or written, by a call that is not about items.
LEMMA OtherCall ==
  ASSUME MsgInv, ItemInv, NEW p \in Procs, job[p].pc \in {"meta", "end"}, started # None,
         NEW op, op # "append", NEW val, getStream(p, op, <<msg[started].to>>, 0, val), UNCHANGED msgVars
  PROVE  ItemInv'
<1>1. PICK k, c, t : k = job[p] /\ c = call[p] /\ t = <<msg[started].to>>
  OBVIOUS
<1>2. Handled(k, c) /\ Shape(p, k)
  BY <1>1, HandledBy
<1>3. t \in Topics
  <2>1. started \in DOMAIN msg
    BY DEF MsgInv, Shapes
  <2> QED
    BY <1>1, <2>1, TopicOf DEF MsgInv
<1>4. getStream(p, op, t, 0, val)
  BY <1>1
<1>5. /\ Objects'
      /\ \E d : /\ call' = [call EXCEPT ![p] = d] /\ d.op = op /\ d.pc \in {"made", "held"}
                /\ d.topic = t /\ d.item = 0
  <2>1. PICK item : item = 0
    OBVIOUS
  <2>2. getStream(p, op, t, item, val)
    BY <1>4, <2>1
  <2> QED
    BY <1>3, <2>1, <2>2, ObjectsGet DEF ItemInv
<1>6. PICK d : call' = [call EXCEPT ![p] = d] /\ d.op = op
  BY <1>5
<1>7. k.msgs = <<>> /\ ToSet(k.msgs) = {} /\ ToSet(k.items) = {} /\ DOMAIN k.items = {}
  <2>1. k.msgs = <<>> /\ ToSet(k.msgs) = {} /\ ToSet(k.items) = {}
    BY <1>1, <1>2, Empty DEF Shape
  <2> QED
    BY <2>1 DEF ToSet
<1>8. Handled(k, d)
  BY <1>1, <1>2, <1>6, <1>7 DEF Handled
<1>9. file' = file
  BY <1>4 DEF getStream
<1> QED
  BY <1>1, <1>5, <1>6, <1>8, <1>9, CallKeepsItems

\* Such a call is over.
LEMMA OtherCallDone ==
  ASSUME MsgInv, MsgInv', ItemInv, NEW p \in Procs, job[p].pc \in {"meta", "end"},
         NEW j, job' = [job EXCEPT ![p] = j], call' = [call EXCEPT ![p] = NoCall],
         UNCHANGED <<msg, replies, started, file, cached, stream>>,
         j.pc = "split", j.items = <<>>, j.msgs = <<>>,
         \A r \in ToSet(j.acks) : r \in ToSet(job[p].acks) \/ r.reason # "Success" \/ ~StreamIng(msg[r.id])
  PROVE  ItemInv'
<1>1. PICK k, c, d : k = job[p] /\ c = call[p] /\ d = NoCall
  OBVIOUS
<1>2. Handled(k, c)
  BY <1>1, HandledBy
<1>3. d.pc = "none" /\ call' = [call EXCEPT ![p] = d]
  BY <1>1 DEF NoCall
<1>4. Objects'
  BY ObjectsForget DEF ItemInv
<1>5. Handled(j, d)
  <2>1. ToSet(j.msgs) = {} /\ IsInjective(j.items) /\ DOMAIN j.items = {}
    BY Empty
  <2> QED
    BY <1>1, <1>2, <1>3, <2>1 DEF Handled
<1>6. MessagesStay
  BY DEF MessagesStay
<1>7. \A i \in DOMAIN msg' : \A r \in ToSet(replies'[i]) : r \in ToSet(replies[i])
  OBVIOUS
<1> QED
  BY <1>3, <1>4, <1>5, <1>6, <1>7, RunItems

\* The meta data of a new stream is saved, or its request fails after all.
LEMMA SaveStreamMetaItems ==
  ASSUME MsgInv, MsgInv', ItemInv, NEW p \in Procs, SaveStreamMeta(p)
  PROVE  ItemInv'
<1>1. PICK k, c : k = job[p] /\ c = call[p]
  OBVIOUS
<1>2. /\ k.pc = "meta" /\ UNCHANGED <<msg, replies, started, delivered, log, queue, notify>>
  BY <1>1 DEF SaveStreamMeta
<1>3. /\ Shape(p, k) /\ Holds(k) \subseteq DOMAIN msg
      /\ k = [pc |-> k.pc, rest |-> k.rest, msgs |-> k.msgs, items |-> k.items, subs |-> k.subs,
           seqs |-> k.seqs, acks |-> k.acks]
      /\ k.items \in Seq(Nat)
  BY <1>1, HandledBy
<1>4. started \in DOMAIN msg /\ k.msgs = <<>> /\ k.items = <<>>
  <2>1. AckIds(k) = {started} /\ k.msgs = <<>>
    BY <1>2, <1>3 DEF Shape
  <2>2. ToSet(k.items) = {}
    BY <1>3, <2>1, Empty DEF Shape
  <2>3. DOMAIN k.items = {}
    BY <2>2 DEF ToSet
  <2>4. k.items = <<>>
    <3>1. PICK s : s = k.items
      OBVIOUS
    <3>2. s \in Seq(Nat) /\ DOMAIN s = {}
      BY <1>3, <2>3, <3>1
    <3>3. s = <<>>
      BY <3>2
    <3> QED
      BY <3>1, <3>3
  <2> QED
    BY <1>3, <2>1, <2>4 DEF Holds
<1>5. started # None /\ started \in Nat
  BY <1>4, StreamConstants DEF MsgInv, Types
<1>6. CASE c.pc = "none"
  <2>1. getStream(p, "save", <<msg[started].to>>, 0, "start") /\ UNCHANGED msgVars
    BY <1>1, <1>2, <1>6 DEF SaveStreamMeta, msgVars
  <2> QED
    BY <1>1, <1>2, <1>5, <2>1, OtherCall
<1>7. CASE c.pc # "none"
  <2>1. PICK as : /\ as = k.acks \/ as = getSendackPacketWithSendPacket(<<started>>, "SystemError")
                  /\ job' = [job EXCEPT ![p] = [k EXCEPT !.pc = "split", !.acks = as]]
    BY <1>1, <1>7 DEF SaveStreamMeta, Goto
  <2>2. /\ call' = [call EXCEPT ![p] = NoCall] /\ UNCHANGED <<file, cached, stream>>
    BY <1>1, <1>7 DEF SaveStreamMeta
  <2>3. PICK j : j = [k EXCEPT !.pc = "split", !.acks = as]
    OBVIOUS
  <2>4. j.pc = "split" /\ j.items = <<>> /\ j.msgs = <<>> /\ j.acks = as
    BY <1>3, <1>4, <2>3
  <2>5. \A r \in ToSet(as) : r \in ToSet(k.acks) \/ r.reason # "Success"
    <3>1. CASE as = k.acks
      BY <3>1
    <3>2. CASE as = getSendackPacketWithSendPacket(<<started>>, "SystemError")
      <4>1. "SystemError" \in Reasons
        BY DEF Reasons
      <4>2. PICK ids : ids = <<started>>
        OBVIOUS
      <4>3. ids \in Seq(Nat)
        BY <1>5, <4>2
      <4> QED
        BY <3>2, <4>1, <4>2, <4>3, Sendacks
    <3> QED
      BY <2>1, <3>1, <3>2
  <2> QED
    BY <1>1, <1>2, <2>1, <2>2, <2>3, <2>4, <2>5, OtherCallDone
<1> QED
  BY <1>6, <1>7

\* A stream ends: what is answered is no item.
LEMMA StreamMessageEndItems ==
  ASSUME MsgInv, MsgInv', ItemInv, NEW p \in Procs, streamMessageEnd(p)
  PROVE  ItemInv'
<1>1. PICK k, c : k = job[p] /\ c = call[p]
  OBVIOUS
<1>2. /\ k.pc = "end" /\ UNCHANGED <<msg, replies, started, delivered, log, queue, notify>>
  BY <1>1 DEF streamMessageEnd
<1>3. Handled(k, c) /\ Shape(p, k) /\ k.rest \in Seq(Nat) /\ Holds(k) \subseteq DOMAIN msg
  BY <1>1, HandledBy
<1>4. started # None
  BY <1>2, <1>3 DEF Handled
<1>5. ASSUME NEW op \in {"read", "save"}, NEW val, getStream(p, op, <<msg[started].to>>, 0, val), job' = job
      PROVE  ItemInv'
  <2>1. UNCHANGED msgVars
    BY <1>2, <1>5 DEF msgVars
  <2> QED
    BY <1>1, <1>2, <1>4, <1>5, <2>1, OtherCall
<1>6. ASSUME call' = [call EXCEPT ![p] = NoCall], UNCHANGED <<file, cached, stream>>,
             NEW reason \in {"Success", "SystemError"},
             job' = [job EXCEPT ![p] = [Idle EXCEPT !.pc = "split",
                       !.acks = getSendackPacketWithSendPacket(k.rest, reason)]]
      PROVE  ItemInv'
  <2>1. PICK as : as = getSendackPacketWithSendPacket(k.rest, reason)
    OBVIOUS
  <2>2. PICK j : j = [Idle EXCEPT !.pc = "split", !.acks = as]
    OBVIOUS
  <2>3. j.pc = "split" /\ j.items = <<>> /\ j.msgs = <<>> /\ j.acks = as
    BY <2>2 DEF Idle
  <2>4. {r.id : r \in ToSet(as)} = ToSet(k.rest)
    <3>1. reason \in Reasons
      BY DEF Reasons
    <3> QED
      BY <1>3, <2>1, <3>1, Sendacks
  <2>5. \A r \in ToSet(as) : ~StreamIng(msg[r.id])
    <3> TAKE r \in ToSet(as)
    <3>1. r.id \in ToSet(k.rest)
      BY <2>4
    <3>2. msg[r.id].kind = "end"
      BY <1>2, <1>3, <3>1 DEF Shape
    <3> QED
      BY <3>2 DEF StreamIng
  <2>6. job' = [job EXCEPT ![p] = j]
    BY <1>6, <2>1, <2>2
  <2> QED
    BY <1>1, <1>2, <1>6, <2>3, <2>5, <2>6, OtherCallDone
<1>7. \/ getStream(p, "read", <<msg[started].to>>, 0, "none") /\ job' = job
      \/ getStream(p, "save", <<msg[started].to>>, 0, "end") /\ job' = job
      \/ /\ call' = [call EXCEPT ![p] = NoCall] /\ UNCHANGED <<file, cached, stream>>
         /\ \E reason \in {"Success", "SystemError"} :
              job' = [job EXCEPT ![p] = [Idle EXCEPT !.pc = "split",
                        !.acks = getSendackPacketWithSendPacket(k.rest, reason)]]
  BY <1>1 DEF streamMessageEnd, Goto
<1> QED
  BY <1>5, <1>6, <1>7

\* Messages come: items only to the channel of the stream that was started.
LEMMA ReceiveItems ==
  ASSUME MsgInv, MsgInv', ItemInv, NEW p \in Procs, job[p].pc = "idle",
         NEW ms \in Seq(MsgRecs), NEW pc, Receive(p, ms, pc),
         started' = started \/ started = None,
         pc = "end" => \E k \in DOMAIN ms : ms[k].kind = "end"
  PROVE  ItemInv'
<1>1. /\ \A k \in DOMAIN ms : Sendable(ms[k].from, ms[k].to, ms[k].kind)
      /\ msg' = msg \o ms
      /\ replies' = replies \o [k \in DOMAIN ms |-> <<>>]
      /\ job' = [job EXCEPT ![p] = [Idle EXCEPT !.pc = pc, !.rest = [k \in DOMAIN ms |-> Len(msg) + k]]]
      /\ UNCHANGED <<file, call, cached, stream>>
  BY DEF Receive, streamVars
<1>2. PICK j, c : /\ j = [Idle EXCEPT !.pc = pc, !.rest = [k \in DOMAIN ms |-> Len(msg) + k]]
                  /\ c = call[p]
  OBVIOUS
<1>3. j.pc = pc /\ j.items = <<>> /\ j.msgs = <<>> /\ j.acks = <<>>
  BY <1>2 DEF Idle
<1>4. c.pc = "none"
  <2>1. PICK k : k = job[p]
    OBVIOUS
  <2> QED
    BY <1>2, <2>1, HandledBy
<1>5. msg \in Seq(MsgRecs) /\ DOMAIN msg = 1 .. Len(msg) /\ Len(msg) \in Nat
      /\ Len(replies) = Len(msg) /\ replies \in Seq(Seq(AckRecs))
  BY DEF MsgInv, Types
<1>6. /\ \A i \in DOMAIN msg : i \in DOMAIN msg' /\ msg'[i] = msg[i]
      /\ \A i \in DOMAIN msg' : i \in DOMAIN msg \/ (i - Len(msg) \in DOMAIN ms /\ msg'[i] = ms[i - Len(msg)])
  BY <1>1, <1>5
<1>7. MessagesStay
  BY <1>6 DEF MessagesStay
<1>8. \A k \in DOMAIN ms : ms[k].kind \in {"ing", "end"} => started # None
  BY <1>1 DEF Sendable
<1>9. Sent'
  <2>1. ASSUME NEW i \in DOMAIN msg', StreamIng(msg'[i])
        PROVE  /\ started' # None
               /\ FakeChannelID(msg'[i].from, msg'[i].to) = FakeChannelID(msg'[started'].from, msg'[started'].to)
    <3>1. /\ started # None
          /\ FakeChannelID(msg'[i].from, msg'[i].to) = FakeChannelID(msg[started].from, msg[started].to)
      <4>1. CASE i \in DOMAIN msg
        <5>1. i \in Items /\ msg'[i] = msg[i]
          BY <1>6, <2>1, <4>1 DEF Items
        <5> QED
          BY <5>1 DEF ItemInv, Sent
      <4>2. CASE i \notin DOMAIN msg
        <5>1. PICK k \in DOMAIN ms : msg'[i] = ms[k]
          BY <1>6, <4>2
        <5>2. ms[k].kind = "ing"
          BY <2>1, <5>1 DEF StreamIng
        <5>3. Sendable(ms[k].from, ms[k].to, ms[k].kind)
          BY <1>1
        <5> QED
          BY <5>1, <5>2, <5>3 DEF Sendable
      <4> QED
        BY <4>1, <4>2
    <3>2. started \in DOMAIN msg /\ started' = started
      BY <3>1 DEF MsgInv, Shapes
    <3>3. msg'[started] = msg[started]
      BY <1>6, <3>2
    <3> QED
      BY <3>1, <3>2, <3>3
  <2> QED
    BY <2>1 DEF Sent, Items
<1>10. Handled(j, c)'
  <2>1. ToSet(j.msgs) = {} /\ ToSet(j.acks) = {} /\ IsInjective(j.items) /\ DOMAIN j.items = {}
    BY <1>3, Empty
  <2>2. j.pc = "end" => started' # None
    BY <1>3, <1>8
  <2> QED
    BY <1>4, <2>1, <2>2 DEF Handled
<1>11. Objects'
  BY <1>1 DEF ItemInv, Objects, Held
<1>12. \A i \in DOMAIN msg' : \A r \in ToSet(replies'[i]) : i \in DOMAIN msg /\ r \in ToSet(replies[i])
  <2> TAKE i \in DOMAIN msg'
  <2>1. PICK none : none = [k \in DOMAIN ms |-> <<>>]
    OBVIOUS
  <2>2. replies' = replies \o none /\ none \in Seq({<<>>}) /\ Len(none) = Len(ms)
    <3>1. DOMAIN ms = 1 .. Len(ms) /\ Len(ms) \in Nat
      OBVIOUS
    <3>2. none = [k \in 1 .. Len(ms) |-> <<>>]
      BY <2>1, <3>1
    <3> QED
      BY <1>1, <2>1, <3>1, <3>2
  <2>3. CASE i \in DOMAIN msg
    <3>1. replies'[i] = replies[i]
      BY <1>5, <2>2, <2>3
    <3> QED
      BY <2>3, <3>1
  <2>4. CASE i \notin DOMAIN msg
    <3>1. i - Len(msg) \in DOMAIN ms /\ i \in Nat /\ i > Len(msg)
      BY <1>1, <1>5, <1>6, <2>4
    <3>2. replies'[i] = none[i - Len(msg)]
      BY <1>5, <2>2, <3>1
    <3>3. replies'[i] = <<>>
      BY <2>1, <3>1, <3>2
    <3> QED
      BY <3>3, Empty
  <2> QED
    BY <2>3, <2>4
<1>13. job' = [job EXCEPT ![p] = j] /\ call' = [call EXCEPT ![p] = c]
  BY <1>1, <1>2 DEF MsgInv, Calls
<1>14. started # None => started' # None
  OBVIOUS
<1> QED
  BY <1>1, <1>7, <1>9, <1>10, <1>11, <1>12, <1>13, <1>14, ItemsStay

\* A run of packets, or a request, comes.
LEMMA ProcessMsgsItems ==
  ASSUME MsgInv, MsgInv', ItemInv, NEW p \in Procs, NEW u \in Users, NEW n \in 1 .. MaxBatch,
         processMsgs(p, u, n)
  PROVE  ItemInv'
<1>1. PICK ms \in [1 .. n -> Packets(u)] : Receive(p, ms, "split")
  BY DEF processMsgs
<1>2. job[p].pc = "idle" /\ started' = started
  BY DEF processMsgs
<1>3. ASSUME NEW x \in Packets(u)
      PROVE  x \in MsgRecs
  <2>1. PICK to \in Names, kind \in PacketKinds :
          x = [from |-> u, to |-> to, kind |-> kind, api |-> FALSE, seq |-> 0]
    BY DEF Packets, New
  <2> QED
    BY <2>1 DEF MsgRecs, AllKinds
<1>4. \A k \in 1 .. n : ms[k] \in MsgRecs
  BY <1>3
<1>5. n \in Nat
  BY MessageConstants
<1>6. ms \in Seq(MsgRecs)
  <2>1. ms = [k \in 1 .. n |-> ms[k]]
    OBVIOUS
  <2> QED
    BY <1>4, <1>5, <2>1
<1> QED
  BY <1>1, <1>2, <1>6, ReceiveItems

LEMMA SendRequestItems ==
  ASSUME MsgInv, MsgInv', ItemInv, NEW p \in Procs, NEW u \in Users, NEW to \in Names,
         NEW kind \in RequestKinds, sendRequest(p, u, to, kind)
  PROVE  ItemInv'
<1>1. PICK m, ms : m = New(u, to, kind, TRUE) /\ ms = <<m>>
  OBVIOUS
<1>2. PICK pc : pc = IF kind = "end" THEN "end" ELSE "split"
  OBVIOUS
<1>3. Receive(p, ms, pc) /\ job[p].pc = "idle"
      /\ started' = IF kind = "start" THEN Len(msg) + 1 ELSE started
  BY <1>1, <1>2 DEF sendRequest
<1>4. m \in MsgRecs /\ m.kind = kind
  BY <1>1 DEF New, MsgRecs, AllKinds
<1>5. ms \in Seq(MsgRecs) /\ 1 \in DOMAIN ms /\ ms[1] = m
  <2>1. m \in MsgRecs /\ ms = <<m>>
    BY <1>1, <1>4
  <2>2. ms \in Seq(MsgRecs) /\ Len(ms) = 1 /\ ms[1] = m
    BY ONLY <2>1
  <2>3. DOMAIN ms = 1 .. 1
    BY ONLY <2>2
  <2> QED
    BY ONLY <2>2, <2>3
<1>6. kind = "start" => started = None
  <2>1. Sendable(m.from, m.to, m.kind)
    BY <1>3, <1>5 DEF Receive
  <2> QED
    BY <1>4, <2>1 DEF Sendable
<1>7. pc = "end" => \E k \in DOMAIN ms : ms[k].kind = "end"
  BY <1>2, <1>4, <1>5
<1>8. started' = started \/ started = None
  BY <1>3, <1>6
<1> QED
  BY <1>3, <1>5, <1>7, <1>8, ReceiveItems

\* The invariant holds at first,
LEMMA InitItemInv == Init => ItemInv
<1> SUFFICES ASSUME Init PROVE ItemInv
  OBVIOUS
<1>1. /\ file = [t \in Topics |-> <<>>] /\ cached = [t \in Topics |-> None]
      /\ stream = [o \in Objs |-> None] /\ call = [p \in Procs |-> NoCall]
      /\ msg = <<>> /\ job = [p \in Procs |-> Idle]
  BY DEF Init, StreamInit
<1>2. DOMAIN msg = {} /\ Items = {}
  BY <1>1 DEF Items
<1>3. \A t \in Topics : DOMAIN file[t] = {}
  BY <1>1
<1>4. \A p \in Procs : call[p].pc = "none"
  BY <1>1 DEF NoCall
<1>5. Objects
  BY <1>1, <1>3, <1>4 DEF Objects
<1>6. ASSUME NEW p \in Procs
      PROVE  Handled(job[p], call[p])
  <2>1. PICK j, c : j = job[p] /\ c = call[p]
    OBVIOUS
  <2>2. j.pc = "idle" /\ j.items = <<>> /\ j.msgs = <<>> /\ j.acks = <<>> /\ c.pc = "none"
    BY <1>1, <1>4, <2>1 DEF Idle
  <2>3. ToSet(j.msgs) = {} /\ ToSet(j.acks) = {} /\ IsInjective(j.items) /\ DOMAIN j.items = {}
    BY <2>2, Empty
  <2>4. Handled(j, c)
    BY <2>2, <2>3 DEF Handled
  <2> QED
    BY <2>1, <2>4
<1> QED
  BY <1>2, <1>3, <1>5, <1>6 DEF ItemInv, Files, Sent

\* and every step keeps it.
LEMMA ItemNext == MsgInv /\ ItemInv /\ [Next]_vars => ItemInv'
<1> SUFFICES ASSUME MsgInv, ItemInv, [Next]_vars PROVE ItemInv'
  OBVIOUS
<1>1. MsgInv'
  BY MsgNext
<1>2. Frames \subseteq Procs /\ Handlers \subseteq Procs
  BY MessageConstants
<1>3. ASSUME NEW p \in Frames, NEW u \in Users, NEW n \in 1 .. MaxBatch, processMsgs(p, u, n)
      PROVE  ItemInv'
  BY <1>1, <1>2, <1>3, ProcessMsgsItems
<1>4. ASSUME NEW p \in Handlers, NEW u \in Users, NEW to \in Names, NEW kind \in RequestKinds,
             sendRequest(p, u, to, kind)
      PROVE  ItemInv'
  BY <1>1, <1>2, <1>4, SendRequestItems
<1>5. ASSUME NEW p \in Frames, NEW to \in Names, prcocessChannelMessages(p, to)
      PROVE  ItemInv'
  BY <1>1, <1>2, <1>5, ProcessChannelItems
<1>6. ASSUME NEW p \in Handlers, sendMessageToChannel(p)
      PROVE  ItemInv'
  BY <1>1, <1>2, <1>6, SendMessageToChannelItems
<1>7. ASSUME NEW p \in Procs,
             \/ AppendStreamItem(p)
             \/ storeChannelMessagesIfNeed(p)
             \/ storeChannelMessagesToNotifyQueue(p)
             \/ \E u \in Users : storeMessageToUserQueueIfNeed(p, u)
             \/ deliveryMessages(p)
             \/ SaveStreamMeta(p)
             \/ streamMessageEnd(p)
             \/ response(p)
      PROVE  ItemInv'
  BY <1>1, <1>7, AppendStreamItemItems, StoreItems, NotifyItems, PutItems, DeliveryItems,
     SaveStreamMetaItems, StreamMessageEndItems, ResponseItems
<1>8. ASSUME UNCHANGED <<msgVars, streamVars>>
      PROVE  ItemInv'
  <2>1. UNCHANGED <<file, call, cached, stream>>
    BY <1>8 DEF streamVars
  <2>2. Objects'
    BY <2>1 DEF ItemInv, Objects, Held
  <2> QED
    BY <1>8, <2>1, <2>2, ItemsAside
<1>9. ASSUME NEW k \in Ackers,
             \/ processRecvacks(k)
             \/ \E u \in Readers : \E n \in 1 .. Len(queue[u]) + 1 : syncack(k, u, n)
             \/ UpdateMessageOfUserCursorIfNeed(k)
      PROVE  ItemInv'
  <2>1. UNCHANGED <<msgVars, streamVars>>
    BY <1>9 DEF processRecvacks, syncack, MoveCursor, UpdateMessageOfUserCursorIfNeed
  <2> QED
    BY <1>8, <2>1
<1>10. CASE StreamStep /\ UNCHANGED <<msgVars, cursorVars>>
  BY <1>10, NextStreamSeqItems, AppendItemItems, MetaItems, EvictItems DEF StreamStep
<1>11. CASE UNCHANGED vars
  BY <1>8, <1>11 DEF vars
<1> QED
  BY <1>3, <1>4, <1>5, <1>6, <1>7, <1>9, <1>10, <1>11 DEF Next

\* An item that is filed is read back with the message that started its stream: the
\* reader looks where the writer wrote.
LEMMA ReadBack ==
  ASSUME MsgInv, ItemInv
  PROVE  StreamReadBack
<1> SUFFICES ASSUME NEW i \in DOMAIN msg, StreamIng(msg[i]), \E r \in ToSet(replies[i]) : r.reason = "Success",
                    msg[i].to = Group => ~msg[i].api /\ msg[i].from = msg[started].from
             PROVE  LET read == StreamsOf(msg[started])
                    IN Cardinality({k \in DOMAIN read : read[k].id = i}) = 1
  BY DEF StreamReadBack
<1>1. Filed(i)
  BY DEF ItemInv
<1>2. PICK m, s, t : m = msg[i] /\ s = msg[started] /\ t = StreamTopic(msg[i])
  OBVIOUS
<1>3. FakeChannelID(m.from, m.to) = FakeChannelID(s.from, s.to)
  <2>1. i \in Items
    BY DEF Items
  <2> QED
    BY <1>2, <2>1 DEF ItemInv, Sent
<1>4. t = GetFakeChannelIDWith(s.from, s.to)
  <2>1. \A x, y, z : GetFakeChannelIDWith(x, y) # <<z>>
    BY DEF GetFakeChannelIDWith
  <2>2. CASE m.to = Group
    <3>1. s.to = Group
      BY <1>3, <2>1, <2>2 DEF FakeChannelID
    <3> QED
      BY <1>2, <2>2, <3>1 DEF StreamTopic
  <2>3. CASE m.to # Group
    <3>1. s.to # Group
      BY <1>3, <2>1, <2>3 DEF FakeChannelID
    <3> QED
      BY <1>2, <1>3, <2>3, <3>1 DEF StreamTopic, FakeChannelID
  <2> QED
    BY <2>2, <2>3
<1>5. StreamsOf(msg[started]) = readItems(t)
  BY <1>2, <1>4 DEF StreamsOf
<1>6. t \in Topics
  BY <1>2, TopicOf DEF MsgInv
<1>7. PICK n \in DOMAIN file[t] : file[t][n].id = i
  BY <1>1, <1>2 DEF Filed
<1>8. \A k \in DOMAIN file[t] : file[t][k].id = i => k = n
  BY <1>6, <1>7 DEF ItemInv, Files
<1>9. PICK Q : file[t] \in Seq(Q)
  BY <1>6 DEF MsgInv, Calls
<1>10. \A k \in DOMAIN file[t] : file[t][k].seq \in Nat
  BY <1>6 DEF ItemInv, Objects
<1>11. Cardinality({k \in DOMAIN readItems(t) : readItems(t)[k].id = i}) = 1
  BY <1>6, <1>7, <1>8, <1>9, <1>10, ReadsItems
<1> QED
  BY <1>5, <1>11

(* An item of a stream that was acknowledged is read back with the message that started
   the stream, once, whoever of the two users of a person channel sent it and by which
   way; in a group, if the connection of the one who started it did. *)
THEOREM MessageStreamReadBack == Spec => []StreamReadBack
<1>1. Init => MsgInv /\ ItemInv
  BY InitMsgInv, InitItemInv
<1>2. MsgInv /\ ItemInv /\ [Next]_vars => (MsgInv /\ ItemInv)'
  BY MsgNext, ItemNext
<1>3. MsgInv /\ ItemInv => StreamReadBack
  BY ReadBack
<1> QED
  BY <1>1, <1>2, <1>3, PTL DEF Spec
=============================================================================
