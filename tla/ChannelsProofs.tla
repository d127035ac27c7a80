---------------------------- MODULE ChannelsProofs ----------------------------
(***************************************************************************)
(* CacheAgrees and JudgedByStore of Channels, proved for every number of   *)
(* users, goroutines, requests and failing store calls and for every type  *)
(* of channel.                                                             *)
(*                                                                         *)
(* Neither is inductive: a request changes the store in one step and the   *)
(* cached object in another, perhaps after it has loaded that object, and  *)
(* goes on with an object that may have left the cache.  The invariant     *)
(* ChanInv says:                                                           *)
(*   Typed         a request at a step is one that comes there, and has an *)
(*                 object of the channel exactly at the steps that use     *)
(*                 one; nobody else has an object that is being loaded;    *)
(*                 what others may change is among what is touched (Wary); *)
(*   Knowledge     of a bit that nobody else can have changed a request    *)
(*                 knows what the store has: as its object has it, while   *)
(*                 it loads or judges, and as it has set it itself, once   *)
(*                 it has changed the store (Knows);                       *)
(*   Agreement     on a bit that is not loose, the cached object agrees    *)
(*                 with the store if no request may change the bit; and    *)
(*                 the only request that may has the cached object or      *)
(*                 none, and finds it agreeing as long as it has not       *)
(*                 changed the store (Follows).                            *)
(* A step changes the request, the object and the store of one goroutine   *)
(* only, and only the bits its request touches: Makes says what a step has *)
(* to establish, Advance that this is enough, and each action is shown to  *)
(* establish it.                                                           *)
(***************************************************************************)
EXTENDS Channels, FiniteSetTheorems, TLAPS

\* The steps of getChannel and what follows it.
Lookups == {"get", "info", "subs", "deny", "allow", "insert", "use"}

\* The records of the store, of objects and of requests.
StoreRecs == [info : {"none", "open", "ban"}, subs : SUBSET Uids, deny : SUBSET Uids, allow : SUBSET Uids]

ChanRecs == [ch : Ids, info : {"none", "open", "ban"}, subs : SUBSET Uids, tmp : SUBSET Uids,
             deny : SUBSET Uids, allow : SUBSET Uids]

Ops == ListOps \cup Infos \cup Subs \cup Temps \cup {"send", "none"}

PCs == Lookups \cup {"idle", "store", "cached", "clear", "clearObj", "fill", "fillObj", "uncache",
                     "refill", "drop", "put", "refused", "sent"}

ReqRecs == [op : Ops, pc : PCs, uids : SUBSET Uids, obj : Objs \cup {None}, exist : SUBSET Uids]

\* The types of the variables.
Typing ==
  /\ store \in [Ids -> StoreRecs]
  /\ obj \in [Objs -> ChanRecs \cup {None}]
  /\ cache \in [Ids -> Objs \cup {None}]
  /\ req \in [Threads -> ReqRecs]
  /\ touched \in [Threads -> SUBSET Bits] /\ loose \subseteq Bits

\* The requests that can be at a step,
At(pc) ==
  CASE pc = "store" -> ListOps \cup Infos
    [] pc = "cached" -> {"ban", "unban"}
    [] pc = "clear" -> {"create", "subReset"}
    [] pc = "clearObj" -> {"subReset"}
    [] pc = "fill" -> {"create", "subAdd", "subReset"}
    [] pc = "fillObj" -> {"subAdd", "subReset"}
    [] pc = "uncache" -> {"create", "delete"}
    [] pc = "refill" -> Sets
    [] pc = "drop" -> {"subRemove"}
    [] pc \in {"put", "refused", "sent"} -> {"send"}
    [] pc = "idle" -> {"none"}
    [] OTHER -> ListOps \cup Subs \cup Temps \cup {"send"}

\* and the steps at which they have an object.
Holds(r) == \/ r.pc \in {"subs", "deny", "allow", "insert", "use", "clearObj", "fillObj", "drop", "put", "refused"}
            \/ r.pc \in {"clear", "fill"} /\ r.op # "create"

\* Among the objects os, o is one of channel ch.
Of(os, o, ch) == o \in Objs /\ os[o] \in ChanRecs /\ os[o].ch = ch

\* What the step of a request says of it.
Shape(r, os) ==
  /\ r.op \in At(r.pc)
  /\ Holds(r) => Of(os, r.obj, "it")
  /\ ~Holds(r) => r.obj = None
  /\ r.op # "subAdd" => r.exist = {}
  /\ r.op = "create" /\ r.pc = "fill" => r.uids # {}

\* Requests have their shape, and what is cached is an object of its channel.
Shapes ==
  /\ \A t \in Threads : Shape(req[t], obj)
  /\ \A ch \in Ids : cache[ch] # None => Of(obj, cache[ch], ch)

\* Nobody else has the object that a request is loading.
Private(r) == r.pc \in {"subs", "deny", "allow", "insert"}

\* An object that is being loaded is not cached, and no other request has it.
Own ==
  \A t \in Threads : Private(req[t]) =>
    /\ req[t].obj # cache["it"]
    /\ \A s \in Threads : s # t => req[s].obj # req[t].obj

\* What a goroutine has to take as touched: what the others may change.
Wary ==
  \A s \in Threads : /\ req[s].pc = "idle" => touched[s] = {}
                     /\ req[s].pc # "idle" => \A u \in Threads \ {s} : Touches(req[u]) \subseteq touched[s]

Typed == Typing /\ Shapes /\ Own /\ Wary

\* Whether an object c of a channel of type k says of a bit what the store says in s.
NamedOf(k) == IF k \in {"person", "service"} THEN Members ELSE {}
Exempt(k, bit) == \/ bit = Ban /\ k = "person"
                  \/ bit # Ban /\ bit[1] = "subs" /\ bit[2] \in NamedOf(k)
Same(k, c, s, bit) == Exempt(k, bit) \/ (Has(c, bit) <=> Has(s, bit))

\* A bit that a request will change and has not changed in the store yet, so that store and
\* object agree,
Before(r, bit) ==
  \/ r.pc = "store"
  \/ r.op = "create" /\ r.pc = "clear" /\ bit # Ban
  \/ r.op \in Subs /\ r.pc \in Lookups
  \/ r.op = "subReset" /\ r.pc = "clear"
  \/ r.op = "subAdd" /\ r.pc = "fill"
  \/ r.op = "subAdd" /\ r.pc = "fillObj" /\ bit[2] \in r.exist

\* and one that it has changed there and not yet in the object.
Behind(r) ==
  \/ r.op \in ListOps /\ r.pc \in Lookups \cup {"refill"}
  \/ r.pc \in {"cached", "clearObj", "fillObj", "drop"}
  \/ r.op = "subReset" /\ r.pc = "fill"

\* The bits that it has set there.
Wrote(r) ==
  CASE r.op \in Adds \cup {"subAdd", "ban"} -> Touches(r)
    [] r.op \in Sets /\ r.pc # "refill" -> {ListOf(r.op)} \X r.uids
    [] r.op = "subReset" /\ r.pc = "fillObj" -> {"subs"} \X r.uids
    [] OTHER -> {}

\* What a request r knows of a bit that nobody else can have changed: c is its object,
\* s what the store has.
ReadAt(pc, bit) == \/ bit = Ban
                   \/ bit[1] = "subs" /\ pc # "subs"
                   \/ bit[1] = "deny" /\ pc \notin {"subs", "deny"}
                   \/ bit[1] = "allow" /\ pc = "insert"

Knows(k, r, c, s, bit) ==
  /\ Private(r) /\ ReadAt(r.pc, bit) => Same(k, c, s, bit)
  /\ r.op = "send" /\ r.pc \in {"use", "put"} => Same(k, c, s, bit)
  /\ bit \in Touches(r) /\ Behind(r) => (Has(s, bit) <=> bit \in Wrote(r))
  /\ bit \in Touches(r) /\ r.op = "subReset" /\ r.pc \in {"fill", "fillObj"} => ~Has(c, bit)
  /\ bit \in Touches(r) /\ r.op = "subAdd" /\ r.pc \in {"fill", "fillObj"} /\ bit[2] \in r.exist => Has(s, bit)
  /\ r.pc = "sent" /\ bit[1] = "subs" /\ bit[2] \notin NamedOf(k) =>
       /\ Has(s, bit) => bit[2] \in r.uids
       /\ k \notin {"topic", "info"} /\ bit[2] \in r.uids => Has(s, bit)

\* How a request that alone may change a bit stands to the cached object o, whose record is c.
Follows(k, r, o, c, s, bit) ==
  /\ r.pc # "info" /\ ~Private(r)
  /\ r.obj \in {None, o}
  /\ Before(r, bit) => Same(k, c, s, bit)

Knowledge ==
  \A t \in Threads : \A bit \in Bits \ touched[t] : Knows(kind, req[t], obj[req[t].obj], store["it"], bit)

Agreement ==
  cache["it"] # None =>
    \A bit \in Bits \ loose :
      /\ (\A t \in Threads : bit \notin Touches(req[t])) => Same(kind, obj[cache["it"]], store["it"], bit)
      /\ \A t \in Threads : bit \in Touches(req[t]) \ touched[t] =>
           Follows(kind, req[t], cache["it"], obj[cache["it"]], store["it"], bit)

\* The inductive invariant.
ChanInv == Typed /\ Knowledge /\ Agreement

-----------------------------------------------------------------------------
\* The image of a finite set is no larger than the set,
LEMMA ImageBound ==
  ASSUME NEW S, IsFiniteSet(S), NEW g
  PROVE  /\ IsFiniteSet({g[x] : x \in S})
         /\ Cardinality({g[x] : x \in S}) <= Cardinality(S)
  <1> DEFINE T == {g[x] : x \in S}
             f == [x \in S |-> g[x]]
  <1>1. f \in Surjection(S, T)
    BY DEF Surjection
  <1> QED
    BY <1>1, FS_Surjection

\* and a union no larger than its parts together.
LEMMA UnionBound ==
  ASSUME NEW S, NEW T, IsFiniteSet(S), IsFiniteSet(T), NEW m \in Nat, NEW n \in Nat,
         Cardinality(S) <= m, Cardinality(T) <= n
  PROVE  IsFiniteSet(S \cup T) /\ Cardinality(S \cup T) <= m + n
  <1>1. Cardinality(S) \in Nat /\ Cardinality(T) \in Nat
    BY FS_CardinalityType
  <1>2. IsFiniteSet(S \cap T)
    BY FS_Intersection
  <1>3. Cardinality(S \cap T) \in Nat
    BY <1>2, FS_CardinalityType
  <1>4. /\ IsFiniteSet(S \cup T)
        /\ Cardinality(S \cup T) = Cardinality(S) + Cardinality(T) - Cardinality(S \cap T)
    BY FS_Union
  <1> QED
    BY <1>1, <1>3, <1>4

\* An allocation finds an object that neither cache nor goroutine has.
LEMMA FreshExists == Fresh \in Objs \ Held
  <1> DEFINE caches == {cache[ch] : ch \in Ids}
             objs == [t \in Threads |-> req[t].obj]
             holders == {objs[t] : t \in Threads}
  <1>1. IsFiniteSet(Ids) /\ Cardinality(Ids) <= 2
    <2>1. IsFiniteSet({"it"}) /\ Cardinality({"it"}) = 1 /\ IsFiniteSet({"parent"}) /\ Cardinality({"parent"}) = 1
      BY FS_Singleton
    <2>2. Ids = {"it"} \cup {"parent"}
      BY DEF Ids
    <2>3. Cardinality({"it"} \cup {"parent"}) <= 1 + 1 /\ IsFiniteSet({"it"} \cup {"parent"})
      <3>1. Cardinality({"it"}) <= 1 /\ Cardinality({"parent"}) <= 1
        BY <2>1
      <3> QED
        BY <2>1, <3>1, UnionBound
    <2> QED
      BY <2>2, <2>3
  <1>2. IsFiniteSet(caches) /\ Cardinality(caches) <= Cardinality(Ids)
    BY <1>1, ImageBound
  <1>3. Cardinality(Ids) \in Nat /\ Cardinality(caches) \in Nat
    BY <1>1, <1>2, FS_CardinalityType
  <1>4. IsFiniteSet(holders) /\ Cardinality(holders) <= Cardinality(Threads)
    BY ImageBound, ChannelConstants
  <1>5. Cardinality(Threads) \in Nat /\ Cardinality(Objs) \in Nat
    BY ChannelConstants, FS_CardinalityType
  <1>6. Held = caches \cup holders
    BY DEF Held
  <1> HIDE DEF caches, holders
  <1>7. Cardinality(caches) <= 2
    BY <1>1, <1>2, <1>3
  <1>8. IsFiniteSet(Held) /\ Cardinality(Held) <= 2 + Cardinality(Threads)
    BY <1>2, <1>4, <1>5, <1>6, <1>7, UnionBound
  <1>9. ~(Objs \subseteq Held)
    <2>1. SUFFICES ASSUME Objs \subseteq Held PROVE FALSE
      OBVIOUS
    <2>2. Cardinality(Objs) <= Cardinality(Held) /\ Cardinality(Held) \in Nat
      BY <1>8, <2>1, FS_Subset, FS_CardinalityType
    <2> QED
      BY <2>2, <1>5, <1>8, ChannelConstants
  <1> QED
    BY <1>9, Zenon DEF Fresh

-----------------------------------------------------------------------------
\* The bits of a channel: the ban, and a user on a list.
LEMMA BitCases ==
  ASSUME NEW bit \in Bits
  PROVE  \/ bit = Ban /\ bit[1] = "info"
         \/ bit # Ban /\ bit[1] \in Lists /\ bit[2] \in Uids /\ bit = <<bit[1], bit[2]>>
  BY DEF Bits, Ban, Lists

\* What a request touches are bits.
LEMMA TouchesBits ==
  ASSUME NEW r \in ReqRecs
  PROVE  Touches(r) \subseteq Bits
  <1>1. r.uids \subseteq Uids /\ ListOf(r.op) \in Lists /\ "subs" \in Lists
    BY DEF ReqRecs, ListOf, Lists
  <1> QED
    BY <1>1 DEF Touches, Bits

\* ... and depend on its operation and its users.
LEMMA TouchesSame ==
  ASSUME NEW r, NEW q, r.op = q.op, r.uids = q.uids
  PROVE  Touches(r) = Touches(q)
  BY DEF Touches

\* A message touches nothing.
LEMMA TouchesNone ==
  ASSUME NEW r, r.op \in Temps \cup {"send", "none"}
  PROVE  Touches(r) = {}
  BY DEF Touches, Temps, Adds, Removes, Sets

\* A list of a channel changes.
LEMMA HasList ==
  ASSUME NEW c, NEW f \in Lists, NEW v, c \in ChanRecs \/ c \in StoreRecs, v \in SUBSET Uids
  PROVE  /\ c \in ChanRecs => [c EXCEPT ![f] = v] \in ChanRecs /\ [c EXCEPT ![f] = v].ch = c.ch
         /\ c \in StoreRecs => [c EXCEPT ![f] = v] \in StoreRecs
         /\ \A bit \in Bits : bit[1] = f => (Has([c EXCEPT ![f] = v], bit) <=> bit[2] \in v)
         /\ \A bit \in Bits : bit[1] # f => (Has([c EXCEPT ![f] = v], bit) <=> Has(c, bit))
  <1> DEFINE d == [c EXCEPT ![f] = v]
  <1>1. /\ c \in ChanRecs => d \in ChanRecs /\ d.ch = c.ch
        /\ c \in StoreRecs => d \in StoreRecs
        /\ d[f] = v /\ d.info = c.info
        /\ \A g \in Lists : g # f => d[g] = c[g]
    <2>1. CASE f = "subs"
      BY <2>1 DEF ChanRecs, StoreRecs, Lists
    <2>2. CASE f = "deny"
      BY <2>2 DEF ChanRecs, StoreRecs, Lists
    <2>3. CASE f = "allow"
      BY <2>3 DEF ChanRecs, StoreRecs, Lists
    <2> QED
      BY <2>1, <2>2, <2>3 DEF Lists
  <1> HIDE DEF d
  <1>2. ASSUME NEW bit \in Bits
        PROVE  /\ bit[1] = f => (Has(d, bit) <=> bit[2] \in v)
               /\ bit[1] # f => (Has(d, bit) <=> Has(c, bit))
    <2>1. CASE bit = Ban /\ bit[1] = "info"
      BY <1>1, <2>1 DEF Has, Lists
    <2>2. CASE bit # Ban /\ bit[1] \in Lists
      BY <1>1, <2>2 DEF Has
    <2> QED
      BY <2>1, <2>2, BitCases
  <1> QED
    BY <1>1, <1>2 DEF d

\* The information of a channel changes.
LEMMA HasInfo ==
  ASSUME NEW c, NEW v \in {"none", "open", "ban"}, c \in ChanRecs \/ c \in StoreRecs
  PROVE  /\ c \in ChanRecs => [c EXCEPT !["info"] = v] \in ChanRecs /\ [c EXCEPT !["info"] = v].ch = c.ch
         /\ c \in StoreRecs => [c EXCEPT !["info"] = v] \in StoreRecs
         /\ Has([c EXCEPT !["info"] = v], Ban) <=> v = "ban"
         /\ \A bit \in Bits : bit # Ban => (Has([c EXCEPT !["info"] = v], bit) <=> Has(c, bit))
  <1> DEFINE d == [c EXCEPT !["info"] = v]
  <1>1. /\ c \in ChanRecs => d \in ChanRecs /\ d.ch = c.ch
        /\ c \in StoreRecs => d \in StoreRecs
        /\ d.info = v /\ \A g \in Lists : d[g] = c[g]
    BY DEF ChanRecs, StoreRecs, Lists
  <1> HIDE DEF d
  <1>2. \A bit \in Bits : bit # Ban => (Has(d, bit) <=> Has(c, bit))
    BY <1>1, BitCases DEF Has
  <1> QED
    BY <1>1, <1>2 DEF d, Has

\* Temporary subscribers are no bits.
LEMMA HasTemps ==
  ASSUME NEW c \in ChanRecs, NEW v \in SUBSET Uids
  PROVE  /\ [c EXCEPT !["tmp"] = v] \in ChanRecs /\ [c EXCEPT !["tmp"] = v].ch = c.ch
         /\ \A bit \in Bits : Has([c EXCEPT !["tmp"] = v], bit) <=> Has(c, bit)
  <1> DEFINE d == [c EXCEPT !["tmp"] = v]
  <1>1. d \in ChanRecs /\ d.ch = c.ch /\ d.info = c.info /\ \A g \in Lists : d[g] = c[g]
    BY DEF ChanRecs, Lists
  <1> HIDE DEF d
  <1>2. \A bit \in Bits : Has(d, bit) <=> Has(c, bit)
    BY <1>1, BitCases DEF Has
  <1> QED
    BY <1>1, <1>2 DEF d

-----------------------------------------------------------------------------
\* A bit that has not changed leaves what a request knows of it,
LEMMA KnowsFrame ==
  ASSUME NEW k, NEW r, NEW c, NEW d, NEW s, NEW s1, NEW bit,
         Knows(k, r, c, s, bit), Has(s, bit) <=> Has(s1, bit), Holds(r) => (Has(c, bit) <=> Has(d, bit)),
         r.op \in At(r.pc)
  PROVE  Knows(k, r, d, s1, bit)
  <1>1. Private(r) => Holds(r)
    BY DEF Private, Holds
  <1>2. r.op = "send" /\ r.pc \in {"use", "put"} => Holds(r)
    BY DEF Holds
  <1>3. r.op = "subReset" /\ r.pc \in {"fill", "fillObj"} => Holds(r)
    BY DEF Holds
  <1> QED
    BY <1>1, <1>2, <1>3 DEF Knows, Same

\* and how the cached object stands.
LEMMA FollowsFrame ==
  ASSUME NEW k, NEW r, NEW o, NEW c, NEW d, NEW s, NEW s1, NEW bit,
         Follows(k, r, o, c, s, bit), Has(s, bit) <=> Has(s1, bit), Has(c, bit) <=> Has(d, bit)
  PROVE  Follows(k, r, o, d, s1, bit)
  BY DEF Follows, Same

\* A request that has ended knows nothing.
LEMMA KnowsIdle ==
  ASSUME NEW k, NEW r, NEW c, NEW s, NEW bit, r.op = "none", r.pc = "idle"
  PROVE  Knows(k, r, c, s, bit)
  <1>1. Touches(r) = {}
    BY TouchesNone
  <1> QED
    BY <1>1 DEF Knows, Private

-----------------------------------------------------------------------------
\* What every step of a goroutine keeps to: the request has the shape of its step,
\* objects stay objects of their channel, the cache loses its object or takes
\* the one that was loaded, and an object that is loaded is a new one.
Lawful(t, r, os, c) ==
  /\ r \in ReqRecs /\ os \in [Objs -> ChanRecs \cup {None}] /\ c \in [Ids -> Objs \cup {None}]
  /\ Shape(r, os)
  /\ \A o \in Objs : o \in Held => \A ch \in Ids : Of(obj, o, ch) => Of(os, o, ch)
  /\ c["parent"] = cache["parent"]
  /\ \/ c["it"] \in {None, cache["it"]}
     \/ c["it"] = req[t].obj /\ Private(req[t]) /\ ~Private(r)
  /\ Private(r) => r.obj \notin Held \/ (Private(req[t]) /\ r.obj = req[t].obj)
  /\ ~Private(r) => r.obj \in {None, req[t].obj, cache["it"]}

\* ... and to the bits: outside those that the request touches store and objects stay as they
\* are, also the cached object; what the request knows afterwards, s being what the store has;
\* and how the cached object stands to the bits it touches.
Frame(t, r, os, s) ==
  /\ s \in StoreRecs
  /\ \A bit \in Bits : bit \notin Touches(req[t]) => (Has(s, bit) <=> Has(store["it"], bit))
  /\ \A o \in Objs : o \in Held /\ (Private(req[t]) => o # req[t].obj) =>
       \A bit \in Bits : bit \notin Touches(req[t]) => (Has(os[o], bit) <=> Has(obj[o], bit))
  /\ req[t].pc = "idle" \/ r.pc = "idle" \/ Touches(r) = Touches(req[t])

Learns(t, r, os, s, found) ==
  r.pc # "idle" => \A bit \in Bits \ (touched[t] \cup found) : Knows(kind, r, os[r.obj], s, bit)

\* How the cached object stands to the request before the step.
Stands(t, bit) == Follows(kind, req[t], cache["it"], obj[cache["it"]], store["it"], bit)

\* The request goes on with the same object in the cache, ends with it, or puts its own there.
Cached(t, r, os, c, s, mended, left) ==
  LET o == c["it"]
  IN  o # None =>
        /\ o = cache["it"] /\ r.pc # "idle" =>
             /\ mended = {}
             /\ req[t].pc = "idle" => r.obj = None /\ r.pc # "info" /\ ~Private(r) /\ os = obj /\ s = store["it"]
             /\ req[t].pc # "idle" => \A bit \in Touches(req[t]) \ (touched[t] \cup loose) :
                  Stands(t, bit) => Follows(kind, r, o, os[o], s, bit)
        /\ o = cache["it"] /\ r.pc = "idle" =>
             /\ mended \subseteq Touches(req[t])
             /\ \A bit \in Touches(req[t]) \ (touched[t] \cup left) :
                  (bit \notin loose => Stands(t, bit)) /\ (bit \notin loose \ mended) => Same(kind, os[o], s, bit)
        /\ o # cache["it"] =>
             /\ r.pc # "idle"
             /\ \A bit \in Bits \ touched[t] : Same(kind, os[o], s, bit)
             /\ \A bit \in Touches(r) \ touched[t] : Follows(kind, r, o, os[o], s, bit)

\* A whole step.
Makes(t, r, os, c, s, mended, left, found) ==
  /\ StepWith(t, r, os, c, mended, left, found)
  /\ store'["it"] = s /\ store' \in [Ids -> StoreRecs]
  /\ mended \subseteq Bits /\ left \subseteq Bits /\ found \subseteq Bits
  /\ Lawful(t, r, os, c) /\ Frame(t, r, os, s)
  /\ Learns(t, r, os, s, found) /\ Cached(t, r, os, c, s, mended, left)

\* A step of goroutine t, one variable at a time.
LEMMA StepFacts ==
  ASSUME Typing, NEW t \in Threads, NEW r \in ReqRecs,
         NEW os \in [Objs -> ChanRecs \cup {None}], NEW c \in [Ids -> Objs \cup {None}],
         NEW mended, NEW left, NEW found, found \subseteq Bits, left \subseteq Bits,
         StepWith(t, r, os, c, mended, left, found)
  PROVE  /\ req' \in [Threads -> ReqRecs] /\ req'[t] = r
         /\ \A s \in Threads : s # t => req'[s] = req[s]
         /\ cache' = c /\ kind' = kind
         /\ obj' \in [Objs -> ChanRecs \cup {None}]
         /\ \A ch \in Ids : c[ch] \in Objs => obj'[c[ch]] = os[c[ch]]
         /\ r.obj \in Objs => obj'[r.obj] = os[r.obj]
         /\ \A s \in Threads : s # t /\ req[s].obj \in Objs => obj'[req[s].obj] = os[req[s].obj]
         /\ touched' \in [Threads -> SUBSET Bits] /\ loose' \subseteq Bits
  <1>1. req' \in [Threads -> ReqRecs] /\ req'[t] = r /\ \A s \in Threads : s # t => req'[s] = req[s]
    BY DEF StepWith, Typing
  <1>2. cache' = c /\ kind' = kind
    BY DEF StepWith, Typing
  <1>3. \A o \in Objs : o \in {c[ch] : ch \in Ids} \cup {req'[s].obj : s \in Threads} => obj'[o] = os[o]
    BY DEF StepWith, Collect
  <1>4. obj' \in [Objs -> ChanRecs \cup {None}]
    BY DEF StepWith, Collect
  <1>5. \A s \in Threads : req'[s].obj \in Objs => obj'[req'[s].obj] = os[req'[s].obj]
    BY <1>3
  <1>6. \A s \in Threads : Touches(req'[s]) \subseteq Bits
    BY <1>1, TouchesBits
  <1>7. touched' \in [Threads -> SUBSET Bits]
    <2>1. touched' = [s \in Threads |-> Touched(s, IF s = t THEN found ELSE {})]
      BY DEF StepWith
    <2>2. ASSUME NEW s \in Threads PROVE Touched(s, IF s = t THEN found ELSE {}) \subseteq Bits
      <3>1. touched[s] \subseteq Bits
        BY DEF Typing
      <3>2. UNION {Touches(req'[u]) : u \in Threads \ {s}} \subseteq Bits
        BY <1>6
      <3> QED
        BY <3>1, <3>2 DEF Touched
    <2> QED
      BY <2>1, <2>2
  <1>8. loose' \subseteq Bits
    <2>1. loose' = Loose(t, mended, left)
      BY DEF StepWith
    <2>2. Touches(req[t]) \subseteq Bits /\ touched[t] \subseteq Bits /\ loose \subseteq Bits
      BY TouchesBits DEF Typing
    <2> QED
      BY <2>1, <2>2 DEF Loose
  <1> QED
    BY <1>1, <1>2, <1>3, <1>4, <1>5, <1>7, <1>8

\* What is touched after a step.
LEMMA TouchedFacts ==
  ASSUME NEW t \in Threads, NEW r, NEW os, NEW c, NEW mended, NEW left, NEW found,
         StepWith(t, r, os, c, mended, left, found), NEW s \in Threads
  PROVE  /\ req'[s].pc = "idle" => touched'[s] = {}
         /\ req'[s].pc # "idle" =>
              /\ touched[s] \subseteq touched'[s]
              /\ s = t => found \subseteq touched'[s]
              /\ \A u \in Threads \ {s} : Touches(req'[u]) \subseteq touched'[s]
  <1>1. touched'[s] = Touched(s, IF s = t THEN found ELSE {})
    BY DEF StepWith
  <1> QED
    BY <1>1 DEF Touched

\* Types, shapes and ownership survive every lawful step.
LEMMA TypedStep ==
  ASSUME Typed, NEW t \in Threads, NEW r, NEW os, NEW c, NEW mended, NEW left, NEW found,
         Lawful(t, r, os, c), StepWith(t, r, os, c, mended, left, found),
         found \subseteq Bits, left \subseteq Bits, store' \in [Ids -> StoreRecs]
  PROVE  Typed'
  <1>0. Typing /\ Shapes /\ Own /\ r \in ReqRecs
        /\ os \in [Objs -> ChanRecs \cup {None}] /\ c \in [Ids -> Objs \cup {None}]
    BY DEF Typed, Lawful
  <1>1. /\ req' \in [Threads -> ReqRecs] /\ req'[t] = r
        /\ \A s \in Threads : s # t => req'[s] = req[s]
        /\ cache' = c /\ kind' = kind
        /\ obj' \in [Objs -> ChanRecs \cup {None}]
        /\ touched' \in [Threads -> SUBSET Bits] /\ loose' \subseteq Bits
    BY <1>0, StepFacts
  <1>2. /\ \A ch \in Ids : c[ch] \in Objs => obj'[c[ch]] = os[c[ch]]
        /\ r.obj \in Objs => obj'[r.obj] = os[r.obj]
        /\ \A s \in Threads : s # t /\ req[s].obj \in Objs => obj'[req[s].obj] = os[req[s].obj]
    BY <1>0, StepFacts
  <1>3. Typing'
    BY <1>0, <1>1, Zenon DEF Typing
  <1>4. \A s \in Threads : Shape(req'[s], obj')
    <2>1. Shape(r, obj')
      <3>1. Shape(r, os)
        BY DEF Lawful
      <3>2. Holds(r) => Of(obj', r.obj, "it")
        BY <3>1, <1>2 DEF Shape, Of
      <3> QED
        BY <3>1, <3>2 DEF Shape
    <2>2. ASSUME NEW s \in Threads, s # t PROVE Shape(req[s], obj')
      <3>1. Shape(req[s], obj)
        BY <1>0 DEF Shapes
      <3>3. req[s].obj \in Held
        BY DEF Held
      <3>4. Holds(req[s]) => Of(os, req[s].obj, "it")
        BY <3>1, <3>3 DEF Shape, Lawful, Of, Ids
      <3>5. Holds(req[s]) => Of(obj', req[s].obj, "it")
        BY <3>4, <1>2, <2>2 DEF Of
      <3> QED
        BY <3>1, <3>5 DEF Shape
    <2> QED
      BY <1>1, <2>1, <2>2
  <1>5. \A ch \in Ids : c[ch] # None => Of(obj', c[ch], ch)
    <2>1. ASSUME NEW ch \in Ids, c[ch] # None, c[ch] = cache[ch] PROVE Of(os, c[ch], ch)
      <3>1. Of(obj, c[ch], ch)
        BY <1>0, <2>1 DEF Shapes
      <3>2. c[ch] \in Held
        BY <2>1 DEF Held
      <3> QED
        BY <3>1, <3>2 DEF Lawful, Of
    <2>2. ASSUME c["it"] = req[t].obj, Private(req[t]) PROVE Of(os, c["it"], "it")
      <3>1. Of(obj, req[t].obj, "it")
        BY <1>0, <2>2 DEF Shapes, Shape, Private, Holds
      <3>2. req[t].obj \in Held
        BY DEF Held
      <3> QED
        BY <3>1, <3>2, <2>2 DEF Lawful, Of, Ids
    <2>3. \A ch \in Ids : c[ch] # None => Of(os, c[ch], ch)
      BY <2>1, <2>2 DEF Lawful, Ids
    <2> QED
      BY <2>3, <1>2 DEF Of
  <1>6. Shapes'
    <2>1. \A s \in Threads : Shape(req[s], obj)'
      BY <1>4
    <2>2. \A ch \in Ids : (cache[ch] # None => Of(obj, cache[ch], ch))'
      BY <1>1, <1>5
    <2> QED
      BY <2>1, <2>2, <1>1 DEF Shapes
  <1>7. Own'
    <2>1. \A s \in Threads : req[s].obj \in Held /\ cache["it"] \in Held
      BY DEF Held, Ids
    <2>2. ASSUME Private(r) PROVE r.obj # c["it"] /\ \A s \in Threads : s # t => req[s].obj # r.obj
      <3>1. r.obj # None
        BY <2>2, ChannelConstants DEF Lawful, Shape, Of, Private, Holds
      <3> QED
        BY <2>1, <2>2, <3>1, <1>0 DEF Lawful, Own
    <2>3. ASSUME NEW s \in Threads, s # t, Private(req[s])
          PROVE  req[s].obj # c["it"] /\ req[s].obj # r.obj
      <3>1. req[s].obj # None
        BY <2>3, <1>0, ChannelConstants DEF Shapes, Shape, Of, Private, Holds
      <3>2. req[s].obj # cache["it"] /\ req[s].obj # req[t].obj
        BY <2>3, <1>0 DEF Own
      <3>3. CASE Private(r)
        BY <3>1, <3>2, <3>3, <2>1, <2>2, <2>3 DEF Lawful
      <3>4. CASE ~Private(r)
        BY <3>1, <3>2, <3>4 DEF Lawful
      <3> QED
        BY <3>3, <3>4
    <2>4. ASSUME NEW s \in Threads, Private(req'[s])
          PROVE  req'[s].obj # c["it"] /\ \A u \in Threads : u # s => req'[u].obj # req'[s].obj
      <3>1. CASE s = t
        BY <3>1, <2>2, <2>4, <1>1
      <3>2. CASE s # t
        BY <3>2, <2>3, <2>4, <1>0, <1>1 DEF Own
      <3> QED
        BY <3>1, <3>2
    <2> QED
      BY <2>4, <1>1 DEF Own, Private
  <1>8. Wary'
    BY TouchedFacts DEF Wary
  <1> QED
    BY <1>3, <1>6, <1>7, <1>8 DEF Typed

\* Such a step keeps the whole invariant.
LEMMA Advance ==
  ASSUME ChanInv, NEW t \in Threads, NEW r, NEW os, NEW c, NEW s1, NEW mended, NEW left, NEW found,
         Makes(t, r, os, c, s1, mended, left, found)
  PROVE  ChanInv'
  <1>0. /\ Typed /\ Typing /\ Shapes /\ Own /\ Wary /\ Knowledge /\ Agreement
        /\ StepWith(t, r, os, c, mended, left, found)
        /\ Lawful(t, r, os, c) /\ Frame(t, r, os, s1)
        /\ Learns(t, r, os, s1, found) /\ Cached(t, r, os, c, s1, mended, left)
        /\ r \in ReqRecs /\ os \in [Objs -> ChanRecs \cup {None}] /\ c \in [Ids -> Objs \cup {None}]
        /\ store'["it"] = s1 /\ found \subseteq Bits /\ left \subseteq Bits /\ mended \subseteq Bits
    BY DEF ChanInv, Typed, Makes, Lawful
  <1>1. Typed'
    BY <1>0, TypedStep DEF Makes
  <1>2. /\ req' \in [Threads -> ReqRecs] /\ req'[t] = r
        /\ \A s \in Threads : s # t => req'[s] = req[s]
        /\ cache' = c /\ kind' = kind
    BY <1>0, StepFacts
  <1>3. /\ \A ch \in Ids : c[ch] \in Objs => obj'[c[ch]] = os[c[ch]]
        /\ r.obj \in Objs => obj'[r.obj] = os[r.obj]
        /\ \A s \in Threads : s # t /\ req[s].obj \in Objs => obj'[req[s].obj] = os[req[s].obj]
    BY <1>0, StepFacts
  <1>4. \A s \in Threads :
          /\ req'[s].pc = "idle" => touched'[s] = {}
          /\ req'[s].pc # "idle" =>
               /\ touched[s] \subseteq touched'[s]
               /\ s = t => found \subseteq touched'[s]
               /\ \A u \in Threads \ {s} : Touches(req'[u]) \subseteq touched'[s]
    BY <1>0, TouchedFacts
  <1>5. r.op \in At(r.pc) /\ \A s \in Threads : req[s].op \in At(req[s].pc)
    BY <1>0 DEF Lawful, Shape, Shapes
  <1>6. \A s \in Threads : \A bit \in Bits \ touched[s] : Knows(kind, req[s], obj[req[s].obj], store["it"], bit)
    BY <1>0 DEF Knowledge
  \* What goroutines know.
  <1>7. ASSUME NEW s \in Threads, NEW bit \in Bits, bit \notin touched'[s]
        PROVE  Knows(kind, req'[s], obj'[req'[s].obj], store'["it"], bit)
    <2>1. CASE req'[s].pc = "idle"
      <3>1. req'[s].op = "none"
        BY <2>1, <1>1 DEF Typed, Shapes, Shape, At
      <3> QED
        BY <2>1, <3>1, KnowsIdle
    <2>2. CASE req'[s].pc # "idle" /\ s = t
      <3>1. bit \notin touched[t] /\ bit \notin found
        BY <2>2, <1>4, <1>7
      <3>2. Knows(kind, r, os[r.obj], s1, bit)
        BY <2>2, <3>1, <1>0, <1>2 DEF Learns
      <3>3. Holds(r) => r.obj \in Objs
        BY <1>0 DEF Lawful, Shape, Of
      <3>4. Knows(kind, r, obj'[r.obj], s1, bit)
        BY <3>2, <3>3, <1>3, <1>5, KnowsFrame
      <3> QED
        BY <3>4, <2>2, <1>0, <1>2
    <2>3. CASE req'[s].pc # "idle" /\ s # t
      <3>1. req'[s] = req[s] /\ bit \notin touched[s]
        BY <2>3, <1>2, <1>4, <1>7
      <3>2. bit \notin Touches(req[t])
        BY <3>1, <2>3, <1>0 DEF Wary
      <3>3. Knows(kind, req[s], obj[req[s].obj], store["it"], bit)
        BY <3>1, <1>6
      <3>4. Has(store["it"], bit) <=> Has(s1, bit)
        BY <3>2, <1>0 DEF Frame
      <3>5. Holds(req[s]) => (Has(obj[req[s].obj], bit) <=> Has(obj'[req[s].obj], bit))
        <4>1. SUFFICES ASSUME Holds(req[s]) PROVE Has(obj[req[s].obj], bit) <=> Has(obj'[req[s].obj], bit)
          OBVIOUS
        <4>2. req[s].obj \in Objs /\ req[s].obj \in Held
          BY <4>1, <1>0 DEF Shapes, Shape, Of, Held
        <4>3. Private(req[t]) => req[s].obj # req[t].obj
          BY <2>3, <1>0 DEF Own
        <4>4. Has(os[req[s].obj], bit) <=> Has(obj[req[s].obj], bit)
          BY <4>2, <4>3, <3>2, <1>0 DEF Frame
        <4> QED
          BY <4>2, <4>4, <2>3, <1>3
      <3>6. Knows(kind, req[s], obj'[req[s].obj], s1, bit)
        BY <3>3, <3>4, <3>5, <1>5, KnowsFrame
      <3> QED
        BY <3>1, <3>6, <1>0
    <2> QED
      BY <2>1, <2>2, <2>3
  <1>8. Knowledge'
    BY <1>7, <1>2 DEF Knowledge
  \* The cached object.
  <1> DEFINE o == c["it"]
  <1>9. ASSUME o # None, NEW bit \in Bits, bit \notin loose'
        PROVE  /\ (\A s \in Threads : bit \notin Touches(req'[s])) => Same(kind, obj'[o], s1, bit)
               /\ \A s \in Threads : bit \in Touches(req'[s]) \ touched'[s] =>
                    Follows(kind, req'[s], o, obj'[o], s1, bit)
    <2>1. o \in Objs /\ obj'[o] = os[o]
      BY <1>0, <1>3, <1>9 DEF Ids
    <2>2. loose' = Loose(t, mended, left)
      BY <1>0 DEF StepWith
    <2>3. CASE o # cache["it"]
      <3>1. loose' = touched[t] /\ r.pc # "idle"
        BY <2>2, <2>3, <1>0, <1>2, <1>9 DEF Loose, Cached
      <3>2. Same(kind, os[o], s1, bit) /\ (bit \in Touches(r) => Follows(kind, r, o, os[o], s1, bit))
        BY <2>3, <3>1, <1>0, <1>9 DEF Cached
      <3>3. \A s \in Threads : s # t => bit \notin Touches(req'[s])
        <4>1. req[t].pc # "idle"
          BY <2>3, <1>9, <1>0 DEF Lawful, Private
        <4> QED
          BY <3>1, <4>1, <1>0, <1>2, <1>9 DEF Wary
      <3> QED
        BY <3>2, <3>3, <2>1, <1>2
    <2>4. CASE o = cache["it"]
      <3>0. /\ bit \notin loose \ mended /\ bit \notin left
            /\ r.pc = "idle" => bit \notin Touches(req[t]) \cap touched[t]
        BY <2>2, <2>4, <1>2, <1>9 DEF Loose
      <3>1. /\ bit \notin loose /\ (\A s \in Threads : bit \notin Touches(req[s])) => Same(kind, obj[o], store["it"], bit)
            /\ bit \notin loose => \A s \in Threads : bit \in Touches(req[s]) \ touched[s] =>
                                     Follows(kind, req[s], o, obj[o], store["it"], bit)
        BY <2>4, <1>0, <1>9 DEF Agreement
      <3>2. bit \notin Touches(req[t]) =>
              /\ Has(store["it"], bit) <=> Has(s1, bit)
              /\ Has(obj[o], bit) <=> Has(os[o], bit)
        <4>1. o \in Held /\ (Private(req[t]) => o # req[t].obj)
          BY <2>4, <1>0 DEF Held, Own, Ids
        <4> QED
          BY <4>1, <2>1, <1>0 DEF Frame
      \* Other requests that touch the bit.
      <3>3. ASSUME NEW s \in Threads, s # t, bit \in Touches(req'[s]) \ touched'[s]
            PROVE  Follows(kind, req'[s], o, os[o], s1, bit)
        <4>1. req'[s] = req[s] /\ req[s].pc # "idle"
          <5>1. req'[s] = req[s]
            BY <3>3, <1>2
          <5>2. req[s].pc = "idle" => req[s].op = "none"
            BY <1>5 DEF At
          <5> QED
            BY <5>1, <5>2, <3>3, TouchesNone
        <4>2. bit \notin touched[s] /\ bit \notin Touches(r)
          BY <4>1, <3>3, <1>2, <1>4
        <4>3. bit \notin Touches(req[t])
          BY <4>1, <4>2, <3>3, <1>0 DEF Wary
        <4>4. bit \notin mended
          BY <4>3, <2>4, <1>0, <1>9 DEF Cached
        <4>5. Follows(kind, req[s], o, obj[o], store["it"], bit)
          BY <4>1, <4>2, <4>4, <3>0, <3>1, <3>3
        <4> QED
          BY <4>1, <4>3, <4>5, <3>2, FollowsFrame
      \* This request.
      <3>4. ASSUME bit \in Touches(r) \ touched'[t]
            PROVE  Follows(kind, r, o, os[o], s1, bit)
        <4>1. r.pc # "idle"
          <5>1. r.pc = "idle" => r.op = "none"
            BY <1>5 DEF At
          <5> QED
            BY <5>1, <3>4, TouchesNone
        <4>2. mended = {} /\ bit \notin loose /\ bit \notin touched[t]
              /\ \A s \in Threads : s # t => bit \notin Touches(req[s])
          BY <4>1, <3>4, <3>0, <2>4, <1>0, <1>2, <1>4, <1>9 DEF Cached
        <4>3. CASE req[t].pc = "idle"
          <5>1. bit \notin Touches(req[t])
            BY <4>3, <1>5, TouchesNone DEF At
          <5>2. Same(kind, obj[o], store["it"], bit)
            BY <5>1, <4>2, <3>1
          <5>3. r.obj = None /\ r.pc # "info" /\ ~Private(r) /\ os = obj /\ s1 = store["it"]
            BY <4>1, <4>3, <2>4, <1>0, <1>9 DEF Cached
          <5> QED
            BY <5>2, <5>3 DEF Follows
        <4>4. CASE req[t].pc # "idle"
          <5>1. bit \in Touches(req[t])
            BY <4>1, <4>4, <3>4, <1>0 DEF Frame
          <5>2. Stands(t, bit)
            BY <5>1, <4>2, <3>1, <2>4 DEF Stands
          <5> QED
            BY <5>1, <5>2, <4>1, <4>2, <4>4, <2>4, <1>0, <1>9 DEF Cached
        <4> QED
          BY <4>3, <4>4
      \* None does.
      <3>5. ASSUME \A s \in Threads : bit \notin Touches(req'[s])
            PROVE  Same(kind, os[o], s1, bit)
        <4>1. \A s \in Threads : s # t => bit \notin Touches(req[s])
          BY <3>5, <1>2
        <4>2. CASE bit \notin Touches(req[t])
          <5>1. bit \notin mended
            BY <4>2, <2>4, <1>0, <1>9 DEF Cached
          <5>2. Same(kind, obj[o], store["it"], bit)
            BY <5>1, <4>1, <4>2, <3>0, <3>1
          <5> QED
            BY <4>2, <5>2, <3>2 DEF Same
        <4>3. CASE bit \in Touches(req[t])
          <5>1. req[t].pc # "idle"
            BY <4>3, <1>5, TouchesNone DEF At
          <5>2. r.pc = "idle"
            BY <5>1, <4>3, <3>5, <1>0, <1>2 DEF Frame
          <5>3. bit \notin touched[t]
            BY <5>2, <4>3, <3>0
          <5>4. bit \notin loose => Stands(t, bit)
            BY <5>3, <4>3, <3>1, <2>4 DEF Stands
          <5> QED
            BY <5>2, <5>3, <5>4, <4>3, <3>0, <2>4, <1>0, <1>9 DEF Cached
        <4> QED
          BY <4>2, <4>3
      <3> QED
        BY <3>3, <3>4, <3>5, <2>1, <1>2
    <2> QED
      BY <2>3, <2>4
  <1>10. Agreement'
    BY <1>9, <1>2, <1>0 DEF Agreement
  <1> QED
    BY <1>1, <1>8, <1>10 DEF ChanInv

-----------------------------------------------------------------------------
\* The requests that the actions make of a request.
LEMMA IdleRec == Idle \in ReqRecs /\ Idle.op = "none" /\ Idle.pc = "idle" /\ Idle.obj = None /\ Idle.exist = {}
  BY DEF Idle, ReqRecs, Ops, PCs

\* A request goes on: only its step changes.
LEMMA GotoRec ==
  ASSUME Typing, NEW t \in Threads, NEW pc \in PCs
  PROVE  /\ Goto(t, pc) \in ReqRecs /\ Goto(t, pc).pc = pc
         /\ Goto(t, pc).op = req[t].op /\ Goto(t, pc).obj = req[t].obj
         /\ Goto(t, pc).uids = req[t].uids /\ Goto(t, pc).exist = req[t].exist
  BY DEF Typing, Goto, ReqRecs

\* A request finds its object.
Finds(r, o, pc) == [r EXCEPT !.obj = o, !.pc = pc]

\* Its object and its step change.
LEMMA FindsRec ==
  ASSUME NEW r \in ReqRecs, NEW pc \in PCs, NEW o \in Objs
  PROVE  /\ Finds(r, o, pc) \in ReqRecs /\ Finds(r, o, pc).pc = pc
         /\ Finds(r, o, pc).op = r.op /\ Finds(r, o, pc).obj = o
         /\ Finds(r, o, pc).uids = r.uids /\ Finds(r, o, pc).exist = r.exist
  BY DEF Finds, ReqRecs

\* A request reads which users are subscribers.
Reads(r, us, pc) == [r EXCEPT !.exist = us, !.pc = pc]

\* The users it read and its step change.
LEMMA ReadsRec ==
  ASSUME NEW r \in ReqRecs, NEW pc \in PCs, NEW us \in SUBSET Uids
  PROVE  /\ Reads(r, us, pc) \in ReqRecs /\ Reads(r, us, pc).pc = pc
         /\ Reads(r, us, pc).op = r.op /\ Reads(r, us, pc).obj = r.obj
         /\ Reads(r, us, pc).uids = r.uids /\ Reads(r, us, pc).exist = us
  BY DEF Reads, ReqRecs

\* A request comes in.
Starts(op, us, pc) == [Idle EXCEPT !.op = op, !.uids = us, !.pc = pc]

\* It has its operation and its users, and no object yet.
LEMMA StartsRec ==
  ASSUME NEW op \in Ops, NEW us \in SUBSET Uids, NEW pc \in PCs
  PROVE  /\ Starts(op, us, pc) \in ReqRecs /\ Starts(op, us, pc).pc = pc
         /\ Starts(op, us, pc).op = op /\ Starts(op, us, pc).obj = None
         /\ Starts(op, us, pc).uids = us /\ Starts(op, us, pc).exist = {}
  BY IdleRec DEF Starts, ReqRecs, Idle

\* What is known of a request at its step.
LEMMA ReqFacts ==
  ASSUME Typed, NEW t \in Threads
  PROVE  /\ req[t] \in ReqRecs /\ req[t].uids \in SUBSET Uids /\ req[t].exist \in SUBSET Uids
         /\ req[t].op \in At(req[t].pc)
         /\ Holds(req[t]) => req[t].obj \in Objs /\ Of(obj, req[t].obj, "it") /\ obj[req[t].obj] \in ChanRecs
         /\ ~Holds(req[t]) => req[t].obj = None
         /\ req[t].op # "subAdd" => req[t].exist = {}
         /\ req[t].op = "create" /\ req[t].pc = "fill" => req[t].uids # {}
         /\ Typing /\ store["it"] \in StoreRecs /\ store \in [Ids -> StoreRecs]
         /\ cache \in [Ids -> Objs \cup {None}] /\ cache["it"] \in Objs \cup {None}
         /\ \A f \in Lists : store["it"][f] \in SUBSET Uids
         /\ Holds(req[t]) => \A f \in Lists : obj[req[t].obj][f] \in SUBSET Uids
         /\ Touches(req[t]) \subseteq Bits
  <1>1. req[t] \in ReqRecs /\ Typing /\ store["it"] \in StoreRecs /\ store \in [Ids -> StoreRecs]
        /\ cache \in [Ids -> Objs \cup {None}] /\ cache["it"] \in Objs \cup {None}
    BY DEF Typed, Typing, Ids
  <1>2. Shape(req[t], obj)
    BY DEF Typed, Shapes
  <1>3. req[t].uids \in SUBSET Uids /\ req[t].exist \in SUBSET Uids
    BY <1>1 DEF ReqRecs
  <1>4. \A f \in Lists : store["it"][f] \in SUBSET Uids
    BY <1>1 DEF StoreRecs, Lists
  <1>5. Holds(req[t]) => req[t].obj \in Objs /\ Of(obj, req[t].obj, "it") /\ obj[req[t].obj] \in ChanRecs
    BY <1>2 DEF Shape, Of
  <1>6. Holds(req[t]) => \A f \in Lists : obj[req[t].obj][f] \in SUBSET Uids
    BY <1>5 DEF ChanRecs, Lists
  <1>7. Touches(req[t]) \subseteq Bits
    BY <1>1, TouchesBits
  <1> QED
    BY <1>1, <1>2, <1>3, <1>4, <1>5, <1>6, <1>7 DEF Shape

-----------------------------------------------------------------------------
\* A field and a value of its type.
Fitting(f, v) ==
  \/ f = "info" /\ v \in {"none", "open", "ban"}
  \/ f \in Lists /\ v \in SUBSET Uids
  \/ f = "tmp" /\ v \in SUBSET Uids

\* One field of the stored channel changes.
LEMMA StoredFacts ==
  ASSUME Typing, NEW f, NEW v, Stored(f, v), Fitting(f, v), f # "tmp"
  PROVE  /\ store' \in [Ids -> StoreRecs] /\ store'["it"] \in StoreRecs
         /\ store'["it"] = [store["it"] EXCEPT ![f] = v]
  <1> store \in [Ids -> StoreRecs] /\ "it" \in Ids /\ store["it"] \in StoreRecs
    BY DEF Typing, Ids
  <1>1. store' = [store EXCEPT !["it"][f] = v]
    BY DEF Stored
  <1>2. store'["it"] = [store["it"] EXCEPT ![f] = v]
    BY <1>1
  <1>3. [store["it"] EXCEPT ![f] = v] \in StoreRecs
    <2>1. CASE f = "info" /\ v \in {"none", "open", "ban"}
      BY <2>1 DEF StoreRecs
    <2>2. CASE f \in Lists /\ v \in SUBSET Uids
      BY <2>2 DEF StoreRecs, Lists
    <2> QED
      BY <2>1, <2>2 DEF Fitting
  <1> QED
    BY <1>1, <1>2, <1>3

\* ... a list of it,
LEMMA StoredList ==
  ASSUME Typing, NEW f \in Lists, NEW v \in SUBSET Uids, Stored(f, v)
  PROVE  /\ store' \in [Ids -> StoreRecs] /\ store'["it"] \in StoreRecs
         /\ \A bit \in Bits : bit[1] = f => (Has(store'["it"], bit) <=> bit[2] \in v)
         /\ \A bit \in Bits : bit[1] # f => (Has(store'["it"], bit) <=> Has(store["it"], bit))
  <1>1. store' \in [Ids -> StoreRecs] /\ store'["it"] \in StoreRecs /\ store'["it"] = [store["it"] EXCEPT ![f] = v]
    BY StoredFacts DEF Fitting, Lists
  <1> DEFINE c == store["it"]
             d == [c EXCEPT ![f] = v]
  <1>2. c \in StoreRecs
    BY DEF Typing, Ids
  <1> HIDE DEF c
  <1>3. /\ \A bit \in Bits : bit[1] = f => (Has(d, bit) <=> bit[2] \in v)
        /\ \A bit \in Bits : bit[1] # f => (Has(d, bit) <=> Has(c, bit))
    BY <1>2, HasList
  <1>4. store'["it"] = d
    BY <1>1 DEF c
  <1> HIDE DEF d
  <1> QED
    BY <1>1, <1>3, <1>4 DEF c

\* ... or its information.
LEMMA StoredInfo ==
  ASSUME Typing, NEW v \in {"none", "open", "ban"}, Stored("info", v)
  PROVE  /\ store' \in [Ids -> StoreRecs] /\ store'["it"] \in StoreRecs
         /\ Has(store'["it"], Ban) <=> v = "ban"
         /\ \A bit \in Bits : bit # Ban => (Has(store'["it"], bit) <=> Has(store["it"], bit))
  <1>0. Fitting("info", v)
    BY DEF Fitting
  <1>1. store' \in [Ids -> StoreRecs] /\ store'["it"] \in StoreRecs /\ store'["it"] = [store["it"] EXCEPT !["info"] = v]
    BY <1>0, StoredFacts
  <1> DEFINE c == store["it"]
             d == [c EXCEPT !["info"] = v]
  <1>2. c \in StoreRecs
    BY DEF Typing, Ids
  <1> HIDE DEF c
  <1>3. /\ Has(d, Ban) <=> v = "ban"
        /\ \A bit \in Bits : bit # Ban => (Has(d, bit) <=> Has(c, bit))
    BY <1>2, HasInfo
  <1>4. store'["it"] = d
    BY <1>1 DEF c
  <1> HIDE DEF d
  <1> QED
    BY <1>1, <1>3, <1>4 DEF c

\* Objects remain, and remain of their channel.
Keeps(os) ==
  /\ os \in [Objs -> ChanRecs \cup {None}]
  /\ \A o \in Objs, ch \in Ids : Of(obj, o, ch) => Of(os, o, ch)

\* Objects left alone remain.
LEMMA KeepsObj == ASSUME Typed PROVE Keeps(obj)
  BY DEF Typed, Typing, Keeps

\* One field of an object changes.
Revised(o, f, v) == [obj EXCEPT ![o][f] = v]

\* The object remains one of its channel,
LEMMA RevisedKeeps ==
  ASSUME Typing, NEW o \in Objs, Of(obj, o, "it"), NEW f, NEW v, Fitting(f, v)
  PROVE  Keeps(Revised(o, f, v))
  <1> DEFINE os == Revised(o, f, v)
  <1> obj \in [Objs -> ChanRecs \cup {None}] /\ obj[o] \in ChanRecs
    BY DEF Typing, Of
  <1>1. os[o] = [obj[o] EXCEPT ![f] = v] /\ \A p \in Objs : p # o => os[p] = obj[p]
    BY DEF Revised
  <1>2. [obj[o] EXCEPT ![f] = v] \in ChanRecs /\ [obj[o] EXCEPT ![f] = v].ch = obj[o].ch
    <2>1. CASE f = "info" /\ v \in {"none", "open", "ban"}
      BY <2>1 DEF ChanRecs
    <2>2. CASE f \in Lists /\ v \in SUBSET Uids
      BY <2>2 DEF ChanRecs, Lists
    <2>3. CASE f = "tmp" /\ v \in SUBSET Uids
      BY <2>3 DEF ChanRecs
    <2> QED
      BY <2>1, <2>2, <2>3 DEF Fitting
  <1>3. os \in [Objs -> ChanRecs \cup {None}]
    BY <1>2 DEF Revised
  <1> HIDE DEF os
  <1>4. \A p \in Objs, ch \in Ids : Of(obj, p, ch) => Of(os, p, ch)
    BY <1>1, <1>2 DEF Of
  <1> QED
    BY <1>1, <1>3, <1>4 DEF Keeps, os

\* and of its bits only those of the list change,
LEMMA RevisedList ==
  ASSUME Typing, NEW o \in Objs, Of(obj, o, "it"), NEW f \in Lists, NEW v \in SUBSET Uids
  PROVE  /\ Keeps(Revised(o, f, v))
         /\ \A bit \in Bits : bit[1] = f => (Has(Revised(o, f, v)[o], bit) <=> bit[2] \in v)
         /\ \A p \in Objs : \A bit \in Bits : bit[1] # f \/ p # o => (Has(Revised(o, f, v)[p], bit) <=> Has(obj[p], bit))
  <1>0. Fitting(f, v)
    BY DEF Fitting
  <1> DEFINE os == Revised(o, f, v)
             c == obj[o]
             d == [c EXCEPT ![f] = v]
  <1>1. Keeps(os) /\ os[o] = d /\ \A p \in Objs : p # o => os[p] = obj[p]
    <2>1. Keeps(os)
      BY <1>0, RevisedKeeps
    <2>2. os[o] = d /\ \A p \in Objs : p # o => os[p] = obj[p]
      BY DEF Revised, Typing
    <2> QED
      BY <2>1, <2>2
  <1>2. c \in ChanRecs
    BY DEF Of
  <1> HIDE DEF c
  <1>3. /\ \A bit \in Bits : bit[1] = f => (Has(d, bit) <=> bit[2] \in v)
        /\ \A bit \in Bits : bit[1] # f => (Has(d, bit) <=> Has(c, bit))
    BY <1>2, HasList
  <1> HIDE DEF d, os
  <1>4. ASSUME NEW p \in Objs, NEW bit \in Bits, bit[1] # f \/ p # o PROVE Has(os[p], bit) <=> Has(obj[p], bit)
    <2>1. CASE p # o
      BY <1>1, <2>1
    <2>2. CASE p = o
      BY <1>1, <1>3, <1>4, <2>2 DEF c
    <2> QED
      BY <2>1, <2>2
  <1> QED
    BY <1>1, <1>3, <1>4 DEF os

\* the ban,
LEMMA RevisedInfo ==
  ASSUME Typing, NEW o \in Objs, Of(obj, o, "it"), NEW v \in {"none", "open", "ban"}
  PROVE  /\ Keeps(Revised(o, "info", v))
         /\ Has(Revised(o, "info", v)[o], Ban) <=> v = "ban"
         /\ \A p \in Objs : \A bit \in Bits : bit # Ban \/ p # o => (Has(Revised(o, "info", v)[p], bit) <=> Has(obj[p], bit))
  <1>0. Fitting("info", v)
    BY DEF Fitting
  <1> DEFINE os == Revised(o, "info", v)
             c == obj[o]
             d == [c EXCEPT !["info"] = v]
  <1>1. Keeps(os) /\ os[o] = d /\ \A p \in Objs : p # o => os[p] = obj[p]
    <2>1. Keeps(os)
      BY <1>0, RevisedKeeps
    <2>2. os[o] = d /\ \A p \in Objs : p # o => os[p] = obj[p]
      BY DEF Revised, Typing
    <2> QED
      BY <2>1, <2>2
  <1>2. c \in ChanRecs
    BY DEF Of
  <1> HIDE DEF c
  <1>3. /\ Has(d, Ban) <=> v = "ban"
        /\ \A bit \in Bits : bit # Ban => (Has(d, bit) <=> Has(c, bit))
    BY <1>2, HasInfo
  <1> HIDE DEF d, os
  <1>4. ASSUME NEW p \in Objs, NEW bit \in Bits, bit # Ban \/ p # o PROVE Has(os[p], bit) <=> Has(obj[p], bit)
    <2>1. CASE p # o
      BY <1>1, <2>1
    <2>2. CASE p = o
      BY <1>1, <1>3, <1>4, <2>2 DEF c
    <2> QED
      BY <2>1, <2>2
  <1> QED
    BY <1>1, <1>3, <1>4 DEF os

\* or none.
LEMMA RevisedTemps ==
  ASSUME Typing, NEW o \in Objs, Of(obj, o, "it"), NEW v \in SUBSET Uids
  PROVE  /\ Keeps(Revised(o, "tmp", v))
         /\ \A p \in Objs : \A bit \in Bits : Has(Revised(o, "tmp", v)[p], bit) <=> Has(obj[p], bit)
  <1>0. Fitting("tmp", v)
    BY DEF Fitting
  <1> DEFINE os == Revised(o, "tmp", v)
             c == obj[o]
             d == [c EXCEPT !["tmp"] = v]
  <1>1. Keeps(os) /\ os[o] = d /\ \A p \in Objs : p # o => os[p] = obj[p]
    <2>1. Keeps(os)
      BY <1>0, RevisedKeeps
    <2>2. os[o] = d /\ \A p \in Objs : p # o => os[p] = obj[p]
      BY DEF Revised, Typing
    <2> QED
      BY <2>1, <2>2
  <1>2. c \in ChanRecs
    BY DEF Of
  <1> HIDE DEF c
  <1>3. \A bit \in Bits : Has(d, bit) <=> Has(c, bit)
    BY <1>2, HasTemps
  <1> HIDE DEF d, os
  <1>4. ASSUME NEW p \in Objs, NEW bit \in Bits PROVE Has(os[p], bit) <=> Has(obj[p], bit)
    <2>1. CASE p # o
      BY <1>1, <2>1
    <2>2. CASE p = o
      BY <1>1, <1>3, <1>4, <2>2 DEF c
    <2> QED
      BY <2>1, <2>2
  <1> QED
    BY <1>1, <1>3, <1>4 DEF os

-----------------------------------------------------------------------------
\* A request that ends, or goes on with what it has, is lawful.
LEMMA Ordinary ==
  ASSUME Typed, NEW t \in Threads, NEW r \in ReqRecs, NEW os, Keeps(os), NEW c \in [Ids -> Objs \cup {None}],
         r.op \in At(r.pc), r.op # "subAdd" => r.exist = {}, r.op = "create" /\ r.pc = "fill" => r.uids # {},
         \/ ~Holds(r) /\ r.obj = None
         \/ Holds(r) /\ Holds(req[t]) /\ r.obj = req[t].obj /\ (Private(r) => Private(req[t])),
         c["parent"] = cache["parent"], c["it"] \in {None, cache["it"]}
  PROVE  Lawful(t, r, os, c)
  <1>1. Shape(req[t], obj)
    BY DEF Typed, Shapes
  <1>2. Holds(r) => Of(os, r.obj, "it")
    BY <1>1 DEF Shape, Keeps, Of, Ids
  <1>3. Shape(r, os)
    BY <1>2 DEF Shape
  <1>4. Private(r) => Holds(r)
    BY DEF Private, Holds
  <1> QED
    BY <1>3, <1>4 DEF Lawful, Keeps

\* A request goes on and keeps its object, if it has one.
LEMMA GotoLawful ==
  ASSUME Typed, NEW t \in Threads, NEW os, Keeps(os), NEW pc \in PCs,
         req[t].op \in At(pc), req[t].op = "create" /\ pc = "fill" => req[t].uids # {},
         Holds(Goto(t, pc)) <=> Holds(req[t]),
         Private(Goto(t, pc)) => Private(req[t])
  PROVE  Lawful(t, Goto(t, pc), os, cache)
  <1> DEFINE r == Goto(t, pc)
  <1>1. /\ r \in ReqRecs /\ r.pc = pc /\ r.op = req[t].op /\ r.obj = req[t].obj
        /\ r.uids = req[t].uids /\ r.exist = req[t].exist
    BY GotoRec DEF Typed
  <1>2. \/ ~Holds(r) /\ r.obj = None
        \/ Holds(r) /\ Holds(req[t]) /\ r.obj = req[t].obj /\ (Private(r) => Private(req[t]))
    BY <1>1, ReqFacts
  <1>3. r.op \in At(r.pc) /\ (r.op # "subAdd" => r.exist = {}) /\ (r.op = "create" /\ r.pc = "fill" => r.uids # {})
    BY <1>1, ReqFacts
  <1>4. cache \in [Ids -> Objs \cup {None}] /\ cache["it"] \in {None, cache["it"]}
    BY ReqFacts
  <1> HIDE DEF r
  <1>5. Lawful(t, r, os, cache)
    BY <1>1, <1>2, <1>3, <1>4, Ordinary
  <1> QED
    BY <1>5 DEF r

\* An end is lawful.
LEMMA EndLawful ==
  ASSUME Typed, NEW t \in Threads, NEW os, Keeps(os), NEW c \in [Ids -> Objs \cup {None}],
         c["parent"] = cache["parent"], c["it"] \in {None, cache["it"]}
  PROVE  Lawful(t, Idle, os, c)
  <1>1. ~Holds(Idle) /\ Idle.obj = None
    BY IdleRec DEF Holds
  <1>2. /\ Idle \in ReqRecs /\ Idle.op \in At(Idle.pc) /\ (Idle.op # "subAdd" => Idle.exist = {})
        /\ (Idle.op = "create" /\ Idle.pc = "fill" => Idle.uids # {})
    BY IdleRec DEF At
  <1> QED
    BY <1>1, <1>2, Ordinary

\* Objects whose bits change only where a request touches them, and a store likewise.
LEMMA Framed ==
  ASSUME NEW t \in Threads, NEW r, NEW os, NEW s \in StoreRecs,
         \A bit \in Bits : bit \notin Touches(req[t]) => (Has(s, bit) <=> Has(store["it"], bit)),
         \A o \in Objs : o \in Held /\ (Private(req[t]) => o # req[t].obj) =>
           \A bit \in Bits : bit \notin Touches(req[t]) => (Has(os[o], bit) <=> Has(obj[o], bit)),
         req[t].pc = "idle" \/ r.pc = "idle" \/ (r.op = req[t].op /\ r.uids = req[t].uids)
  PROVE  Frame(t, r, os, s)
  <1>1. r.op = req[t].op /\ r.uids = req[t].uids => Touches(r) = Touches(req[t])
    BY TouchesSame
  <1> QED
    BY <1>1 DEF Frame

\* A request goes on, with the cache as it is.
LEMMA GoesOn ==
  ASSUME ChanInv, NEW t \in Threads, NEW r, NEW os, NEW found, found \subseteq Bits,
         StepWith(t, r, os, cache, {}, {}, found), store' \in [Ids -> StoreRecs],
         Lawful(t, r, os, cache), Frame(t, r, os, store'["it"]), req[t].pc # "idle",
         \A bit \in Bits \ (touched[t] \cup found) :
           Knows(kind, req[t], obj[req[t].obj], store["it"], bit) => Knows(kind, r, os[r.obj], store'["it"], bit),
         \A bit \in Touches(req[t]) \ touched[t] :
           cache["it"] \in Objs /\ Stands(t, bit) => Follows(kind, r, cache["it"], os[cache["it"]], store'["it"], bit),
         r.pc # "idle"
  PROVE  ChanInv'
  <1>1. \A bit \in Bits \ touched[t] : Knows(kind, req[t], obj[req[t].obj], store["it"], bit)
    BY DEF ChanInv, Knowledge
  <1>2. Learns(t, r, os, store'["it"], found)
    BY <1>1 DEF Learns
  <1>3. cache["it"] \in Objs \cup {None}
    BY ReqFacts DEF ChanInv
  <1>4. Cached(t, r, os, cache, store'["it"], {}, {})
    BY <1>3 DEF Cached
  <1>5. Makes(t, r, os, cache, store'["it"], {}, {}, found)
    BY <1>2, <1>4 DEF Makes
  <1> QED
    BY <1>5, Advance

\* A request ends.
LEMMA Ends ==
  ASSUME ChanInv, NEW t \in Threads, NEW os, NEW mended, NEW left, mended \subseteq Touches(req[t]), left \subseteq Bits,
         StepWith(t, Idle, os, cache, mended, left, {}), store' \in [Ids -> StoreRecs],
         Keeps(os), Frame(t, Idle, os, store'["it"]), req[t].pc # "idle",
         \A bit \in Touches(req[t]) \ (touched[t] \cup left) :
           cache["it"] \in Objs /\ (bit \notin loose => Stands(t, bit)) /\ (bit \notin loose \ mended) =>
             Same(kind, os[cache["it"]], store'["it"], bit)
  PROVE  ChanInv'
  <1>0. Typed /\ cache["it"] \in Objs \cup {None} /\ cache \in [Ids -> Objs \cup {None}] /\ Touches(req[t]) \subseteq Bits
    BY ReqFacts DEF ChanInv
  <1>1. Lawful(t, Idle, os, cache)
    BY <1>0, EndLawful
  <1>2. Learns(t, Idle, os, store'["it"], {})
    BY IdleRec DEF Learns
  <1>3. Cached(t, Idle, os, cache, store'["it"], mended, left)
    BY <1>0, IdleRec DEF Cached
  <1>4. Makes(t, Idle, os, cache, store'["it"], mended, left, {})
    BY <1>0, <1>1, <1>2, <1>3 DEF Makes
  <1> QED
    BY <1>4, Advance

\* A request ends with a change of its object.
LEMMA Finishes ==
  ASSUME ChanInv, NEW t \in Threads, NEW os, NEW bits, bits \subseteq Touches(req[t]),
         Done(t, os, bits), KeepStore, Keeps(os), Frame(t, Idle, os, store["it"]), Holds(req[t]), req[t].pc # "idle",
         \A bit \in Touches(req[t]) \ touched[t] : bit \in bits \/ (Stands(t, bit) /\ req[t].obj = cache["it"]) =>
             Same(kind, os[req[t].obj], store["it"], bit)
  PROVE  ChanInv'
  <1> DEFINE mended == IF req[t].obj = cache["it"] THEN bits ELSE {}
  <1>0. Typed /\ req[t].obj \in Objs /\ store' = store /\ store \in [Ids -> StoreRecs] /\ req[t].obj # None
    BY ReqFacts, ChannelConstants DEF ChanInv, KeepStore
  <1>1. StepWith(t, Idle, os, cache, mended, {}, {})
    BY DEF Done
  <1>2. mended \subseteq Touches(req[t])
    OBVIOUS
  <1>3. ASSUME NEW bit \in Touches(req[t]) \ (touched[t] \cup {}),
               cache["it"] \in Objs, bit \notin loose => Stands(t, bit), bit \notin loose \ mended
        PROVE  Same(kind, os[cache["it"]], store["it"], bit)
    <2>1. req[t].obj = cache["it"]
      <3>1. CASE bit \in loose
        BY <1>3, <3>1
      <3>2. CASE bit \notin loose
        BY <1>0, <1>3, <3>2 DEF Stands, Follows
      <3> QED
        BY <3>1, <3>2
    <2> QED
      BY <1>3, <2>1
  <1>4. \A bit \in Touches(req[t]) \ (touched[t] \cup {}) :
          cache["it"] \in Objs /\ (bit \notin loose => Stands(t, bit)) /\ (bit \notin loose \ mended) =>
             Same(kind, os[cache["it"]], store'["it"], bit)
    BY <1>0, <1>3
  <1>5. Frame(t, Idle, os, store'["it"])
    BY <1>0
  <1> HIDE DEF mended
  <1> QED
    BY <1>0, <1>1, <1>2, <1>4, <1>5, Ends

\* Without change of store and objects everything stays in its frame.
LEMMA StillFrame ==
  ASSUME Typed, NEW t \in Threads, NEW r,
         req[t].pc = "idle" \/ r.pc = "idle" \/ (r.op = req[t].op /\ r.uids = req[t].uids)
  PROVE  Frame(t, r, obj, store["it"])
  <1>1. store["it"] \in StoreRecs
    BY ReqFacts
  <1> QED
    BY <1>1, Framed

-----------------------------------------------------------------------------
\* The invariant, action by action.
LEMMA BeginInv == ASSUME ChanInv, NEW t \in Threads, Begin(t) PROVE ChanInv'
  <1> DEFINE first(op) == IF op \in Temps \cup Subs \cup {"send"} THEN "get" ELSE "store"
  <1>1. PICK op \in Operations, us \in SUBSET Uids :
          Step(t, Starts(op, us, first(op)), obj, cache)
    BY DEF Begin, Starts
  <1>2. op \in Ops /\ first(op) \in PCs /\ op \in At(first(op)) /\ (first(op) = "get" => op \notin ListOps)
    <2>1. op \in ListOps \cup Infos \cup Subs \cup Temps \cup {"send"}
      BY DEF Operations, Infos, Subs
    <2> QED
      BY <2>1 DEF At, ListOps, PCs, Ops, Lookups, Infos, Subs, Temps, Adds, Sets, Removes
  <1> DEFINE r == Starts(op, us, first(op))
  <1>3. r \in ReqRecs /\ r.pc = first(op) /\ r.op = op /\ r.obj = None /\ r.exist = {}
    BY <1>2, StartsRec
  <1>4. ~Holds(r) /\ ~Private(r) /\ r.pc # "info" /\ r.pc # "fill" /\ r.pc # "idle"
    BY <1>3 DEF Holds, Private
  <1>5. req[t].pc = "idle" /\ store' = store /\ Typed
    BY DEF Begin, ChanInv
  <1>6. store \in [Ids -> StoreRecs] /\ cache \in [Ids -> Objs \cup {None}]
    BY <1>5, ReqFacts
  <1>8. StepWith(t, r, obj, cache, {}, {}, {})
    BY <1>1 DEF Step
  <1>14. r.pc \in {"get", "store"} /\ (r.pc = "get" => r.op \notin ListOps)
    BY <1>2, <1>3
  <1> HIDE DEF r
  <1>7. \A bit \in Bits : Knows(kind, r, obj[r.obj], store["it"], bit)
    <2>1. ~Behind(r)
      BY <1>14 DEF Behind, Lookups
    <2> QED
      BY <1>4, <1>14, <2>1 DEF Knows
  <1>9. Lawful(t, r, obj, cache)
    BY <1>2, <1>3, <1>4, <1>5, <1>6, KeepsObj, Ordinary
  <1>10. Frame(t, r, obj, store["it"])
    BY <1>5, StillFrame
  <1>11. Cached(t, r, obj, cache, store["it"], {}, {})
    BY <1>3, <1>4, <1>5 DEF Cached
  <1>12. Learns(t, r, obj, store["it"], {})
    BY <1>7 DEF Learns
  <1>13. Makes(t, r, obj, cache, store["it"], {}, {}, {})
    BY <1>5, <1>6, <1>8, <1>9, <1>10, <1>11, <1>12 DEF Makes
  <1> QED
    BY <1>13, Advance

\* The store fails: what is Left behind is loose.
LEMMA StoreFailsInv == ASSUME ChanInv, NEW t \in Threads, StoreFails(t) PROVE ChanInv'
  <1> DEFINE r == req[t]
  <1>1. /\ Typed /\ Typing /\ store' = store /\ store \in [Ids -> StoreRecs] /\ r \in ReqRecs /\ Touches(r) \subseteq Bits
        /\ StepWith(t, Idle, obj, cache, {}, Left(r), {})
        /\ \/ r.pc \in {"store", "info", "subs", "deny", "allow", "clear", "fill", "refill"}
           \/ r.pc = "use" /\ r.op \in {"subAdd", "subRemove"}
        /\ r.pc # "idle" /\ r.op \in At(r.pc)
    BY ReqFacts DEF ChanInv, StoreFails
  <1>2. Left(r) \subseteq Bits
    BY <1>1 DEF Left, Bits
  <1>3. Frame(t, Idle, obj, store["it"])
    BY <1>1, IdleRec, StillFrame
  <1>4. ASSUME NEW bit \in Touches(r) \ (touched[t] \cup Left(r)),
               cache["it"] \in Objs, Stands(t, bit)
        PROVE  Same(kind, obj[cache["it"]], store["it"], bit)
    <2>1. r.pc # "info" /\ ~Private(r) /\ r.obj \in {None, cache["it"]}
          /\ (Before(r, bit) => Same(kind, obj[cache["it"]], store["it"], bit))
      BY <1>4 DEF Stands, Follows
    <2>2. CASE r.pc = "store"
      BY <2>1, <2>2 DEF Before
    <2>3. CASE r.pc = "use"
      BY <1>1, <2>1, <2>3 DEF Before, Lookups, Subs
    <2>4. CASE r.pc = "clear"
      <3>1. r.op \in {"create", "subReset"}
        BY <1>1, <2>4 DEF At
      <3>2. r.op = "create" => bit # Ban
        BY <1>4, <2>4 DEF Left, ListOps, Adds, Sets, Removes
      <3> QED
        BY <2>1, <2>4, <3>1, <3>2 DEF Before
    <2>5. CASE r.pc = "refill"
      BY <1>1, <1>4, <2>5 DEF Left, At, ListOps
    <2>6. CASE r.pc = "fill"
      <3>1. r.op \in {"create", "subAdd", "subReset"}
        BY <1>1, <2>6 DEF At
      <3>2. CASE r.op = "create"
        BY <1>4, <2>6, <3>2 DEF Left, ListOps, Adds, Sets, Removes
      <3>3. CASE r.op = "subAdd"
        BY <2>1, <2>6, <3>3 DEF Before
      <3>4. CASE r.op = "subReset"
        <4>1. Holds(r)
          BY <2>6, <3>4 DEF Holds
        <4>2. r.obj = cache["it"]
          BY <1>1, <2>1, <4>1, ReqFacts, ChannelConstants
        <4>3. bit \in Bits /\ bit \notin touched[t] /\ bit \in Touches(r)
          BY <1>1, <1>4
        <4>4. Knows(kind, r, obj[r.obj], store["it"], bit)
          BY <4>3 DEF ChanInv, Knowledge
        <4>5. Behind(r) /\ Wrote(r) = {}
          BY <2>6, <3>4 DEF Behind, Wrote, Adds, Sets
        <4> QED
          BY <2>6, <3>4, <4>2, <4>3, <4>4, <4>5 DEF Knows, Same
      <3> QED
        BY <3>1, <3>2, <3>3, <3>4
    <2> QED
      BY <1>1, <2>1, <2>2, <2>3, <2>4, <2>5, <2>6 DEF Private
  <1>5. \A bit \in Touches(r) \ (touched[t] \cup Left(r)) :
          cache["it"] \in Objs /\ (bit \notin loose => Stands(t, bit)) /\ (bit \notin loose \ {}) =>
             Same(kind, obj[cache["it"]], store'["it"], bit)
    BY <1>1, <1>4
  <1>6. Frame(t, Idle, obj, store'["it"]) /\ {} \subseteq Touches(req[t]) /\ Keeps(obj) /\ store' \in [Ids -> StoreRecs]
    BY <1>1, <1>3, KeepsObj
  <1> QED
    BY <1>1, <1>2, <1>5, <1>6, Ends

\* GetChannel.
LEMMA GetChannelInv == ASSUME ChanInv, NEW t \in Threads, GetChannel(t) PROVE ChanInv'
  <1>1. /\ Typed /\ Typing /\ store' = store /\ store \in [Ids -> StoreRecs] /\ store' \in [Ids -> StoreRecs]
        /\ req[t] \in ReqRecs /\ Touches(req[t]) \subseteq Bits
        /\ cache \in [Ids -> Objs \cup {None}] /\ cache["it"] \in Objs \cup {None}
        /\ req[t].pc = "get" /\ req[t].op \in At("get")
    BY ReqFacts DEF ChanInv, GetChannel, KeepStore
  <1>2. At("get") = At("use") /\ At("get") = At("insert") /\ At("get") = At("subs") /\ At("get") = At("info")
        /\ "create" \notin At("get")
    BY DEF At, ListOps, Adds, Sets, Removes, Subs, Temps
  <1>3. "use" \in PCs /\ "subs" \in PCs /\ "info" \in PCs
    BY DEF PCs, Lookups
  <1>4. CASE cache["it"] # None
    <2> DEFINE o == cache["it"]
               r == Finds(req[t], o, "use")
               found == IF req[t].op = "send" THEN loose ELSE {}
    <2>1. StepWith(t, r, obj, cache, {}, {}, found)
      BY <1>4 DEF GetChannel, Finds
    <2>2. o \in Objs /\ Of(obj, o, "it")
      BY <1>1, <1>4 DEF Typed, Shapes, Ids
    <2>3. /\ r \in ReqRecs /\ r.pc = "use" /\ r.op = req[t].op /\ r.obj = o
          /\ r.uids = req[t].uids /\ r.exist = req[t].exist
      BY <1>1, <1>3, <2>2, FindsRec, SMTT(30)
    <2>4. found \subseteq Bits
      BY <1>1 DEF Typing
    <2> HIDE DEF r
    <2>5. Holds(r) /\ ~Private(r) /\ r.pc # "idle"
      BY <2>3 DEF Holds, Private
    <2>6. Lawful(t, r, obj, cache)
      <3>1. Shape(r, obj)
        BY <1>1, <1>2, <2>2, <2>3, <2>5, ReqFacts DEF Shape
      <3> QED
        BY <1>1, <2>3, <2>5, <3>1 DEF Lawful, Typing
    <2>7. Frame(t, r, obj, store["it"])
      BY <1>1, <2>3, StillFrame
    <2>8. ASSUME NEW bit \in Bits \ (touched[t] \cup found), Knows(kind, req[t], obj[req[t].obj], store["it"], bit)
          PROVE  Knows(kind, r, obj[r.obj], store["it"], bit)
      <3>1. r.op = "send" => Same(kind, obj[o], store["it"], bit)
        <4>1. SUFFICES ASSUME r.op = "send" PROVE Same(kind, obj[o], store["it"], bit)
          OBVIOUS
        <4>2. bit \notin loose
          BY <2>3, <2>8, <4>1
        <4>3. \A u \in Threads : bit \notin Touches(req[u])
          BY <1>1, <2>3, <2>8, <4>1, TouchesNone DEF Typed, Wary
        <4> QED
          BY <1>4, <4>2, <4>3 DEF ChanInv, Agreement
      <3>2. Touches(r) = Touches(req[t]) /\ (Behind(r) => Behind(req[t])) /\ Wrote(r) = Wrote(req[t])
        <4>1. Touches(r) = Touches(req[t])
          BY <2>3, TouchesSame
        <4> QED
          BY <1>1, <2>3, <4>1 DEF Behind, Wrote, Lookups
      <3> QED
        BY <2>3, <2>5, <2>8, <3>1, <3>2 DEF Knows
    <2>9. ASSUME NEW bit \in Touches(req[t]) \ touched[t], Stands(t, bit)
          PROVE  Follows(kind, r, o, obj[o], store["it"], bit)
      BY <1>1, <2>3, <2>5, <2>9 DEF Follows, Stands, Before, Lookups
    <2> HIDE DEF found, o
    <2>10. \A bit \in Bits \ (touched[t] \cup found) :
             Knows(kind, req[t], obj[req[t].obj], store["it"], bit) => Knows(kind, r, obj[r.obj], store'["it"], bit)
      BY <1>1, <2>8
    <2>11. \A bit \in Touches(req[t]) \ touched[t] :
             cache["it"] \in Objs /\ Stands(t, bit) => Follows(kind, r, cache["it"], obj[cache["it"]], store'["it"], bit)
      BY <1>1, <2>9 DEF o
    <2>12. Frame(t, r, obj, store'["it"]) /\ req[t].pc # "idle"
      BY <1>1, <2>7
    <2> QED
      BY <1>1, <2>1, <2>4, <2>5, <2>6, <2>10, <2>11, <2>12, GoesOn
  <1>5. CASE cache["it"] = None /\ kind = "person"
    <2> DEFINE r == Finds(req[t], Fresh, "subs")
               os == [obj EXCEPT ![Fresh] = Empty("it")]
    <2>1. StepWith(t, r, os, cache, {}, {}, {})
      BY <1>5 DEF GetChannel, Finds, Step
    <2>2. Fresh \in Objs /\ Fresh \notin Held
      BY FreshExists
    <2>3. /\ r \in ReqRecs /\ r.pc = "subs" /\ r.op = req[t].op /\ r.obj = Fresh
          /\ r.uids = req[t].uids /\ r.exist = req[t].exist
      BY <1>1, <1>3, <2>2, FindsRec, SMTT(30)
    <2>4. Empty("it") \in ChanRecs /\ Empty("it").ch = "it"
      BY DEF Empty, ChanRecs, Ids
    <2>5. os \in [Objs -> ChanRecs \cup {None}] /\ Of(os, Fresh, "it") /\ \A p \in Objs : p \in Held => os[p] = obj[p]
      BY <1>1, <2>2, <2>4 DEF Typing, Of
    <2> HIDE DEF r, os
    <2>6. Lawful(t, r, os, cache)
      <3>1. Shape(r, os)
        BY <1>1, <1>2, <2>2, <2>3, <2>5, ReqFacts DEF Shape, Holds
      <3>2. Private(r)
        BY <2>3 DEF Private
      <3> QED
        BY <1>1, <2>2, <2>3, <2>5, <3>1, <3>2 DEF Lawful, Of
    <2>7. Frame(t, r, os, store["it"])
      BY <1>1, <2>3, <2>5, ReqFacts, Framed
    <2>8. ASSUME NEW bit \in Bits, Knows(kind, req[t], obj[req[t].obj], store["it"], bit)
          PROVE  Knows(kind, r, os[r.obj], store["it"], bit)
      <3>1. Touches(r) = Touches(req[t]) /\ (Behind(r) => Behind(req[t])) /\ Wrote(r) = Wrote(req[t])
        <4>1. Touches(r) = Touches(req[t])
          BY <2>3, TouchesSame
        <4> QED
          BY <1>1, <2>3, <4>1 DEF Behind, Wrote, Lookups
      <3>2. ReadAt("subs", bit) => bit = Ban
        BY BitCases DEF ReadAt
      <3>3. Same(kind, os[r.obj], store["it"], Ban)
        BY <1>5 DEF Same, Exempt
      <3> QED
        BY <2>3, <2>8, <3>1, <3>2, <3>3 DEF Knows
    <2>9. Frame(t, r, os, store'["it"]) /\ req[t].pc # "idle" /\ r.pc # "idle"
          /\ \A bit \in Bits \ (touched[t] \cup {}) :
               Knows(kind, req[t], obj[req[t].obj], store["it"], bit) => Knows(kind, r, os[r.obj], store'["it"], bit)
      BY <1>1, <2>3, <2>7, <2>8
    <2>10. \A bit \in Touches(req[t]) \ touched[t] :
             cache["it"] \in Objs /\ Stands(t, bit) => Follows(kind, r, cache["it"], os[cache["it"]], store'["it"], bit)
      BY <1>5, ChannelConstants
    <2>11. {} \subseteq Bits
      OBVIOUS
    <2> QED
      BY <1>1, <2>1, <2>6, <2>9, <2>10, <2>11, GoesOn
  <1>6. CASE cache["it"] = None /\ kind # "person"
    <2> DEFINE r == Goto(t, "info")
    <2>1. StepWith(t, r, obj, cache, {}, {}, {})
      BY <1>6 DEF GetChannel, Step
    <2>2. /\ r \in ReqRecs /\ r.pc = "info" /\ r.op = req[t].op /\ r.obj = req[t].obj
          /\ r.uids = req[t].uids /\ r.exist = req[t].exist
      BY <1>1, <1>3, GotoRec
    <2>3. ~Holds(req[t]) /\ ~Holds(r) /\ ~Private(r)
      BY <1>1, <2>2 DEF Holds, Private
    <2>4. Lawful(t, r, obj, cache)
      BY <1>1, <1>2, <1>3, <2>3, KeepsObj, GotoLawful
    <2> HIDE DEF r
    <2>5. Frame(t, r, obj, store'["it"])
      BY <1>1, <2>2, StillFrame
    <2>6. ASSUME NEW bit \in Bits, Knows(kind, req[t], obj[req[t].obj], store["it"], bit)
          PROVE  Knows(kind, r, obj[r.obj], store["it"], bit)
      <3>1. Touches(r) = Touches(req[t]) /\ (Behind(r) => Behind(req[t])) /\ Wrote(r) = Wrote(req[t])
        <4>1. Touches(r) = Touches(req[t])
          BY <2>2, TouchesSame
        <4> QED
          BY <1>1, <2>2, <4>1 DEF Behind, Wrote, Lookups
      <3> QED
        BY <2>2, <2>3, <2>6, <3>1 DEF Knows
    <2>7. req[t].pc # "idle" /\ r.pc # "idle"
          /\ \A bit \in Bits \ (touched[t] \cup {}) :
               Knows(kind, req[t], obj[req[t].obj], store["it"], bit) => Knows(kind, r, obj[r.obj], store'["it"], bit)
      BY <1>1, <2>2, <2>6
    <2>8. \A bit \in Touches(req[t]) \ touched[t] :
             cache["it"] \in Objs /\ Stands(t, bit) => Follows(kind, r, cache["it"], obj[cache["it"]], store'["it"], bit)
      BY <1>6, ChannelConstants
    <2>9. {} \subseteq Bits
      OBVIOUS
    <2> QED
      BY <1>1, <2>1, <2>4, <2>5, <2>7, <2>8, <2>9, GoesOn
  <1> QED
    BY <1>1, <1>4, <1>5, <1>6

\* At the steps of a look-up a request knows of the store what it knew before.
LEMMA LooksOn ==
  ASSUME NEW t, NEW r, r.op = req[t].op, r.uids = req[t].uids, r.pc \in Lookups, req[t].pc \in Lookups
  PROVE  Touches(r) = Touches(req[t]) /\ (Behind(r) => Behind(req[t])) /\ Wrote(r) = Wrote(req[t])
  <1>1. Touches(r) = Touches(req[t])
    BY TouchesSame
  <1> QED
    BY <1>1 DEF Behind, Wrote, Lookups

\* The information is read.
LEMMA LoadInfoInv == ASSUME ChanInv, NEW t \in Threads, LoadInfo(t) PROVE ChanInv'
  <1>1. /\ Typed /\ Typing /\ store' = store /\ store' \in [Ids -> StoreRecs] /\ store["it"] \in StoreRecs
        /\ req[t] \in ReqRecs /\ Touches(req[t]) \subseteq Bits
        /\ cache \in [Ids -> Objs \cup {None}] /\ cache["it"] \in Objs \cup {None}
        /\ req[t].pc = "info" /\ req[t].op \in At("info")
    BY ReqFacts DEF ChanInv, LoadInfo, KeepStore
  <1>2. At("info") = At("subs") /\ "create" \notin At("info") /\ "subs" \in PCs
    BY DEF At, ListOps, Adds, Sets, Removes, Subs, Temps, PCs, Lookups
  <1>3. \A bit \in Bits : ~Stands(t, bit)
    BY <1>1 DEF Stands, Follows
  <1> DEFINE info == store["it"].info
  <1>4. CASE info = "none" /\ ~CreateIfNoExist /\ kind \notin {"topic", "info"}
    <2>1. StepWith(t, Idle, obj, cache, {}, {}, {})
      BY <1>4 DEF LoadInfo, End, Step
    <2>2. Keeps(obj) /\ Frame(t, Idle, obj, store'["it"]) /\ req[t].pc # "idle"
          /\ {} \subseteq Touches(req[t]) /\ {} \subseteq Bits
      BY <1>1, IdleRec, KeepsObj, StillFrame
    <2>3. \A bit \in Touches(req[t]) \ (touched[t] \cup {}) :
            cache["it"] \in Objs /\ (bit \notin loose => Stands(t, bit)) /\ (bit \notin loose \ {}) =>
              Same(kind, obj[cache["it"]], store'["it"], bit)
      BY <1>1, <1>3
    <2> QED
      BY <1>1, <2>1, <2>2, <2>3, Ends
  <1>5. CASE ~(info = "none" /\ ~CreateIfNoExist /\ kind \notin {"topic", "info"})
    <2> DEFINE r == Finds(req[t], Fresh, "subs")
               new == [Empty("it") EXCEPT !.info = info]
               os == [obj EXCEPT ![Fresh] = new]
    <2>1. StepWith(t, r, os, cache, {}, {}, {})
      BY <1>5 DEF LoadInfo, Finds, Step
    <2>2. Fresh \in Objs /\ Fresh \notin Held
      BY FreshExists
    <2>3. /\ r \in ReqRecs /\ r.pc = "subs" /\ r.op = req[t].op /\ r.obj = Fresh
          /\ r.uids = req[t].uids /\ r.exist = req[t].exist
      BY <1>1, <1>2, <2>2, FindsRec, SMTT(30)
    <2>4. new \in ChanRecs /\ new.ch = "it" /\ new.info = info
      BY <1>1 DEF Empty, ChanRecs, StoreRecs, Ids
    <2> HIDE DEF new
    <2>5. os \in [Objs -> ChanRecs \cup {None}] /\ Of(os, Fresh, "it") /\ os[Fresh] = new /\ \A p \in Objs : p \in Held => os[p] = obj[p]
      BY <1>1, <2>2, <2>4 DEF Typing, Of
    <2> HIDE DEF r, os
    <2>6. Lawful(t, r, os, cache)
      <3>1. Shape(r, os)
        BY <1>1, <1>2, <2>2, <2>3, <2>5, ReqFacts DEF Shape, Holds
      <3>2. Private(r)
        BY <2>3 DEF Private
      <3> QED
        BY <1>1, <2>2, <2>3, <2>5, <3>1, <3>2 DEF Lawful, Of
    <2>7. Frame(t, r, os, store["it"])
      BY <1>1, <2>3, <2>5, Framed
    <2>8. ASSUME NEW bit \in Bits, Knows(kind, req[t], obj[req[t].obj], store["it"], bit)
          PROVE  Knows(kind, r, os[r.obj], store["it"], bit)
      <3>1. Touches(r) = Touches(req[t]) /\ (Behind(r) => Behind(req[t])) /\ Wrote(r) = Wrote(req[t])
        BY <1>1, <2>3, LooksOn DEF Lookups
      <3>2. ReadAt("subs", bit) => bit = Ban
        BY BitCases DEF ReadAt
      <3>3. Same(kind, os[r.obj], store["it"], Ban)
        BY <2>3, <2>4, <2>5 DEF Same, Has
      <3> QED
        BY <2>3, <2>8, <3>1, <3>2, <3>3 DEF Knows
    <2>9. Frame(t, r, os, store'["it"]) /\ req[t].pc # "idle" /\ r.pc # "idle" /\ {} \subseteq Bits
          /\ \A bit \in Bits \ (touched[t] \cup {}) :
               Knows(kind, req[t], obj[req[t].obj], store["it"], bit) => Knows(kind, r, os[r.obj], store'["it"], bit)
      BY <1>1, <2>3, <2>7, <2>8
    <2>10. \A bit \in Touches(req[t]) \ touched[t] :
             cache["it"] \in Objs /\ Stands(t, bit) => Follows(kind, r, cache["it"], os[cache["it"]], store'["it"], bit)
      BY <1>1, <1>3
    <2> QED
      BY <1>1, <2>1, <2>6, <2>9, <2>10, GoesOn
  <1> QED
    BY <1>4, <1>5

\* A list is read.
LEMMA LoadListInv ==
  ASSUME ChanInv, NEW t \in Threads, NEW list, NEW next, LoadList(t, list, next),
         \/ list = "subs" /\ next = "deny"
         \/ list = "deny" /\ next = "allow"
         \/ list = "allow" /\ next = "insert"
  PROVE  ChanInv'
  <1>1. /\ Typed /\ Typing /\ store' = store /\ store' \in [Ids -> StoreRecs] /\ store["it"] \in StoreRecs
        /\ req[t] \in ReqRecs /\ Touches(req[t]) \subseteq Bits
        /\ cache \in [Ids -> Objs \cup {None}] /\ cache["it"] \in Objs \cup {None}
        /\ req[t].pc = list /\ req[t].op \in At(list)
    BY ReqFacts DEF ChanInv, LoadList, KeepStore
  <1>2. /\ At(list) = At(next) /\ "create" \notin At(list) /\ next \in PCs /\ list \in Lists
        /\ list \in Lookups /\ next \in Lookups /\ list # "idle" /\ next # "idle" /\ next # "fill"
    BY DEF At, ListOps, Adds, Sets, Removes, Subs, Temps, PCs, Lookups, Lists
  <1>3. Private(req[t]) /\ Holds(req[t])
    BY <1>1 DEF Private, Holds
  <1> DEFINE o == req[t].obj
             v == store["it"][list] \cup (IF list = "subs" THEN Named ELSE {})
             r == Goto(t, next)
             os == Revised(o, list, v)
  <1>4. StepWith(t, r, os, cache, {}, {}, {})
    BY DEF LoadList, Step, Revised, getList
  <1>5. v \in SUBSET Uids /\ o \in Objs /\ Of(obj, o, "it")
    <2>1. Named \subseteq Uids
      BY ChannelConstants DEF Named
    <2>2. store["it"][list] \subseteq Uids
      BY <1>1, <1>2, ReqFacts
    <2> QED
      BY <1>1, <1>3, <2>1, <2>2, ReqFacts
  <1>6. /\ r \in ReqRecs /\ r.pc = next /\ r.op = req[t].op /\ r.obj = o
        /\ r.uids = req[t].uids /\ r.exist = req[t].exist
    BY <1>1, <1>2, GotoRec
  <1>7. Private(r) /\ Holds(r)
    BY <1>6 DEF Private, Holds
  <1> HIDE DEF v
  <1>8. /\ Keeps(os)
        /\ \A bit \in Bits : bit[1] = list => (Has(os[o], bit) <=> bit[2] \in v)
        /\ \A p \in Objs : \A bit \in Bits : bit[1] # list \/ p # o => (Has(os[p], bit) <=> Has(obj[p], bit))
    BY <1>1, <1>2, <1>5, RevisedList
  <1> HIDE DEF os
  <1>9. Lawful(t, r, os, cache)
    BY <1>1, <1>2, <1>3, <1>7, <1>8, GotoLawful
  <1> HIDE DEF r
  <1>10. Frame(t, r, os, store["it"])
    BY <1>1, <1>3, <1>6, <1>8, Framed
  <1>11. ASSUME NEW bit \in Bits, Knows(kind, req[t], obj[o], store["it"], bit)
         PROVE  Knows(kind, r, os[o], store["it"], bit)
    <2>1. Touches(r) = Touches(req[t]) /\ (Behind(r) => Behind(req[t])) /\ Wrote(r) = Wrote(req[t])
      BY <1>1, <1>2, <1>6, LooksOn
    <2>2. ReadAt(next, bit) => Same(kind, os[o], store["it"], bit)
      <3>1. CASE bit[1] = list
        <4>1. bit # Ban /\ (Has(store["it"], bit) <=> bit[2] \in store["it"][list])
          BY <1>2, <3>1, BitCases DEF Has, Lists
        <4>2. list = "subs" => Named = NamedOf(kind)
          BY DEF Named, NamedOf
        <4> QED
          BY <1>8, <3>1, <4>1, <4>2 DEF Same, Exempt, v
      <3>2. CASE bit[1] # list
        <4>1. ReadAt(next, bit) => ReadAt(list, bit)
          BY <3>2 DEF ReadAt
        <4>2. ReadAt(list, bit) => Same(kind, obj[o], store["it"], bit)
          BY <1>1, <1>3, <1>11 DEF Knows
        <4> QED
          BY <1>5, <1>8, <3>2, <4>1, <4>2 DEF Same
      <3> QED
        BY <3>1, <3>2
    <2>3. ~(r.op = "send" /\ r.pc \in {"use", "put"}) /\ r.pc # "sent" /\ r.pc \notin {"fill", "fillObj"}
      BY <1>6
    <2> QED
      BY <1>6, <1>11, <2>1, <2>2, <2>3 DEF Knows
  <1>12. Frame(t, r, os, store'["it"]) /\ req[t].pc # "idle" /\ r.pc # "idle" /\ {} \subseteq Bits
         /\ \A bit \in Bits \ (touched[t] \cup {}) :
              Knows(kind, req[t], obj[req[t].obj], store["it"], bit) => Knows(kind, r, os[r.obj], store'["it"], bit)
    BY <1>1, <1>2, <1>6, <1>10, <1>11
  <1>13. \A bit \in Touches(req[t]) \ touched[t] :
           cache["it"] \in Objs /\ Stands(t, bit) => Follows(kind, r, cache["it"], os[cache["it"]], store'["it"], bit)
    BY <1>3 DEF Stands, Follows
  <1>14. StepWith(t, r, os, cache, {}, {}, {})
    BY <1>4 DEF r, os
  <1>15. Lawful(t, r, os, cache)
    BY <1>9
  <1> QED
    BY <1>1, <1>12, <1>13, <1>14, <1>15, GoesOn

\* The loaded object goes into the cache.
LEMMA InsertInv == ASSUME ChanInv, NEW t \in Threads, Insert(t) PROVE ChanInv'
  <1>1. /\ Typed /\ Typing /\ store' = store /\ store' \in [Ids -> StoreRecs] /\ store["it"] \in StoreRecs
        /\ req[t] \in ReqRecs /\ Touches(req[t]) \subseteq Bits
        /\ cache \in [Ids -> Objs \cup {None}] /\ cache["it"] \in Objs \cup {None}
        /\ req[t].pc = "insert" /\ req[t].op \in At("insert")
    BY ReqFacts DEF ChanInv, Insert, KeepStore
  <1>2. At("insert") = At("use") /\ "create" \notin At("insert") /\ "use" \in PCs
    BY DEF At, ListOps, Adds, Sets, Removes, Subs, Temps, PCs, Lookups
  <1>3. Private(req[t]) /\ Holds(req[t])
    BY <1>1 DEF Private, Holds
  <1> DEFINE o == req[t].obj
             r == Goto(t, "use")
             c == [cache EXCEPT !["it"] = o]
  <1>4. StepWith(t, r, obj, c, {}, {}, {})
    BY DEF Insert, Step
  <1>5. o \in Objs /\ Of(obj, o, "it")
    BY <1>1, <1>3, ReqFacts
  <1>6. o # cache["it"]
    BY <1>1, <1>3 DEF Typed, Own
  <1>7. c \in [Ids -> Objs \cup {None}] /\ c["it"] = o /\ c["parent"] = cache["parent"]
    BY <1>1, <1>5 DEF Ids
  <1>8. /\ r \in ReqRecs /\ r.pc = "use" /\ r.op = req[t].op /\ r.obj = o
        /\ r.uids = req[t].uids /\ r.exist = req[t].exist
    BY <1>1, <1>2, GotoRec
  <1> HIDE DEF r, c
  <1>9. Holds(r) /\ ~Private(r)
    BY <1>8 DEF Holds, Private
  <1>10. Lawful(t, r, obj, c)
    <2>1. Shape(r, obj)
      BY <1>1, <1>2, <1>5, <1>8, <1>9, ReqFacts DEF Shape
    <2> QED
      BY <1>1, <1>3, <1>7, <1>8, <1>9, <2>1 DEF Lawful, Typing
  <1>11. Frame(t, r, obj, store["it"])
    BY <1>1, <1>8, StillFrame
  <1>12. ASSUME NEW bit \in Bits \ touched[t]
         PROVE  /\ Same(kind, obj[o], store["it"], bit)
                /\ Knows(kind, r, obj[o], store["it"], bit)
                /\ Follows(kind, r, o, obj[o], store["it"], bit)
    <2>1. Knows(kind, req[t], obj[o], store["it"], bit)
      BY DEF ChanInv, Knowledge
    <2>2. ReadAt("insert", bit)
      BY BitCases DEF ReadAt, Lists
    <2>3. Same(kind, obj[o], store["it"], bit)
      BY <1>1, <1>3, <2>1, <2>2 DEF Knows
    <2>4. Touches(r) = Touches(req[t]) /\ (Behind(r) => Behind(req[t])) /\ Wrote(r) = Wrote(req[t])
      BY <1>1, <1>8, LooksOn DEF Lookups
    <2>5. Knows(kind, r, obj[o], store["it"], bit)
      BY <1>8, <1>9, <2>1, <2>3, <2>4 DEF Knows
    <2>6. Follows(kind, r, o, obj[o], store["it"], bit)
      BY <1>8, <1>9, <2>3 DEF Follows
    <2> QED
      BY <2>3, <2>5, <2>6
  <1>13. Learns(t, r, obj, store["it"], {})
    BY <1>8, <1>12 DEF Learns
  <1>14. Cached(t, r, obj, c, store["it"], {}, {})
    <2>1. Touches(r) = Touches(req[t])
      BY <1>8, TouchesSame
    <2> QED
      BY <1>1, <1>6, <1>7, <1>8, <1>12, <2>1 DEF Cached
  <1>15. Makes(t, r, obj, c, store["it"], {}, {}, {})
    BY <1>1, <1>4, <1>10, <1>11, <1>13, <1>14 DEF Makes
  <1> QED
    BY <1>15, Advance

-----------------------------------------------------------------------------
\* A request that changes store or objects goes on to step pc.
LEMMA Writes ==
  ASSUME ChanInv, NEW t \in Threads, NEW os, Keeps(os), NEW pc \in PCs \ {"info", "subs", "deny", "allow", "insert", "idle"},
         StepWith(t, Goto(t, pc), os, cache, {}, {}, {}), store' \in [Ids -> StoreRecs], store'["it"] \in StoreRecs,
         \A bit \in Bits : bit \notin Touches(req[t]) => (Has(store'["it"], bit) <=> Has(store["it"], bit)),
         \A p \in Objs : \A bit \in Bits : bit \notin Touches(req[t]) => (Has(os[p], bit) <=> Has(obj[p], bit)),
         req[t].op \in At(pc), req[t].op # "send", req[t].op = "create" /\ pc = "fill" => req[t].uids # {},
         req[t].pc # "idle", Holds(Goto(t, pc)) <=> Holds(req[t]),
         \A bit \in Touches(req[t]) \ touched[t] :
           Knows(kind, req[t], obj[req[t].obj], store["it"], bit) => Knows(kind, Goto(t, pc), os[req[t].obj], store'["it"], bit),
         \A bit \in Touches(req[t]) \ touched[t] :
           (Before(req[t], bit) => Same(kind, obj[cache["it"]], store["it"], bit)) /\ Before(Goto(t, pc), bit) =>
             Same(kind, os[cache["it"]], store'["it"], bit)
  PROVE  ChanInv'
  <1> DEFINE r == Goto(t, pc)
  <1>1. Typed /\ Typing /\ Touches(req[t]) \subseteq Bits
    BY ReqFacts DEF ChanInv
  <1>2. /\ r \in ReqRecs /\ r.pc = pc /\ r.op = req[t].op /\ r.obj = req[t].obj
        /\ r.uids = req[t].uids /\ r.exist = req[t].exist
    BY <1>1, GotoRec
  <1>3. ~Private(r)
    BY <1>2 DEF Private
  <1>4. Lawful(t, r, os, cache)
    BY <1>1, <1>3, GotoLawful
  <1> HIDE DEF r
  <1>5. Frame(t, r, os, store'["it"])
    BY <1>2, Framed
  <1>6. ASSUME NEW bit \in Bits, bit \notin touched[t], Knows(kind, req[t], obj[req[t].obj], store["it"], bit)
        PROVE  Knows(kind, r, os[r.obj], store'["it"], bit)
    <2>1. CASE bit \in Touches(req[t])
      <3>1. Knows(kind, Goto(t, pc), os[req[t].obj], store'["it"], bit)
        BY <1>6, <2>1
      <3> QED
        BY <1>2, <3>1 DEF r
    <2>2. CASE bit \notin Touches(req[t])
      <3>1. bit \notin Touches(r) /\ r.pc # "sent" /\ r.op # "send"
        <4>1. Touches(r) = Touches(req[t])
          BY <1>2, TouchesSame
        <4>2. pc = "sent" => req[t].op = "send"
          BY DEF At
        <4> QED
          BY <1>2, <2>2, <4>1, <4>2
      <3> QED
        BY <1>3, <3>1 DEF Knows
    <2> QED
      BY <2>1, <2>2
  <1>7. ASSUME NEW bit \in Touches(req[t]) \ touched[t], Stands(t, bit)
        PROVE  Follows(kind, r, cache["it"], os[cache["it"]], store'["it"], bit)
    <2>1. (Before(req[t], bit) => Same(kind, obj[cache["it"]], store["it"], bit)) /\ req[t].obj \in {None, cache["it"]}
      BY <1>7 DEF Stands, Follows
    <2>2. Before(r, bit) => Same(kind, os[cache["it"]], store'["it"], bit)
      BY <2>1 DEF r
    <2> QED
      BY <1>2, <1>3, <2>1, <2>2 DEF Follows
  <1>8. /\ r.pc # "idle" /\ {} \subseteq Bits
        /\ \A bit \in Bits \ (touched[t] \cup {}) :
             Knows(kind, req[t], obj[req[t].obj], store["it"], bit) => Knows(kind, r, os[r.obj], store'["it"], bit)
    BY <1>2, <1>6
  <1>9. \A bit \in Touches(req[t]) \ touched[t] :
          cache["it"] \in Objs /\ Stands(t, bit) => Follows(kind, r, cache["it"], os[cache["it"]], store'["it"], bit)
    BY <1>7
  <1>10. StepWith(t, r, os, cache, {}, {}, {})
    BY DEF r
  <1> QED
    BY <1>4, <1>5, <1>8, <1>9, <1>10, GoesOn

\* What a request that changes something has, and what its next step is.
LEMMA WriterFacts ==
  ASSUME ChanInv, NEW t \in Threads
  PROVE  /\ Typed /\ Typing /\ store \in [Ids -> StoreRecs] /\ store["it"] \in StoreRecs
         /\ req[t] \in ReqRecs /\ req[t].uids \in SUBSET Uids /\ req[t].exist \in SUBSET Uids
         /\ cache \in [Ids -> Objs \cup {None}] /\ cache["it"] \in Objs \cup {None}
         /\ req[t].op \in At(req[t].pc) /\ Touches(req[t]) \subseteq Bits /\ Keeps(obj)
         /\ req[t].op # "subAdd" => req[t].exist = {}
         /\ req[t].op = "create" /\ req[t].pc = "fill" => req[t].uids # {}
         /\ Holds(req[t]) => req[t].obj \in Objs /\ Of(obj, req[t].obj, "it")
         /\ \A f \in Lists : store["it"][f] \in SUBSET Uids
         /\ Holds(req[t]) => \A f \in Lists : obj[req[t].obj][f] \in SUBSET Uids
  BY ReqFacts, KeepsObj DEF ChanInv

\* The bits a request touches.
LEMMA TouchedBits ==
  ASSUME NEW t \in Threads, req[t] \in ReqRecs
  PROVE  /\ req[t].op \in {"ban", "unban", "delete"} => Touches(req[t]) = {Ban}
         /\ req[t].op = "create" => Touches(req[t]) = {Ban} \cup ({"subs"} \X Uids)
         /\ req[t].op \in {"subAdd", "subRemove"} => Touches(req[t]) = {"subs"} \X req[t].uids
         /\ req[t].op = "subReset" => Touches(req[t]) = {"subs"} \X Uids
         /\ req[t].op \in Adds \cup Removes => Touches(req[t]) = {ListOf(req[t].op)} \X req[t].uids
         /\ req[t].op \in Sets => Touches(req[t]) = {ListOf(req[t].op)} \X Uids
         /\ "ban" \notin ListOps /\ "unban" \notin ListOps /\ "delete" \notin ListOps /\ "create" \notin ListOps
         /\ "subAdd" \notin ListOps /\ "subRemove" \notin ListOps /\ "subReset" \notin ListOps /\ "send" \notin ListOps
         /\ req[t].op \in ListOps => ListOf(req[t].op) \in {"deny", "allow"}
  BY DEF Touches, Adds, Removes, Sets, ListOps, ListOf

\* The information is saved.
LEMMA SaveInfoInv == ASSUME ChanInv, NEW t \in Threads, SaveInfo(t) PROVE ChanInv'
  <1> DEFINE op == req[t].op
             v == InfoOf(op)
             pc == CASE op = "create" -> "clear" [] op = "delete" -> "uncache" [] OTHER -> "cached"
             r == Goto(t, pc)
  <1>1. /\ Typed /\ Typing /\ req[t] \in ReqRecs /\ Touches(req[t]) \subseteq Bits /\ Keeps(obj)
        /\ req[t].pc = "store" /\ op \in Infos
    BY WriterFacts DEF SaveInfo
  <1>2. StepWith(t, r, obj, cache, {}, {}, {}) /\ Stored("info", v)
    BY DEF SaveInfo, Step
  <1>3. v \in {"none", "open", "ban"} /\ (v = "ban" <=> op = "ban")
    BY DEF InfoOf
  <1> HIDE DEF v
  <1>4. /\ store' \in [Ids -> StoreRecs] /\ store'["it"] \in StoreRecs
        /\ Has(store'["it"], Ban) <=> v = "ban"
        /\ \A bit \in Bits : bit # Ban => (Has(store'["it"], bit) <=> Has(store["it"], bit))
    BY <1>1, <1>2, <1>3, StoredInfo
  <1>5. Ban \in Touches(req[t])
    BY <1>1, TouchedBits DEF Infos
  <1>6. pc \in PCs \ {"info", "subs", "deny", "allow", "insert", "idle", "fill"} /\ op \in At(pc) /\ op # "send"
        /\ pc \in {"clear", "uncache", "cached"} /\ (pc = "clear" => op = "create") /\ (pc = "cached" => op \in {"ban", "unban"})
    BY <1>1 DEF PCs, At, Infos
  <1> HIDE DEF pc
  <1>7. /\ r \in ReqRecs /\ r.pc = pc /\ r.op = op /\ r.obj = req[t].obj
        /\ r.uids = req[t].uids /\ r.exist = req[t].exist
    BY <1>1, <1>6, GotoRec
  <1> HIDE DEF r, op
  <1>8. ~Holds(r) /\ ~Holds(req[t])
    BY <1>1, <1>6, <1>7 DEF Holds
  <1>9. \A bit \in Touches(req[t]) \ touched[t] : Knows(kind, r, obj[req[t].obj], store'["it"], bit)
    <2>1. Behind(r) => pc = "cached"
      BY <1>6, <1>7 DEF Behind, Lookups
    <2>2. ASSUME pc = "cached" PROVE Touches(r) = {Ban} /\ (Has(store'["it"], Ban) <=> Ban \in Wrote(r))
      <3>1. r.op \in {"ban", "unban"}
        BY <1>6, <1>7, <2>2
      <3>2. Touches(r) = {Ban}
        BY <3>1 DEF Touches, Adds, Removes, Sets
      <3>3. Wrote(r) = IF r.op = "ban" THEN {Ban} ELSE {}
        BY <3>1, <3>2 DEF Wrote, Adds, Sets
      <3> QED
        BY <1>3, <1>4, <1>7, <3>1, <3>2, <3>3
    <2> QED
      BY <1>6, <1>7, <2>1, <2>2 DEF Knows, Private
  <1>10. \A bit \in Touches(req[t]) \ touched[t] :
           (Before(req[t], bit) => Same(kind, obj[cache["it"]], store["it"], bit)) /\ Before(r, bit) =>
             Same(kind, obj[cache["it"]], store'["it"], bit)
    <2>1. \A bit : Before(r, bit) => bit # Ban
      BY <1>6, <1>7 DEF Before, Subs, Lookups
    <2> QED
      BY <1>1, <1>4, <2>1 DEF Same, Before
  <1>11. \A bit \in Bits : bit \notin Touches(req[t]) => (Has(store'["it"], bit) <=> Has(store["it"], bit))
    BY <1>4, <1>5
  <1>12. req[t].op \in At(pc) /\ req[t].op # "send" /\ (req[t].op = "create" /\ pc = "fill" => req[t].uids # {})
    BY <1>6 DEF op
  <1> QED
    BY <1>1, <1>2, <1>4, <1>6, <1>8, <1>9, <1>10, <1>11, <1>12, Writes DEF r

\* The ban of a cached channel.
LEMMA CachedInfoInv == ASSUME ChanInv, NEW t \in Threads, CachedInfo(t) PROVE ChanInv'
  <1>1. /\ Typed /\ Typing /\ req[t] \in ReqRecs /\ Touches(req[t]) \subseteq Bits /\ Keeps(obj)
        /\ req[t].pc = "cached" /\ req[t].op \in At("cached") /\ store' = store /\ store' \in [Ids -> StoreRecs]
        /\ store["it"] \in StoreRecs /\ cache \in [Ids -> Objs \cup {None}] /\ cache["it"] \in Objs \cup {None}
    BY WriterFacts DEF CachedInfo, KeepStore
  <1>2. req[t].op \in {"ban", "unban"}
    BY <1>1 DEF At
  <1>3. Touches(req[t]) = {Ban} /\ (req[t].pc # "idle")
    BY <1>1, <1>2, TouchedBits
  <1>4. {} \subseteq Bits /\ {} \subseteq Touches(req[t])
    OBVIOUS
  <1>5. CASE cache["it"] = None
    <2>1. StepWith(t, Idle, obj, cache, {}, {}, {})
      BY <1>5 DEF CachedInfo, End, Step
    <2>2. Frame(t, Idle, obj, store'["it"])
      BY <1>1, IdleRec, StillFrame
    <2>3. \A bit \in Touches(req[t]) \ (touched[t] \cup {}) :
            cache["it"] \in Objs /\ (bit \notin loose => Stands(t, bit)) /\ (bit \notin loose \ {}) =>
              Same(kind, obj[cache["it"]], store'["it"], bit)
      BY <1>5, ChannelConstants
    <2> QED
      BY <1>1, <1>3, <1>4, <2>1, <2>2, <2>3, Ends
  <1>6. CASE cache["it"] # None
    <2> DEFINE o == cache["it"]
               v == InfoOf(req[t].op)
               os == Revised(o, "info", v)
    <2>1. StepWith(t, Idle, os, cache, Touches(req[t]), {}, {})
      BY <1>6 DEF CachedInfo, Revised
    <2>2. o \in Objs /\ Of(obj, o, "it")
      BY <1>1, <1>6 DEF Typed, Shapes, Ids
    <2>3. v \in {"none", "open", "ban"} /\ (v = "ban" <=> req[t].op = "ban")
      BY DEF InfoOf
    <2> HIDE DEF v
    <2>4. /\ Keeps(os) /\ (Has(os[o], Ban) <=> v = "ban")
          /\ \A p \in Objs : \A bit \in Bits : bit # Ban \/ p # o => (Has(os[p], bit) <=> Has(obj[p], bit))
      BY <1>1, <2>2, <2>3, RevisedInfo
    <2> HIDE DEF os
    <2>5. Frame(t, Idle, os, store'["it"])
      BY <1>1, <1>3, <2>4, IdleRec, Framed
    <2>6. ASSUME Ban \notin touched[t] PROVE Same(kind, os[o], store["it"], Ban)
      <3>1. Knows(kind, req[t], obj[req[t].obj], store["it"], Ban)
        BY <1>1, <1>3, <2>6 DEF ChanInv, Knowledge
      <3>2. Wrote(req[t]) = IF req[t].op = "ban" THEN {Ban} ELSE {}
        BY <1>2, <1>3 DEF Wrote, Adds, Sets
      <3>3. Behind(req[t])
        BY <1>1 DEF Behind
      <3>4. Has(store["it"], Ban) <=> Ban \in Wrote(req[t])
        BY <1>3, <3>1, <3>3 DEF Knows
      <3> QED
        BY <1>2, <2>3, <2>4, <3>2, <3>4 DEF Same
    <2>7. \A bit \in Touches(req[t]) \ (touched[t] \cup {}) :
            cache["it"] \in Objs /\ (bit \notin loose => Stands(t, bit)) /\ (bit \notin loose \ Touches(req[t])) =>
              Same(kind, os[cache["it"]], store'["it"], bit)
      BY <1>1, <1>3, <2>6
    <2>8. Touches(req[t]) \subseteq Touches(req[t])
      OBVIOUS
    <2> HIDE DEF o
    <2> QED
      BY <1>1, <1>3, <1>4, <2>1, <2>4, <2>5, <2>7, <2>8, Ends
  <1> QED
    BY <1>5, <1>6

\* The channel leaves the cache.
LEMMA UncacheInv == ASSUME ChanInv, NEW t \in Threads, Uncache(t) PROVE ChanInv'
  <1> DEFINE c == [cache EXCEPT !["it"] = None]
  <1>1. /\ Typed /\ Typing /\ Keeps(obj) /\ Touches(req[t]) \subseteq Bits /\ store' = store /\ store \in [Ids -> StoreRecs]
        /\ cache \in [Ids -> Objs \cup {None}] /\ req[t].pc = "uncache"
    BY WriterFacts DEF Uncache, KeepStore
  <1>2. StepWith(t, Idle, obj, c, {}, {}, {})
    BY DEF Uncache, Step
  <1>3. c \in [Ids -> Objs \cup {None}] /\ c["it"] = None /\ c["parent"] = cache["parent"]
    BY <1>1 DEF Ids
  <1> HIDE DEF c
  <1>4. Lawful(t, Idle, obj, c)
    BY <1>1, <1>3, EndLawful
  <1>5. Frame(t, Idle, obj, store["it"])
    BY <1>1, IdleRec, StillFrame
  <1>6. Learns(t, Idle, obj, store["it"], {}) /\ Cached(t, Idle, obj, c, store["it"], {}, {})
    BY <1>3, IdleRec DEF Learns, Cached
  <1>7. Makes(t, Idle, obj, c, store["it"], {}, {}, {})
    BY <1>1, <1>2, <1>4, <1>5, <1>6 DEF Makes
  <1> QED
    BY <1>7, Advance

-----------------------------------------------------------------------------
\* The list of subscribers is emptied in the store,
LEMMA ClearSubscribersInv == ASSUME ChanInv, NEW t \in Threads, ClearSubscribers(t) PROVE ChanInv'
  <1> DEFINE op == req[t].op
             pc == CASE op = "subReset" -> "clearObj"
                     [] op = "create" /\ req[t].uids = {} -> "uncache"
                     [] OTHER -> "fill"
             r == Goto(t, pc)
  <1>1. /\ Typed /\ Typing /\ req[t] \in ReqRecs /\ Touches(req[t]) \subseteq Bits /\ Keeps(obj)
        /\ req[t].pc = "clear" /\ op \in {"create", "subReset"}
    BY WriterFacts DEF ClearSubscribers, At
  <1>2. StepWith(t, r, obj, cache, {}, {}, {}) /\ Stored("subs", {})
    BY DEF ClearSubscribers, Step
  <1>3. "subs" \in Lists /\ {} \in SUBSET Uids
    BY DEF Lists
  <1>4. /\ store' \in [Ids -> StoreRecs] /\ store'["it"] \in StoreRecs
        /\ \A bit \in Bits : bit[1] = "subs" => (Has(store'["it"], bit) <=> bit[2] \in {})
        /\ \A bit \in Bits : bit[1] # "subs" => (Has(store'["it"], bit) <=> Has(store["it"], bit))
    BY <1>1, <1>2, <1>3, StoredList
  <1>5. /\ \A bit \in Bits : bit \notin Touches(req[t]) => bit[1] # "subs"
        /\ \A bit \in Touches(req[t]) : op = "subReset" => bit[1] = "subs"
    BY <1>1, TouchedBits, BitCases DEF Lists
  <1>6. pc \in PCs \ {"info", "subs", "deny", "allow", "insert", "idle"} /\ op \in At(pc) /\ op # "send"
        /\ (op = "subReset" => pc = "clearObj") /\ (op = "create" => pc \in {"uncache", "fill"})
        /\ (op = "create" /\ pc = "fill" => req[t].uids # {})
    BY <1>1 DEF PCs, At
  <1> HIDE DEF pc
  <1>7. /\ r \in ReqRecs /\ r.pc = pc /\ r.op = op /\ r.obj = req[t].obj
        /\ r.uids = req[t].uids /\ r.exist = req[t].exist
    BY <1>1, <1>6, GotoRec
  <1> HIDE DEF r, op
  <1>8. Holds(r) <=> Holds(req[t])
    BY <1>1, <1>6, <1>7 DEF Holds, op
  <1>9. \A bit \in Touches(req[t]) \ touched[t] : Knows(kind, r, obj[req[t].obj], store'["it"], bit)
    <2>1. CASE op = "subReset"
      <3>1. Wrote(r) = {}
        BY <1>6, <1>7, <2>1 DEF Wrote, Adds, Sets
      <3> QED
        BY <1>1, <1>4, <1>5, <1>6, <1>7, <2>1, <3>1 DEF Knows, Private
    <2>2. CASE op = "create"
      <3>1. ~Behind(r)
        BY <1>6, <1>7, <2>2, TouchedBits DEF Behind, ListOps, Adds, Sets, Removes
      <3> QED
        BY <1>6, <1>7, <2>2, <3>1 DEF Knows, Private
    <2> QED
      BY <1>1, <2>1, <2>2
  <1>10. \A bit : ~Before(r, bit)
    BY <1>1, <1>6, <1>7 DEF Before, Subs, Lookups
  <1>11. /\ \A bit \in Bits : bit \notin Touches(req[t]) => (Has(store'["it"], bit) <=> Has(store["it"], bit))
         /\ \A bit \in Touches(req[t]) \ touched[t] :
              (Before(req[t], bit) => Same(kind, obj[cache["it"]], store["it"], bit)) /\ Before(r, bit) =>
                Same(kind, obj[cache["it"]], store'["it"], bit)
    BY <1>4, <1>5, <1>10
  <1>12. req[t].op \in At(pc) /\ req[t].op # "send" /\ (req[t].op = "create" /\ pc = "fill" => req[t].uids # {})
    BY <1>6 DEF op
  <1> QED
    BY <1>1, <1>2, <1>4, <1>6, <1>8, <1>9, <1>11, <1>12, Writes DEF r

\* and in the object.
LEMMA ClearObjectInv == ASSUME ChanInv, NEW t \in Threads, ClearObject(t) PROVE ChanInv'
  <1> DEFINE o == req[t].obj
             os == Revised(o, "subs", {})
             r == Goto(t, "fill")
  <1>1. /\ Typed /\ Typing /\ req[t] \in ReqRecs /\ Touches(req[t]) \subseteq Bits
        /\ req[t].pc = "clearObj" /\ req[t].op = "subReset" /\ store' = store /\ store \in [Ids -> StoreRecs]
        /\ store["it"] \in StoreRecs
    BY WriterFacts DEF ClearObject, KeepStore, At
  <1>2. StepWith(t, r, os, cache, {}, {}, {})
    BY DEF ClearObject, Step, Revised
  <1>3. "subs" \in Lists /\ {} \in SUBSET Uids /\ Holds(req[t]) /\ o \in Objs /\ Of(obj, o, "it")
    BY <1>1, WriterFacts DEF Lists, Holds
  <1>4. /\ Keeps(os)
        /\ \A bit \in Bits : bit[1] = "subs" => (Has(os[o], bit) <=> bit[2] \in {})
        /\ \A p \in Objs : \A bit \in Bits : bit[1] # "subs" \/ p # o => (Has(os[p], bit) <=> Has(obj[p], bit))
    BY <1>1, <1>3, RevisedList
  <1>5. /\ \A bit \in Bits : bit \notin Touches(req[t]) => bit[1] # "subs"
        /\ \A bit \in Touches(req[t]) : bit[1] = "subs"
    BY <1>1, TouchedBits, BitCases DEF Lists
  <1>6. "fill" \in PCs \ {"info", "subs", "deny", "allow", "insert", "idle"} /\ req[t].op \in At("fill")
    BY <1>1 DEF PCs, At
  <1>7. /\ r \in ReqRecs /\ r.pc = "fill" /\ r.op = "subReset" /\ r.obj = o
        /\ r.uids = req[t].uids /\ r.exist = req[t].exist
    BY <1>1, <1>6, GotoRec
  <1> HIDE DEF r, os
  <1>8. Holds(r) <=> Holds(req[t])
    BY <1>3, <1>7 DEF Holds
  <1>9. ASSUME NEW bit \in Touches(req[t]) \ touched[t], Knows(kind, req[t], obj[o], store["it"], bit)
        PROVE  Knows(kind, r, os[o], store["it"], bit)
    <2>1. Wrote(r) = {} /\ Wrote(req[t]) = {} /\ Behind(req[t]) /\ Touches(r) = Touches(req[t])
      BY <1>1, <1>7, TouchesSame DEF Wrote, Adds, Sets, Behind
    <2> QED
      BY <1>1, <1>4, <1>5, <1>7, <1>9, <2>1 DEF Knows, Private
  <1>10. \A bit : ~Before(r, bit)
    BY <1>7 DEF Before, Subs, Lookups
  <1>11. /\ \A bit \in Bits : bit \notin Touches(req[t]) => (Has(store'["it"], bit) <=> Has(store["it"], bit))
         /\ \A p \in Objs : \A bit \in Bits : bit \notin Touches(req[t]) => (Has(os[p], bit) <=> Has(obj[p], bit))
         /\ \A bit \in Touches(req[t]) \ touched[t] :
              Knows(kind, req[t], obj[o], store["it"], bit) => Knows(kind, r, os[o], store'["it"], bit)
         /\ \A bit \in Touches(req[t]) \ touched[t] :
              (Before(req[t], bit) => Same(kind, obj[cache["it"]], store["it"], bit)) /\ Before(r, bit) =>
                Same(kind, os[cache["it"]], store'["it"], bit)
    BY <1>1, <1>4, <1>5, <1>9, <1>10
  <1>12. req[t].op # "send" /\ req[t].op # "create" /\ req[t].pc # "idle"
    BY <1>1
  <1> QED
    BY <1>1, <1>2, <1>4, <1>6, <1>8, <1>11, <1>12, Writes DEF r

\* Subscribers go into the store; where all of them are there, that is all.
LEMMA FillSubscribersInv == ASSUME ChanInv, NEW t \in Threads, FillSubscribers(t) PROVE ChanInv'
  <1> DEFINE op == req[t].op
             new == req[t].uids \ req[t].exist
             v == store["it"]["subs"] \cup new
  <1>1. /\ Typed /\ Typing /\ req[t] \in ReqRecs /\ Touches(req[t]) \subseteq Bits /\ Keeps(obj)
        /\ req[t].pc = "fill" /\ op \in {"create", "subAdd", "subReset"} /\ (op # "subAdd" => req[t].exist = {})
        /\ (op = "create" => req[t].uids # {}) /\ req[t].uids \in SUBSET Uids /\ store["it"] \in StoreRecs
    BY WriterFacts DEF FillSubscribers, At
  <1>2. "subs" \in Lists /\ v \in SUBSET Uids
    BY <1>1, WriterFacts DEF Lists
  <1>3. Stored("subs", v)
    BY DEF FillSubscribers, addList
  <1>4. /\ store' \in [Ids -> StoreRecs] /\ store'["it"] \in StoreRecs
        /\ \A bit \in Bits : bit[1] = "subs" => (Has(store'["it"], bit) <=> bit[2] \in v)
        /\ \A bit \in Bits : bit[1] # "subs" => (Has(store'["it"], bit) <=> Has(store["it"], bit))
    BY <1>1, <1>2, <1>3, StoredList
  <1>5. \A bit \in Bits : bit[1] = "subs" => (Has(store["it"], bit) <=> bit[2] \in store["it"]["subs"])
    BY BitCases DEF Has, Lists, Ban
  <1>6. \A bit \in Bits : Has(store'["it"], bit) <=> Has(store["it"], bit) \/ bit \in {"subs"} \X new
    BY <1>4, <1>5, BitCases DEF Ban, Lists
  <1>7. {"subs"} \X new \subseteq Touches(req[t])
    BY <1>1, TouchedBits
  <1>8. \A bit \in Bits : bit \notin Touches(req[t]) => (Has(store'["it"], bit) <=> Has(store["it"], bit))
    BY <1>6, <1>7
  <1>9. ASSUME NEW bit \in Touches(req[t]) \ touched[t]
        PROVE  Knows(kind, req[t], obj[req[t].obj], store["it"], bit)
    BY <1>1, <1>9 DEF ChanInv, Knowledge
  <1> HIDE DEF v, new
  <1>10. CASE req[t].uids \subseteq req[t].exist
    <2>1. StepWith(t, Idle, obj, cache, {}, {}, {})
      BY <1>10 DEF FillSubscribers, Step
    <2>2. \A bit \in Bits : Has(store'["it"], bit) <=> Has(store["it"], bit)
      BY <1>6, <1>10 DEF new
    <2>3. Frame(t, Idle, obj, store'["it"])
      BY <1>4, <1>8, IdleRec, Framed
    <2>4. ASSUME NEW bit \in Touches(req[t]) \ touched[t], cache["it"] \in Objs, Stands(t, bit)
          PROVE  Same(kind, obj[cache["it"]], store'["it"], bit)
      <3>1. (Before(req[t], bit) => Same(kind, obj[cache["it"]], store["it"], bit)) /\ req[t].obj \in {None, cache["it"]}
        BY <2>4 DEF Stands, Follows
      <3>2. CASE op = "subAdd"
        BY <1>1, <2>2, <3>1, <3>2 DEF Before, Same
      <3>3. CASE op = "subReset"
        <4>1. req[t].obj = cache["it"]
          BY <1>1, <3>1, <3>3, WriterFacts, ChannelConstants DEF Holds
        <4>2. Behind(req[t]) /\ Wrote(req[t]) = {}
          BY <1>1, <3>3 DEF Behind, Wrote, Adds, Sets
        <4> QED
          BY <1>1, <1>9, <2>2, <2>4, <3>3, <4>1, <4>2 DEF Knows, Same
      <3> QED
        BY <1>1, <1>10, <3>2, <3>3
    <2>5. \A bit \in Touches(req[t]) \ (touched[t] \cup {}) :
            cache["it"] \in Objs /\ (bit \notin loose => Stands(t, bit)) /\ (bit \notin loose \ {}) =>
              Same(kind, obj[cache["it"]], store'["it"], bit)
      BY <2>4
    <2>6. {} \subseteq Bits /\ {} \subseteq Touches(req[t]) /\ req[t].pc # "idle"
      BY <1>1
    <2> QED
      BY <1>1, <1>4, <2>1, <2>3, <2>5, <2>6, Ends
  <1>11. CASE ~(req[t].uids \subseteq req[t].exist)
    <2> DEFINE pc == IF op = "create" THEN "uncache" ELSE "fillObj"
               r == Goto(t, pc)
    <2>1. StepWith(t, r, obj, cache, {}, {}, {})
      BY <1>11 DEF FillSubscribers, Step
    <2>2. pc \in PCs \ {"info", "subs", "deny", "allow", "insert", "idle", "fill"} /\ op \in At(pc)
          /\ (op = "create" => pc = "uncache") /\ (op # "create" => pc = "fillObj")
      BY <1>1 DEF PCs, At
    <2> HIDE DEF pc
    <2>3. /\ r \in ReqRecs /\ r.pc = pc /\ r.op = op /\ r.obj = req[t].obj
          /\ r.uids = req[t].uids /\ r.exist = req[t].exist
      BY <1>1, <2>2, GotoRec
    <2> HIDE DEF r, op
    <2>4. Holds(r) <=> Holds(req[t])
      BY <1>1, <2>2, <2>3 DEF Holds, op
    <2>5. ASSUME NEW bit \in Touches(req[t]) \ touched[t]
          PROVE  Knows(kind, r, obj[req[t].obj], store'["it"], bit)
      <3>1. Knows(kind, req[t], obj[req[t].obj], store["it"], bit) /\ bit \in Bits
        BY <1>1, <1>9, <2>5
      <3>2. CASE op = "create"
        <4>1. ~Behind(r)
          BY <2>2, <2>3, <3>2, TouchedBits DEF Behind, ListOps, Adds, Sets, Removes
        <4> QED
          BY <2>2, <2>3, <3>2, <4>1 DEF Knows, Private
      <3>3. CASE op = "subAdd"
        <4>1. Wrote(r) = Touches(r) /\ Touches(r) = Touches(req[t]) /\ Touches(req[t]) = {"subs"} \X req[t].uids
          BY <1>1, <2>3, <3>3, TouchesSame, TouchedBits DEF Wrote, op
        <4>2. bit[2] \in req[t].exist => Has(store["it"], bit)
          BY <1>1, <2>5, <3>1, <3>3 DEF Knows, op
        <4>3. Has(store'["it"], bit)
          BY <1>6, <2>5, <3>1, <4>1, <4>2 DEF new
        <4> QED
          BY <2>2, <2>3, <2>5, <3>3, <4>1, <4>3 DEF Knows, Private
      <3>4. CASE op = "subReset"
        <4>1. Wrote(r) = {"subs"} \X req[t].uids /\ Wrote(req[t]) = {} /\ Behind(req[t])
          BY <1>1, <2>2, <2>3, <3>4 DEF Wrote, Adds, Sets, Behind, op
        <4>2. ~Has(store["it"], bit) /\ ~Has(obj[req[t].obj], bit)
          BY <1>1, <2>5, <3>1, <3>4, <4>1 DEF Knows, op
        <4>3. Has(store'["it"], bit) <=> bit \in {"subs"} \X req[t].uids
          BY <1>1, <1>6, <3>1, <3>4, <4>2 DEF new, op
        <4> QED
          BY <2>2, <2>3, <3>4, <4>1, <4>2, <4>3 DEF Knows, Private
      <3> QED
        BY <1>1, <3>2, <3>3, <3>4 DEF op
    <2>6. ASSUME NEW bit \in Touches(req[t]) \ touched[t],
                 Before(req[t], bit) => Same(kind, obj[cache["it"]], store["it"], bit), Before(r, bit)
          PROVE  Same(kind, obj[cache["it"]], store'["it"], bit)
      <3>1. op = "subAdd" /\ bit[2] \in req[t].exist
        BY <2>2, <2>3, <2>6 DEF Before, Subs, Lookups
      <3>2. Same(kind, obj[cache["it"]], store["it"], bit)
        BY <1>1, <2>6, <3>1 DEF Before, op
      <3>3. Has(store'["it"], bit) <=> Has(store["it"], bit)
        BY <1>1, <1>6, <2>6, <3>1 DEF new
      <3> QED
        BY <3>2, <3>3 DEF Same
    <2>7. req[t].op \in At(pc) /\ req[t].op # "send" /\ (req[t].op = "create" /\ pc = "fill" => req[t].uids # {})
          /\ req[t].pc # "idle"
      BY <1>1, <2>2 DEF op
    <2>8. /\ \A bit \in Touches(req[t]) \ touched[t] :
               Knows(kind, req[t], obj[req[t].obj], store["it"], bit) => Knows(kind, r, obj[req[t].obj], store'["it"], bit)
          /\ \A bit \in Touches(req[t]) \ touched[t] :
               (Before(req[t], bit) => Same(kind, obj[cache["it"]], store["it"], bit)) /\ Before(r, bit) =>
                 Same(kind, obj[cache["it"]], store'["it"], bit)
      BY <2>5, <2>6
    <2> QED
      BY <1>1, <1>4, <1>8, <2>1, <2>2, <2>4, <2>7, <2>8, Writes DEF r
  <1> QED
    BY <1>10, <1>11

\* ... and into the object.
LEMMA FillObjectInv == ASSUME ChanInv, NEW t \in Threads, FillObject(t) PROVE ChanInv'
  <1> DEFINE o == req[t].obj
             new == req[t].uids \ req[t].exist
             bits == IF req[t].op = "subReset" THEN Touches(req[t]) ELSE {"subs"} \X new
             v == obj[o]["subs"] \cup new
             os == Revised(o, "subs", v)
  <1>1. /\ Typed /\ Typing /\ req[t] \in ReqRecs /\ Touches(req[t]) \subseteq Bits /\ req[t].pc = "fillObj"
        /\ req[t].op \in {"subAdd", "subReset"} /\ KeepStore /\ store["it"] \in StoreRecs
        /\ (req[t].op = "subReset" => req[t].exist = {}) /\ req[t].uids \in SUBSET Uids
    BY WriterFacts DEF FillObject, At
  <1>2. Holds(req[t])
    BY <1>1 DEF Holds
  <1>3. "subs" \in Lists /\ v \in SUBSET Uids /\ o \in Objs /\ Of(obj, o, "it") /\ obj[o] \in ChanRecs
    BY <1>1, <1>2, WriterFacts DEF Lists, Of
  <1>4. Done(t, os, bits)
    BY <1>1 DEF FillObject, Revised
  <1> HIDE DEF v
  <1>5. /\ Keeps(os)
        /\ \A bit \in Bits : bit[1] = "subs" => (Has(os[o], bit) <=> bit[2] \in v)
        /\ \A p \in Objs : \A bit \in Bits : bit[1] # "subs" \/ p # o => (Has(os[p], bit) <=> Has(obj[p], bit))
    BY <1>1, <1>3, RevisedList
  <1>6. \A bit \in Bits : bit[1] = "subs" => (Has(obj[o], bit) <=> bit[2] \in obj[o]["subs"])
    BY BitCases DEF Has, Lists, Ban
  <1> HIDE DEF os
  <1>7. /\ \A bit \in Bits : Has(os[o], bit) <=> Has(obj[o], bit) \/ bit \in {"subs"} \X new
        /\ \A p \in Objs : \A bit \in Bits : p # o => (Has(os[p], bit) <=> Has(obj[p], bit))
    <2>1. ASSUME NEW bit \in Bits PROVE Has(os[o], bit) <=> Has(obj[o], bit) \/ bit \in {"subs"} \X new
      <3>1. CASE bit[1] = "subs"
        <4>1. bit = <<"subs", bit[2]>>
          BY <3>1, BitCases
        <4>2. bit \in {"subs"} \X new <=> bit[2] \in new
          BY <4>1
        <4> QED
          BY <1>5, <1>6, <3>1, <4>2 DEF v
      <3>2. CASE bit[1] # "subs"
        <4>1. bit \notin {"subs"} \X new
          BY <3>2
        <4> QED
          BY <1>3, <1>5, <3>2, <4>1
      <3> QED
        BY <3>1, <3>2
    <2> QED
      BY <1>5, <2>1
  <1>8. {"subs"} \X new \subseteq Touches(req[t]) /\ bits \subseteq Touches(req[t])
    BY <1>1, TouchedBits
  <1>9. Frame(t, Idle, os, store["it"])
    BY <1>1, <1>7, <1>8, IdleRec, Framed
  <1>10. ASSUME NEW bit \in Touches(req[t]) \ touched[t], bit \in bits \/ (Stands(t, bit) /\ o = cache["it"])
         PROVE  Same(kind, os[o], store["it"], bit)
    <2>1. Knows(kind, req[t], obj[o], store["it"], bit) /\ bit \in Bits
      BY <1>1, <1>10 DEF ChanInv, Knowledge
    <2>2. Has(store["it"], bit) <=> bit \in Wrote(req[t])
      BY <1>1, <1>10, <2>1 DEF Knows, Behind
    <2>3. CASE req[t].op = "subReset"
      <3>1. Wrote(req[t]) = {"subs"} \X req[t].uids /\ ~Has(obj[o], bit) /\ new = req[t].uids
        BY <1>1, <1>10, <2>1, <2>3 DEF Wrote, Knows, Adds, Sets
      <3> QED
        BY <1>7, <2>1, <2>2, <3>1 DEF Same
    <2>4. CASE req[t].op = "subAdd"
      <3>1. Wrote(req[t]) = Touches(req[t])
        BY <2>4 DEF Wrote, Adds, Sets
      <3>2. CASE bit \in {"subs"} \X new
        BY <1>7, <1>10, <2>1, <2>2, <3>1, <3>2 DEF Same
      <3>3. CASE bit \notin {"subs"} \X new
        <4>1. bit[2] \in req[t].exist
          BY <1>1, <1>10, <2>4, <3>3, TouchedBits
        <4>2. Same(kind, obj[o], store["it"], bit)
          BY <1>1, <1>10, <2>4, <3>3, <4>1 DEF Stands, Follows, Before
        <4> QED
          BY <1>7, <2>1, <3>3, <4>2 DEF Same
      <3> QED
        BY <3>2, <3>3
    <2> QED
      BY <1>1, <2>3, <2>4
  <1>11. \A bit \in Touches(req[t]) \ touched[t] : bit \in bits \/ (Stands(t, bit) /\ o = cache["it"]) =>
           Same(kind, os[o], store["it"], bit)
    BY <1>10
  <1>12. req[t].pc # "idle"
    BY <1>1
  <1> HIDE DEF bits
  <1> QED
    BY <1>1, <1>2, <1>4, <1>5, <1>8, <1>9, <1>11, <1>12, Finishes

-----------------------------------------------------------------------------
\* A list request changes the stored list,
LEMMA StoreListInv == ASSUME ChanInv, NEW t \in Threads, StoreList(t) PROVE ChanInv'
  <1> DEFINE op == req[t].op
             f == ListOf(op)
             v == CASE op \in Adds -> addList(f, req[t].uids)
                    [] op \in Removes -> removeList(f, req[t].uids)
                    [] OTHER -> {}
             pc == IF op \in Sets /\ req[t].uids # {} THEN "refill" ELSE "get"
             r == Goto(t, pc)
  <1>1. /\ Typed /\ Typing /\ req[t] \in ReqRecs /\ Touches(req[t]) \subseteq Bits /\ Keeps(obj)
        /\ req[t].pc = "store" /\ op \in ListOps /\ req[t].uids \in SUBSET Uids
    BY WriterFacts DEF StoreList
  <1>2. StepWith(t, r, obj, cache, {}, {}, {}) /\ Stored(f, v)
    BY DEF StoreList, Step
  <1>3. f \in {"deny", "allow"} /\ f \in Lists /\ "create" \notin ListOps /\ "send" \notin ListOps
    BY <1>1, TouchedBits DEF Lists
  <1>4. v \in SUBSET Uids
    <2>1. store["it"][f] \in SUBSET Uids
      BY <1>3, WriterFacts
    <2> QED
      BY <1>1, <2>1 DEF addList, removeList
  <1> HIDE DEF v
  <1>5. /\ store' \in [Ids -> StoreRecs] /\ store'["it"] \in StoreRecs
        /\ \A bit \in Bits : bit[1] = f => (Has(store'["it"], bit) <=> bit[2] \in v)
        /\ \A bit \in Bits : bit[1] # f => (Has(store'["it"], bit) <=> Has(store["it"], bit))
    BY <1>1, <1>2, <1>3, <1>4, StoredList
  <1>6. \A bit \in Bits : bit[1] = f => (Has(store["it"], bit) <=> bit[2] \in store["it"][f])
    BY <1>3, BitCases DEF Has, Ban
  <1>7. Adds \cap Removes = {} /\ Adds \cap Sets = {} /\ Removes \cap Sets = {}
        /\ ListOps = Adds \cup Sets \cup Removes
    BY DEF Adds, Removes, Sets, ListOps
  <1>8. pc \in PCs \ {"info", "subs", "deny", "allow", "insert", "idle", "fill"} /\ op \in At(pc)
        /\ pc \in {"get", "refill"} /\ (op \notin Sets => pc = "get") /\ (pc = "refill" => op \in Sets)
        /\ (op \in Sets /\ pc = "get" => req[t].uids = {})
    BY <1>1 DEF PCs, At, Lookups
  <1> HIDE DEF pc
  <1>9. /\ r \in ReqRecs /\ r.pc = pc /\ r.op = op /\ r.obj = req[t].obj
        /\ r.uids = req[t].uids /\ r.exist = req[t].exist
    BY <1>1, <1>8, GotoRec
  <1> HIDE DEF r
  <1>10. ~Holds(r) /\ ~Holds(req[t])
    BY <1>1, <1>8, <1>9 DEF Holds
  <1>11. ASSUME NEW bit \in Touches(req[t])
         PROVE  bit \in Bits /\ bit[1] = f /\ (Has(store'["it"], bit) <=> bit \in Wrote(r))
    <2>1. Touches(r) = Touches(req[t])
      BY <1>9, TouchesSame
    <2>2. CASE op \in Adds
      <3>1. v = store["it"][f] \cup req[t].uids /\ Touches(req[t]) = {f} \X req[t].uids /\ Wrote(r) = Touches(r)
        <4>1. Touches(req[t]) = {f} \X req[t].uids /\ v = store["it"][f] \cup req[t].uids
          BY <1>1, <1>7, <2>2, TouchedBits DEF v, addList
        <4>2. Wrote(r) = Touches(r)
          BY <1>9, <2>2 DEF Wrote, Adds, Sets
        <4> QED
          BY <4>1, <4>2
      <3> QED
        BY <1>1, <1>5, <1>11, <2>1, <3>1
    <2>3. CASE op \in Removes
      <3>1. v = store["it"][f] \ req[t].uids /\ Touches(req[t]) = {f} \X req[t].uids
        BY <1>1, <1>7, <2>3, TouchedBits DEF v, removeList
      <3>2. Wrote(r) = {}
        BY <1>7, <1>9, <2>3 DEF Wrote, Adds, Removes, Sets
      <3> QED
        BY <1>1, <1>5, <1>11, <3>1, <3>2
    <2>4. CASE op \in Sets
      <3>1. v = {} /\ Touches(req[t]) = {f} \X Uids
        BY <1>1, <1>7, <2>4, TouchedBits DEF v
      <3>2. Wrote(r) = {}
        BY <1>7, <1>8, <1>9, <2>4 DEF Wrote, Adds, Sets
      <3> QED
        BY <1>1, <1>5, <1>11, <3>1, <3>2
    <2> QED
      BY <1>1, <1>7, <2>2, <2>3, <2>4
  <1>12. \A bit \in Bits : bit \notin Touches(req[t]) => (Has(store'["it"], bit) <=> Has(store["it"], bit))
    <2>1. SUFFICES ASSUME NEW bit \in Bits, bit \notin Touches(req[t]), bit[1] = f
                   PROVE  bit[2] \in v <=> bit[2] \in store["it"][f]
      BY <1>5, <1>6
    <2>2. bit = <<f, bit[2]>> /\ bit[2] \in Uids
      BY <1>3, <2>1, BitCases DEF Ban
    <2>3. op \in Adds \cup Removes
      BY <1>1, <1>7, <2>1, <2>2, TouchedBits
    <2>4. bit[2] \notin req[t].uids
      <3>1. Touches(req[t]) = {f} \X req[t].uids
        BY <1>1, <2>3, TouchedBits
      <3> QED
        BY <2>1, <2>2, <3>1
    <2> QED
      BY <1>7, <2>3, <2>4 DEF v, addList, removeList
  <1> HIDE DEF f
  <1>13. \A bit \in Touches(req[t]) \ touched[t] : Knows(kind, r, obj[req[t].obj], store'["it"], bit)
    BY <1>3, <1>1, <1>8, <1>9, <1>11 DEF Knows, Private
  <1>14. \A bit : ~Before(r, bit)
    BY <1>1, <1>8, <1>9, TouchedBits DEF Before, Subs
  <1>15. req[t].op \in At(pc) /\ req[t].op # "send" /\ (req[t].op = "create" /\ pc = "fill" => req[t].uids # {})
         /\ req[t].pc # "idle"
    BY <1>1, <1>3, <1>8
  <1> HIDE DEF op
  <1> QED
    BY <1>1, <1>2, <1>5, <1>8, <1>10, <1>12, <1>13, <1>14, <1>15, Writes DEF r

\* a set in two steps,
LEMMA RefillInv == ASSUME ChanInv, NEW t \in Threads, Refill(t) PROVE ChanInv'
  <1> DEFINE op == req[t].op
             f == ListOf(op)
             v == addList(f, req[t].uids)
             r == Goto(t, "get")
  <1>1. /\ Typed /\ Typing /\ req[t] \in ReqRecs /\ Touches(req[t]) \subseteq Bits /\ Keeps(obj)
        /\ req[t].pc = "refill" /\ op \in Sets /\ req[t].uids \in SUBSET Uids
    BY WriterFacts DEF Refill, At
  <1>2. StepWith(t, r, obj, cache, {}, {}, {}) /\ Stored(f, v)
    BY DEF Refill, Step
  <1>3. op \in ListOps /\ f \in {"deny", "allow"} /\ f \in Lists /\ op # "create" /\ op # "send" /\ op \notin Subs
    BY <1>1, TouchedBits DEF Lists, Sets, ListOps, Subs
  <1>4. v \in SUBSET Uids
    <2>1. store["it"][f] \in SUBSET Uids
      BY <1>3, WriterFacts
    <2> QED
      BY <1>1, <2>1 DEF addList
  <1> HIDE DEF v
  <1>5. /\ store' \in [Ids -> StoreRecs] /\ store'["it"] \in StoreRecs
        /\ \A bit \in Bits : bit[1] = f => (Has(store'["it"], bit) <=> bit[2] \in v)
        /\ \A bit \in Bits : bit[1] # f => (Has(store'["it"], bit) <=> Has(store["it"], bit))
    BY <1>1, <1>2, <1>3, <1>4, StoredList
  <1>6. \A bit \in Bits : bit[1] = f => (Has(store["it"], bit) <=> bit[2] \in store["it"][f])
    BY <1>3, BitCases DEF Has, Ban
  <1>7. "get" \in PCs \ {"info", "subs", "deny", "allow", "insert", "idle"} /\ op \in At("get")
    BY <1>3 DEF PCs, At, Lookups
  <1>8. /\ r \in ReqRecs /\ r.pc = "get" /\ r.op = op /\ r.obj = req[t].obj
        /\ r.uids = req[t].uids /\ r.exist = req[t].exist
    BY <1>1, <1>7, GotoRec
  <1> HIDE DEF r
  <1>9. ~Holds(r) /\ ~Holds(req[t])
    BY <1>1, <1>8 DEF Holds
  <1>10. /\ \A bit \in Touches(req[t]) : bit \in Bits /\ bit[1] = f
         /\ \A bit \in Bits : bit \notin Touches(req[t]) => bit[1] # f
    BY <1>1, <1>3, TouchedBits, BitCases DEF Ban
  <1>11. ASSUME NEW bit \in Touches(req[t]) \ touched[t], Knows(kind, req[t], obj[req[t].obj], store["it"], bit)
         PROVE  Knows(kind, r, obj[req[t].obj], store'["it"], bit)
    <2>1. Behind(req[t]) /\ Wrote(req[t]) = {} /\ Wrote(r) = {f} \X req[t].uids
      BY <1>1, <1>3, <1>8 DEF Behind, Wrote, Adds, Sets
    <2>2. ~Has(store["it"], bit)
      BY <1>11, <2>1 DEF Knows
    <2>3. bit[2] \in v <=> bit[2] \in req[t].uids
      BY <1>6, <1>10, <1>11, <2>2 DEF v, addList
    <2>4. bit \in {f} \X req[t].uids <=> bit[2] \in req[t].uids
      BY <1>3, <1>10, <1>11, BitCases DEF Ban
    <2>5. Has(store'["it"], bit) <=> bit \in Wrote(r)
      BY <1>5, <1>10, <1>11, <2>1, <2>3, <2>4
    <2> QED
      BY <1>3, <1>8, <2>5 DEF Knows, Private
  <1>12. \A bit : ~Before(r, bit)
    BY <1>3, <1>8 DEF Before
  <1>13. \A bit \in Bits : bit \notin Touches(req[t]) => (Has(store'["it"], bit) <=> Has(store["it"], bit))
    BY <1>5, <1>10
  <1>14. req[t].op \in At("get") /\ req[t].op # "send" /\ req[t].op # "create" /\ req[t].pc # "idle"
    BY <1>1, <1>3, <1>7
  <1> HIDE DEF op, f
  <1> QED
    BY <1>1, <1>2, <1>5, <1>7, <1>9, <1>11, <1>12, <1>13, <1>14, Writes DEF r

\* ... and then the object.
LEMMA UseListInv == ASSUME ChanInv, NEW t \in Threads, UseList(t) PROVE ChanInv'
  <1> DEFINE o == req[t].obj
             op == req[t].op
             f == ListOf(op)
             v == CASE op \in Adds -> obj[o][f] \cup req[t].uids
                    [] op \in Removes -> obj[o][f] \ req[t].uids
                    [] OTHER -> req[t].uids
             os == Revised(o, f, v)
  <1>1. /\ Typed /\ Typing /\ req[t] \in ReqRecs /\ Touches(req[t]) \subseteq Bits /\ req[t].pc = "use"
        /\ op \in ListOps /\ KeepStore /\ store["it"] \in StoreRecs /\ req[t].uids \in SUBSET Uids
    BY WriterFacts DEF UseList
  <1>2. Holds(req[t]) /\ ~Private(req[t])
    BY <1>1 DEF Holds, Private
  <1>3. f \in {"deny", "allow"} /\ f \in Lists /\ o \in Objs /\ Of(obj, o, "it") /\ obj[o][f] \in SUBSET Uids
    <2>1. f \in {"deny", "allow"} /\ f \in Lists
      BY <1>1, TouchedBits DEF Lists
    <2> QED
      BY <1>2, <2>1, WriterFacts
  <1>4. Done(t, os, Touches(req[t]))
    BY DEF UseList, Revised
  <1>5. v \in SUBSET Uids
    BY <1>1, <1>3
  <1> HIDE DEF v
  <1>6. /\ Keeps(os)
        /\ \A bit \in Bits : bit[1] = f => (Has(os[o], bit) <=> bit[2] \in v)
        /\ \A p \in Objs : \A bit \in Bits : bit[1] # f \/ p # o => (Has(os[p], bit) <=> Has(obj[p], bit))
    BY <1>1, <1>3, <1>5, RevisedList
  <1> HIDE DEF os
  <1>7. \A bit \in Bits : bit[1] = f => (Has(obj[o], bit) <=> bit[2] \in obj[o][f])
    BY <1>3, BitCases DEF Has, Ban
  <1>8. Adds \cap Removes = {} /\ Adds \cap Sets = {} /\ Removes \cap Sets = {}
        /\ ListOps = Adds \cup Sets \cup Removes
    BY DEF Adds, Removes, Sets, ListOps
  <1>9. ASSUME NEW bit \in Touches(req[t])
        PROVE  bit \in Bits /\ (Has(os[o], bit) <=> bit \in Wrote(req[t]))
    <2>1. CASE op \in Adds
      <3>1. v = obj[o][f] \cup req[t].uids /\ Touches(req[t]) = {f} \X req[t].uids /\ Wrote(req[t]) = Touches(req[t])
        <4>1. Touches(req[t]) = {f} \X req[t].uids /\ v = obj[o][f] \cup req[t].uids
          BY <1>1, <1>8, <2>1, TouchedBits DEF v
        <4>2. Wrote(req[t]) = Touches(req[t])
          BY <2>1 DEF Wrote, Adds, Sets
        <4> QED
          BY <4>1, <4>2
      <3> QED
        BY <1>1, <1>6, <1>9, <3>1
    <2>2. CASE op \in Removes
      <3>1. v = obj[o][f] \ req[t].uids /\ Touches(req[t]) = {f} \X req[t].uids
        BY <1>1, <1>8, <2>2, TouchedBits DEF v
      <3>2. Wrote(req[t]) = {}
        BY <1>8, <2>2 DEF Wrote, Adds, Removes, Sets
      <3> QED
        BY <1>1, <1>6, <1>9, <3>1, <3>2
    <2>3. CASE op \in Sets
      <3>1. v = req[t].uids /\ Touches(req[t]) = {f} \X Uids
        BY <1>1, <1>8, <2>3, TouchedBits DEF v
      <3>2. Wrote(req[t]) = {f} \X req[t].uids
        BY <1>1, <1>8, <2>3 DEF Wrote, Adds, Sets
      <3> QED
        BY <1>1, <1>6, <1>9, <3>1, <3>2
    <2> QED
      BY <1>1, <1>8, <2>1, <2>2, <2>3
  <1>10. ASSUME NEW p \in Objs, NEW bit \in Bits, bit \notin Touches(req[t])
         PROVE  Has(os[p], bit) <=> Has(obj[p], bit)
    <2>1. SUFFICES ASSUME bit[1] = f, p = o PROVE bit[2] \in v <=> bit[2] \in obj[o][f]
      BY <1>6, <1>7
    <2>2. bit = <<f, bit[2]>> /\ bit[2] \in Uids
      BY <1>3, <2>1, BitCases DEF Ban
    <2>3. op \in Adds \cup Removes
      BY <1>1, <1>8, <1>10, <2>2, TouchedBits
    <2>4. bit[2] \notin req[t].uids
      <3>1. Touches(req[t]) = {f} \X req[t].uids
        BY <1>1, <2>3, TouchedBits
      <3> QED
        BY <1>10, <2>2, <3>1
    <2> QED
      BY <1>8, <2>3, <2>4 DEF v
  <1>11. Frame(t, Idle, os, store["it"])
    BY <1>1, <1>10, IdleRec, Framed
  <1>12. ASSUME NEW bit \in Touches(req[t]) \ touched[t]
         PROVE  Same(kind, os[o], store["it"], bit)
    <2>1. Knows(kind, req[t], obj[o], store["it"], bit) /\ bit \in Bits
      BY <1>1, <1>12 DEF ChanInv, Knowledge
    <2>2. Has(store["it"], bit) <=> bit \in Wrote(req[t])
      BY <1>1, <1>12, <2>1 DEF Knows, Behind, Lookups
    <2> QED
      BY <1>9, <1>12, <2>2 DEF Same
  <1>13. \A bit \in Touches(req[t]) \ touched[t] : bit \in Touches(req[t]) \/ (Stands(t, bit) /\ o = cache["it"]) =>
           Same(kind, os[o], store["it"], bit)
    BY <1>12
  <1>14. req[t].pc # "idle" /\ Touches(req[t]) \subseteq Touches(req[t])
    BY <1>1
  <1> HIDE DEF f, op
  <1> QED
    BY <1>1, <1>2, <1>4, <1>6, <1>11, <1>13, <1>14, Finishes

-----------------------------------------------------------------------------
\* Subscribers are read, are going to be replaced, or leave the store,
LEMMA UseSubscribersInv == ASSUME ChanInv, NEW t \in Threads, UseSubscribers(t) PROVE ChanInv'
  <1> DEFINE o == req[t].obj
  <1>1. /\ Typed /\ Typing /\ req[t] \in ReqRecs /\ Touches(req[t]) \subseteq Bits /\ Keeps(obj)
        /\ req[t].pc = "use" /\ req[t].uids \in SUBSET Uids /\ store["it"] \in StoreRecs /\ store \in [Ids -> StoreRecs]
        /\ \A f \in Lists : store["it"][f] \in SUBSET Uids
    BY WriterFacts DEF UseSubscribers
  <1>2. Holds(req[t]) /\ o \in Objs /\ Of(obj, o, "it") /\ "subs" \in Lists
    BY <1>1, WriterFacts DEF Holds, Lists
  <1>3. \A bit \in Bits : bit[1] = "subs" => (Has(store["it"], bit) <=> bit[2] \in store["it"]["subs"])
    BY BitCases DEF Has, Lists, Ban
  <1>4. req[t].op \in Subs => \A bit : Before(req[t], bit)
    BY <1>1 DEF Before, Lookups
  <1>5. CASE req[t].op = "subAdd" /\ KeepStore /\ Step(t, Reads(req[t], getList("subs"), "fill"), obj, cache)
    <2> DEFINE us == getList("subs")
               r == Reads(req[t], us, "fill")
    <2>1. us \in SUBSET Uids /\ us = store["it"]["subs"]
      BY <1>1, <1>2 DEF getList
    <2>2. StepWith(t, r, obj, cache, {}, {}, {})
      BY <1>5 DEF Step
    <2> HIDE DEF us
    <2>3. /\ r \in ReqRecs /\ r.pc = "fill" /\ r.op = "subAdd" /\ r.obj = o /\ r.uids = req[t].uids /\ r.exist = us
      BY <1>1, <1>5, <2>1, ReadsRec DEF PCs
    <2> HIDE DEF r
    <2>4. Holds(r) /\ ~Private(r)
      BY <2>3 DEF Holds, Private
    <2>5. Lawful(t, r, obj, cache)
      <3>1. r.op \in At(r.pc) /\ cache \in [Ids -> Objs \cup {None}] /\ cache["it"] \in {None, cache["it"]}
        BY <2>3, WriterFacts DEF At
      <3> QED
        BY <1>1, <1>2, <2>3, <2>4, <3>1, Ordinary
    <2>6. store' = store /\ store' \in [Ids -> StoreRecs]
      BY <1>1, <1>5 DEF KeepStore
    <2>7. Frame(t, r, obj, store'["it"])
      BY <1>1, <1>5, <2>3, <2>6, StillFrame
    <2>8. ASSUME NEW bit \in Bits PROVE Knows(kind, r, obj[o], store["it"], bit)
      <3>1. ~Behind(r)
        BY <2>3 DEF Behind, ListOps, Adds, Sets, Removes
      <3>2. bit \in Touches(r) /\ bit[2] \in r.exist => Has(store["it"], bit)
        <4>1. Touches(r) = {"subs"} \X r.uids
          BY <2>3 DEF Touches, Adds, Removes, Sets
        <4> QED
          BY <1>3, <2>1, <2>3, <4>1
      <3> QED
        BY <2>3, <2>4, <3>1, <3>2 DEF Knows
    <2>9. ASSUME NEW bit \in Touches(req[t]) \ touched[t], Stands(t, bit)
          PROVE  Follows(kind, r, cache["it"], obj[cache["it"]], store["it"], bit)
      BY <1>4, <1>5, <2>3, <2>4, <2>9 DEF Stands, Follows, Subs
    <2>10. /\ r.pc # "idle" /\ {} \subseteq Bits /\ req[t].pc # "idle"
           /\ \A bit \in Bits \ (touched[t] \cup {}) :
                Knows(kind, req[t], obj[req[t].obj], store["it"], bit) => Knows(kind, r, obj[r.obj], store'["it"], bit)
           /\ \A bit \in Touches(req[t]) \ touched[t] :
                cache["it"] \in Objs /\ Stands(t, bit) => Follows(kind, r, cache["it"], obj[cache["it"]], store'["it"], bit)
      BY <1>1, <2>3, <2>6, <2>8, <2>9
    <2> QED
      BY <2>2, <2>5, <2>6, <2>7, <2>10, GoesOn
  <1>6. CASE req[t].op = "subReset" /\ KeepStore /\ Step(t, Goto(t, "clear"), obj, cache)
    <2> DEFINE r == Goto(t, "clear")
    <2>1. StepWith(t, r, obj, cache, {}, {}, {}) /\ store' = store /\ store' \in [Ids -> StoreRecs] /\ store'["it"] \in StoreRecs
      BY <1>1, <1>6 DEF Step, KeepStore
    <2>2. "clear" \in PCs \ {"info", "subs", "deny", "allow", "insert", "idle"} /\ req[t].op \in At("clear")
      BY <1>6 DEF PCs, At
    <2>3. /\ r \in ReqRecs /\ r.pc = "clear" /\ r.op = "subReset" /\ r.obj = o
          /\ r.uids = req[t].uids /\ r.exist = req[t].exist
      BY <1>1, <1>6, <2>2, GotoRec
    <2> HIDE DEF r
    <2>4. Holds(r) <=> Holds(req[t])
      BY <1>2, <2>3 DEF Holds
    <2>5. ASSUME NEW bit PROVE Knows(kind, r, obj[o], store["it"], bit)
      <3>1. ~Behind(r)
        BY <2>3 DEF Behind, ListOps, Adds, Sets, Removes
      <3> QED
        BY <2>3, <3>1 DEF Knows, Private
    <2>6. req[t].op # "send" /\ req[t].op # "create" /\ req[t].pc # "idle"
      BY <1>1, <1>6
    <2>7. /\ \A bit \in Bits : bit \notin Touches(req[t]) => (Has(store'["it"], bit) <=> Has(store["it"], bit))
          /\ \A bit \in Touches(req[t]) \ touched[t] : Knows(kind, r, obj[req[t].obj], store'["it"], bit)
          /\ \A bit \in Touches(req[t]) \ touched[t] :
               (Before(req[t], bit) => Same(kind, obj[cache["it"]], store["it"], bit)) /\ Before(r, bit) =>
                 Same(kind, obj[cache["it"]], store'["it"], bit)
      BY <1>4, <1>6, <2>1, <2>5 DEF Subs
    <2> QED
      BY <1>1, <2>1, <2>2, <2>4, <2>6, <2>7, Writes DEF r
  <1>7. CASE req[t].op = "subRemove" /\ Stored("subs", removeList("subs", req[t].uids)) /\ Step(t, Goto(t, "drop"), obj, cache)
    <2> DEFINE r == Goto(t, "drop")
               v == removeList("subs", req[t].uids)
    <2>1. StepWith(t, r, obj, cache, {}, {}, {}) /\ Stored("subs", v)
      BY <1>7 DEF Step
    <2>2. v \in SUBSET Uids /\ v = store["it"]["subs"] \ req[t].uids
      BY <1>1, <1>2 DEF removeList
    <2> HIDE DEF v
    <2>3. /\ store' \in [Ids -> StoreRecs] /\ store'["it"] \in StoreRecs
          /\ \A bit \in Bits : bit[1] = "subs" => (Has(store'["it"], bit) <=> bit[2] \in v)
          /\ \A bit \in Bits : bit[1] # "subs" => (Has(store'["it"], bit) <=> Has(store["it"], bit))
      BY <1>1, <1>2, <2>1, <2>2, StoredList
    <2>4. "drop" \in PCs \ {"info", "subs", "deny", "allow", "insert", "idle"} /\ req[t].op \in At("drop")
      BY <1>7 DEF PCs, At
    <2>5. /\ r \in ReqRecs /\ r.pc = "drop" /\ r.op = "subRemove" /\ r.obj = o
          /\ r.uids = req[t].uids /\ r.exist = req[t].exist
      BY <1>1, <1>7, <2>4, GotoRec
    <2> HIDE DEF r
    <2>6. Holds(r) <=> Holds(req[t])
      BY <1>2, <2>5 DEF Holds
    <2>7. Touches(req[t]) = {"subs"} \X req[t].uids
      BY <1>1, <1>7, TouchedBits
    <2>8. ASSUME NEW bit \in Bits, bit \notin Touches(req[t]) PROVE Has(store'["it"], bit) <=> Has(store["it"], bit)
      <3>1. CASE bit[1] = "subs"
        <4>1. bit = <<"subs", bit[2]>>
          BY <3>1, BitCases
        <4>2. bit[2] \notin req[t].uids
          BY <2>7, <2>8, <4>1
        <4> QED
          BY <1>3, <2>2, <2>3, <3>1, <4>2
      <3>2. CASE bit[1] # "subs"
        BY <2>3, <3>2
      <3> QED
        BY <3>1, <3>2
    <2>9. ASSUME NEW bit \in Touches(req[t]) PROVE Knows(kind, r, obj[o], store'["it"], bit)
      <3>1. Wrote(r) = {}
        BY <2>5 DEF Wrote, Adds, Sets
      <3>2. ~Has(store'["it"], bit)
        BY <1>1, <2>2, <2>3, <2>7, <2>9
      <3> QED
        BY <2>5, <3>1, <3>2 DEF Knows, Private
    <2>10. \A bit : ~Before(r, bit)
      BY <2>5 DEF Before, Lookups
    <2>11. /\ req[t].op # "send" /\ req[t].op # "create" /\ req[t].pc # "idle"
           /\ \A bit \in Touches(req[t]) \ touched[t] : Knows(kind, r, obj[req[t].obj], store'["it"], bit)
           /\ \A bit \in Touches(req[t]) \ touched[t] :
                (Before(req[t], bit) => Same(kind, obj[cache["it"]], store["it"], bit)) /\ Before(r, bit) =>
                  Same(kind, obj[cache["it"]], store'["it"], bit)
      BY <1>1, <1>7, <2>9, <2>10
    <2> QED
      BY <1>1, <2>1, <2>3, <2>4, <2>6, <2>8, <2>11, Writes DEF r
  <1> QED
    BY <1>5, <1>6, <1>7 DEF UseSubscribers, Reads

\* and the object.
LEMMA DropSubscribersInv == ASSUME ChanInv, NEW t \in Threads, DropSubscribers(t) PROVE ChanInv'
  <1> DEFINE o == req[t].obj
             v == obj[o]["subs"] \ req[t].uids
             os == Revised(o, "subs", v)
  <1>1. /\ Typed /\ Typing /\ req[t] \in ReqRecs /\ Touches(req[t]) \subseteq Bits /\ req[t].pc = "drop"
        /\ req[t].op = "subRemove" /\ KeepStore /\ store["it"] \in StoreRecs /\ req[t].uids \in SUBSET Uids
    BY WriterFacts DEF DropSubscribers, At
  <1>2. Holds(req[t])
    BY <1>1 DEF Holds
  <1>3. "subs" \in Lists /\ o \in Objs /\ Of(obj, o, "it") /\ v \in SUBSET Uids
    BY <1>1, <1>2, WriterFacts DEF Lists
  <1>4. Done(t, os, Touches(req[t]))
    BY DEF DropSubscribers, Revised
  <1>5. \A bit \in Bits : bit[1] = "subs" => (Has(obj[o], bit) <=> bit[2] \in obj[o]["subs"])
    BY BitCases DEF Has, Ban, Lists
  <1>6. v = obj[o]["subs"] \ req[t].uids
    OBVIOUS
  <1> HIDE DEF v
  <1>7. /\ Keeps(os)
        /\ \A bit \in Bits : bit[1] = "subs" => (Has(os[o], bit) <=> bit[2] \in v)
        /\ \A p \in Objs : \A bit \in Bits : bit[1] # "subs" \/ p # o => (Has(os[p], bit) <=> Has(obj[p], bit))
    BY <1>1, <1>3, RevisedList
  <1> HIDE DEF os
  <1>8. Touches(req[t]) = {"subs"} \X req[t].uids
    BY <1>1, TouchedBits
  <1>9. ASSUME NEW p \in Objs, NEW bit \in Bits, bit \notin Touches(req[t])
        PROVE  Has(os[p], bit) <=> Has(obj[p], bit)
    <2>1. SUFFICES ASSUME bit[1] = "subs", p = o PROVE bit[2] \in v <=> bit[2] \in obj[o]["subs"]
      BY <1>5, <1>7
    <2>2. bit = <<"subs", bit[2]>>
      BY <2>1, BitCases
    <2> QED
      BY <1>6, <1>8, <1>9, <2>2
  <1>10. Frame(t, Idle, os, store["it"])
    BY <1>1, <1>9, IdleRec, Framed
  <1>11. ASSUME NEW bit \in Touches(req[t]) \ touched[t]
         PROVE  Same(kind, os[o], store["it"], bit)
    <2>1. Knows(kind, req[t], obj[o], store["it"], bit) /\ bit \in Bits
      BY <1>1, <1>11 DEF ChanInv, Knowledge
    <2>2. Wrote(req[t]) = {} /\ Behind(req[t])
      BY <1>1 DEF Wrote, Behind, Adds, Sets
    <2>3. ~Has(store["it"], bit)
      BY <1>11, <2>1, <2>2 DEF Knows
    <2>4. ~Has(os[o], bit)
      BY <1>6, <1>7, <1>8, <1>11, <2>1
    <2> QED
      BY <2>3, <2>4 DEF Same
  <1>12. \A bit \in Touches(req[t]) \ touched[t] : bit \in Touches(req[t]) \/ (Stands(t, bit) /\ o = cache["it"]) =>
           Same(kind, os[o], store["it"], bit)
    BY <1>11
  <1>13. req[t].pc # "idle" /\ Touches(req[t]) \subseteq Touches(req[t])
    BY <1>1
  <1> QED
    BY <1>1, <1>2, <1>4, <1>7, <1>10, <1>12, <1>13, Finishes

\* A request that touches nothing ends, whatever it did to the temporary subscribers.
LEMMA Leaves ==
  ASSUME ChanInv, NEW t \in Threads, NEW os, Keeps(os), Step(t, Idle, os, cache), KeepStore,
         \A p \in Objs : \A bit \in Bits : Has(os[p], bit) <=> Has(obj[p], bit),
         req[t].op \in Temps \cup {"send"}, req[t].pc # "idle"
  PROVE  ChanInv'
  <1>1. /\ Typed /\ Typing /\ store["it"] \in StoreRecs /\ store' = store /\ store' \in [Ids -> StoreRecs]
    BY WriterFacts DEF KeepStore
  <1>2. Touches(req[t]) = {}
    BY TouchesNone
  <1>3. StepWith(t, Idle, os, cache, {}, {}, {})
    BY DEF Step
  <1>4. Frame(t, Idle, os, store'["it"])
    BY <1>1, IdleRec, Framed
  <1>5. /\ {} \subseteq Touches(req[t]) /\ {} \subseteq Bits
        /\ \A bit \in Touches(req[t]) \ (touched[t] \cup {}) :
             cache["it"] \in Objs /\ (bit \notin loose => Stands(t, bit)) /\ (bit \notin loose \ {}) =>
               Same(kind, os[cache["it"]], store'["it"], bit)
    BY <1>2
  <1> QED
    BY <1>1, <1>3, <1>4, <1>5, Ends

\* Temporary subscribers come and go.
LEMMA UseTempsInv == ASSUME ChanInv, NEW t \in Threads, UseTemps(t) PROVE ChanInv'
  <1> DEFINE o == req[t].obj
             v == CASE req[t].op = "tmpAdd" -> obj[o]["tmp"] \cup req[t].uids
                    [] req[t].op = "tmpRemove" -> obj[o]["tmp"] \ req[t].uids
                    [] OTHER -> req[t].uids
             os == Revised(o, "tmp", v)
  <1>1. /\ Typing /\ req[t].pc = "use" /\ req[t].op \in Temps \cup {"send"} /\ KeepStore /\ req[t].uids \in SUBSET Uids
    BY WriterFacts DEF UseTemps
  <1>2. Holds(req[t])
    BY <1>1 DEF Holds
  <1>3. o \in Objs /\ Of(obj, o, "it")
    BY <1>2, WriterFacts
  <1>4. Step(t, Idle, os, cache)
    BY DEF UseTemps, Revised
  <1>5. v \in SUBSET Uids
    BY <1>1, <1>3 DEF Of, ChanRecs
  <1> HIDE DEF v
  <1>6. Keeps(os) /\ \A p \in Objs : \A bit \in Bits : Has(os[p], bit) <=> Has(obj[p], bit)
    BY <1>1, <1>3, <1>5, RevisedTemps
  <1> HIDE DEF os
  <1> QED
    BY <1>1, <1>4, <1>6, Leaves

-----------------------------------------------------------------------------
\* A message is judged,
LEMMA PermitInv == ASSUME ChanInv, NEW t \in Threads, Permit(t) PROVE ChanInv'
  <1>1. /\ Typed /\ Typing /\ store["it"] \in StoreRecs /\ store' = store /\ store' \in [Ids -> StoreRecs] /\ Keeps(obj)
        /\ req[t] \in ReqRecs /\ req[t].pc = "use" /\ req[t].op = "send"
    BY WriterFacts DEF Permit, KeepStore
  <1>2. PICK pc \in {"put", "refused"} : Step(t, Goto(t, pc), obj, cache)
    BY DEF Permit
  <1> DEFINE r == Goto(t, pc)
  <1>3. pc \in PCs /\ req[t].op \in At(pc) /\ pc \notin {"idle", "fill"}
    BY <1>1 DEF PCs, At
  <1>4. /\ r \in ReqRecs /\ r.pc = pc /\ r.op = "send" /\ r.obj = req[t].obj
        /\ r.uids = req[t].uids /\ r.exist = req[t].exist
    BY <1>1, <1>3, GotoRec
  <1>5. StepWith(t, r, obj, cache, {}, {}, {})
    BY <1>2 DEF Step
  <1>6. Holds(r) /\ Holds(req[t]) /\ ~Private(r)
    BY <1>1, <1>4 DEF Holds, Private
  <1>7. Lawful(t, r, obj, cache)
    BY <1>1, <1>3, <1>6, GotoLawful
  <1> HIDE DEF r
  <1>8. Frame(t, r, obj, store'["it"])
    BY <1>1, <1>4, StillFrame
  <1>9. ASSUME NEW bit, Knows(kind, req[t], obj[req[t].obj], store["it"], bit)
        PROVE  Knows(kind, r, obj[r.obj], store["it"], bit)
    <2>1. Touches(r) = {}
      BY <1>4, TouchesNone
    <2> QED
      BY <1>1, <1>4, <1>6, <1>9, <2>1 DEF Knows
  <1>10. /\ r.pc # "idle" /\ {} \subseteq Bits /\ req[t].pc # "idle"
         /\ \A bit \in Bits \ (touched[t] \cup {}) :
              Knows(kind, req[t], obj[req[t].obj], store["it"], bit) => Knows(kind, r, obj[r.obj], store'["it"], bit)
         /\ \A bit \in Touches(req[t]) \ touched[t] :
              cache["it"] \in Objs /\ Stands(t, bit) => Follows(kind, r, cache["it"], obj[cache["it"]], store'["it"], bit)
    BY <1>1, <1>3, <1>4, <1>9, TouchesNone
  <1> QED
    BY <1>1, <1>5, <1>7, <1>8, <1>10, GoesOn

\* refused,
LEMMA RefuseInv == ASSUME ChanInv, NEW t \in Threads, Refuse(t) PROVE ChanInv'
  <1>1. req[t].op = "send" /\ req[t].pc # "idle" /\ KeepStore /\ Step(t, Idle, obj, cache) /\ Keeps(obj)
    BY WriterFacts DEF Refuse, At, End
  <1> QED
    BY <1>1, Leaves

\* A message has its recipients.
Puts(r, us) == [r EXCEPT !.uids = us, !.obj = None, !.pc = "sent"]

\* It has let go of the object.
LEMMA PutsRec ==
  ASSUME NEW r \in ReqRecs, NEW us \in SUBSET Uids
  PROVE  /\ Puts(r, us) \in ReqRecs /\ Puts(r, us).pc = "sent"
         /\ Puts(r, us).op = r.op /\ Puts(r, us).obj = None
         /\ Puts(r, us).uids = us /\ Puts(r, us).exist = r.exist
  BY DEF Puts, ReqRecs, PCs

\* Recipients are users.
LEMMA RecipientsType ==
  ASSUME Typed, NEW c \in ChanRecs
  PROVE  RealSubscribers(c) \in SUBSET Uids
  <1>1. c.subs \in SUBSET Uids /\ c.tmp \in SUBSET Uids
    BY DEF ChanRecs
  <1>2. Parent.subs \in SUBSET Uids
    <2>1. CASE cache["parent"] # None
      <3>1. obj[cache["parent"]] \in ChanRecs
        BY <2>1 DEF Typed, Shapes, Of, Ids
      <3> QED
        BY <2>1, <3>1 DEF Parent, ChanRecs
    <2>2. CASE cache["parent"] = None
      <3>1. store["parent"].subs \in SUBSET Uids
        BY DEF Typed, Typing, StoreRecs, Ids
      <3> QED
        BY <2>2, <3>1 DEF Parent, Empty
    <2> QED
      BY <2>1, <2>2
  <1> QED
    BY <1>1, <1>2 DEF RealSubscribers

\* or put to its recipients,
LEMMA PutInv == ASSUME ChanInv, NEW t \in Threads, Put(t) PROVE ChanInv'
  <1> DEFINE c == obj[req[t].obj]
             us == RealSubscribers(c)
             r == Puts(req[t], us)
  <1>1. /\ Typed /\ Typing /\ store["it"] \in StoreRecs /\ store' = store /\ store' \in [Ids -> StoreRecs] /\ Keeps(obj)
        /\ req[t] \in ReqRecs /\ req[t].pc = "put" /\ req[t].op = "send" /\ req[t].exist = {}
        /\ cache \in [Ids -> Objs \cup {None}]
    <2>1. req[t].pc = "put" /\ req[t].op = "send" /\ store' = store
      BY WriterFacts DEF Put, KeepStore, At
    <2> QED
      BY <2>1, WriterFacts
  <1>2. Holds(req[t]) /\ c \in ChanRecs
    BY <1>1, WriterFacts DEF Holds, Of
  <1>3. us \in SUBSET Uids
    BY <1>1, <1>2, RecipientsType
  <1>4. StepWith(t, r, obj, cache, {}, {}, {})
    BY DEF Put, Step, Puts
  <1>5. r \in ReqRecs /\ r.pc = "sent" /\ r.op = "send" /\ r.obj = None /\ r.uids = us /\ r.exist = {}
    BY <1>1, <1>3, PutsRec
  <1> HIDE DEF r
  <1>6. ~Holds(r) /\ ~Private(r) /\ Touches(r) = {} /\ Touches(req[t]) = {}
    BY <1>1, <1>5, TouchesNone DEF Holds, Private
  <1>7. Lawful(t, r, obj, cache)
    <2>1. r.op \in At(r.pc) /\ cache["it"] \in {None, cache["it"]}
      BY <1>5 DEF At
    <2> QED
      BY <1>1, <1>5, <1>6, <2>1, Ordinary
  <1>8. Frame(t, r, obj, store["it"])
    BY <1>1, <1>6 DEF Frame
  <1>9. ASSUME NEW bit \in Bits, Knows(kind, req[t], c, store["it"], bit)
        PROVE  Knows(kind, r, obj[r.obj], store["it"], bit)
    <2>1. ASSUME bit[1] = "subs", bit[2] \notin NamedOf(kind)
          PROVE  /\ Has(store["it"], bit) => bit[2] \in us
                 /\ kind \notin {"topic", "info"} /\ bit[2] \in us => Has(store["it"], bit)
      <3>1. Same(kind, c, store["it"], bit)
        BY <1>1, <1>9 DEF Knows
      <3>2. bit # Ban
        BY <2>1 DEF Ban
      <3>3. Has(c, bit) <=> Has(store["it"], bit)
        BY <2>1, <3>1, <3>2 DEF Same, Exempt
      <3>4. Has(c, bit) <=> bit[2] \in c.subs
        BY <2>1, <3>2 DEF Has
      <3>5. bit[2] \in c.subs => bit[2] \in us
        BY DEF RealSubscribers
      <3>6. kind \notin {"topic", "info"} => us = c.subs
        BY DEF RealSubscribers
      <3> QED
        BY <3>3, <3>4, <3>5, <3>6
    <2> QED
      BY <1>5, <1>6, <2>1 DEF Knows
  <1>10. /\ r.pc # "idle" /\ {} \subseteq Bits /\ req[t].pc # "idle" /\ Frame(t, r, obj, store'["it"])
         /\ \A bit \in Bits \ (touched[t] \cup {}) :
              Knows(kind, req[t], obj[req[t].obj], store["it"], bit) => Knows(kind, r, obj[r.obj], store'["it"], bit)
         /\ \A bit \in Touches(req[t]) \ touched[t] :
              cache["it"] \in Objs /\ Stands(t, bit) => Follows(kind, r, cache["it"], obj[cache["it"]], store'["it"], bit)
    BY <1>1, <1>5, <1>6, <1>8, <1>9
  <1> QED
    BY <1>1, <1>4, <1>7, <1>10, GoesOn

\* and done.
LEMMA SentInv == ASSUME ChanInv, NEW t \in Threads, Sent(t) PROVE ChanInv'
  <1>1. req[t].op = "send" /\ req[t].pc # "idle" /\ KeepStore /\ Step(t, Idle, obj, cache) /\ Keeps(obj)
    BY WriterFacts DEF Sent, At, End
  <1> QED
    BY <1>1, Leaves

-----------------------------------------------------------------------------
\* Requests and the bits they touch stay, what is cached of the channel stays or leaves.
LEMMA AsideInv ==
  ASSUME ChanInv, UNCHANGED <<kind, req, touched>>, store' \in [Ids -> StoreRecs], store'["it"] = store["it"],
         cache' \in [Ids -> Objs \cup {None}], obj' \in [Objs -> ChanRecs \cup {None}],
         cache'["it"] \in {None, cache["it"]}, loose' \subseteq Bits, cache'["it"] # None => loose' = loose,
         \A t \in Threads : Holds(req[t]) => obj'[req[t].obj] = obj[req[t].obj],
         cache'["it"] # None => obj'[cache'["it"]] = obj[cache'["it"]],
         cache'["parent"] # None => Of(obj', cache'["parent"], "parent")
  PROVE  ChanInv'
  <1>1. Typed /\ Typing /\ Shapes /\ Own /\ Wary
    BY DEF ChanInv, Typed
  <1>2. Typing'
    BY <1>1 DEF Typing
  <1>3. \A t \in Threads : Shape(req[t], obj')
    BY <1>1 DEF Shapes, Shape, Of
  <1>4. \A ch \in Ids : cache'[ch] # None => Of(obj', cache'[ch], ch)
    <2>1. cache'["it"] # None => Of(obj', cache'["it"], "it")
      BY <1>1 DEF Shapes, Of, Ids
    <2> QED
      BY <2>1 DEF Ids
  <1>5. Shapes'
    BY <1>3, <1>4 DEF Shapes
  <1>6. \A t \in Threads : Private(req[t]) => req[t].obj # None
    BY <1>1, ChannelConstants DEF Shapes, Shape, Of, Private, Holds
  <1>7. Own'
    BY <1>1, <1>6 DEF Own
  <1>8. Wary'
    BY <1>1 DEF Wary
  <1>9. ASSUME NEW t \in Threads, NEW bit \in Bits \ touched[t]
        PROVE  Knows(kind, req[t], obj'[req[t].obj], store["it"], bit)
    <2>1. Knows(kind, req[t], obj[req[t].obj], store["it"], bit)
      BY DEF ChanInv, Knowledge
    <2>2. Holds(req[t]) => (Has(obj[req[t].obj], bit) <=> Has(obj'[req[t].obj], bit))
      OBVIOUS
    <2>3. req[t].op \in At(req[t].pc)
      BY <1>1 DEF Shapes, Shape
    <2> QED
      BY <2>1, <2>2, <2>3, KnowsFrame
  <1>10. Knowledge'
    BY <1>9 DEF Knowledge
  <1>11. Agreement'
    BY DEF ChanInv, Agreement
  <1> QED
    BY <1>2, <1>5, <1>7, <1>8, <1>10, <1>11 DEF ChanInv, Typed

\* Other channels evict.
LEMMA EvictInv == ASSUME ChanInv, Evict PROVE ChanInv'
  <1>1. Typed /\ Typing /\ Shapes
    BY DEF ChanInv, Typed
  <1>2. PICK ch \in Ids : cache' = [cache EXCEPT ![ch] = None]
    BY DEF Evict
  <1>3. /\ cache' \in [Ids -> Objs \cup {None}]
        /\ \A i \in Ids : cache'[i] \in {None, cache[i]}
    BY <1>1, <1>2 DEF Typing
  <1>4. \A o \in Objs : o \in {cache'[i] : i \in Ids} \cup {req[t].obj : t \in Threads} => obj'[o] = obj[o]
    BY DEF Evict, Collect
  <1>5. obj' \in [Objs -> ChanRecs \cup {None}]
    BY <1>1 DEF Evict, Collect, Typing
  <1>6. \A t \in Threads : Holds(req[t]) => obj'[req[t].obj] = obj[req[t].obj]
    BY <1>1, <1>4 DEF Shapes, Shape, Of
  <1>7. \A i \in Ids : cache'[i] # None => obj'[cache'[i]] = obj[cache'[i]]
    BY <1>3, <1>4
  <1>8. cache'["it"] # None => obj'[cache'["it"]] = obj[cache'["it"]]
    BY <1>7 DEF Ids
  <1>9. cache'["parent"] # None => Of(obj', cache'["parent"], "parent")
    BY <1>1, <1>3, <1>7 DEF Shapes, Of, Ids
  <1>10. /\ UNCHANGED <<kind, req, touched>> /\ store' \in [Ids -> StoreRecs] /\ store'["it"] = store["it"]
         /\ loose' \subseteq Bits /\ (cache'["it"] # None => loose' = loose) /\ cache'["it"] \in {None, cache["it"]}
    BY <1>1, <1>3 DEF Evict, Typing, Ids
  <1> QED
    BY <1>3, <1>5, <1>6, <1>8, <1>9, <1>10, AsideInv

\* The parent has an object of its own.
LEMMA ParentTrafficInv == ASSUME ChanInv, ParentTraffic PROVE ChanInv'
  <1>1. Typed /\ Typing /\ Shapes
    BY DEF ChanInv, Typed
  <1>2. PICK us \in SUBSET Uids :
          /\ store' = [store EXCEPT !["parent"].subs = @ \cup us]
          /\ cache' = [cache EXCEPT !["parent"] = IF @ = None THEN Fresh ELSE @]
          /\ obj' = [obj EXCEPT ![cache'["parent"]] = [Empty("parent") EXCEPT !.subs = store'["parent"].subs]]
    BY DEF ParentTraffic
  <1> DEFINE o == cache'["parent"]
             new == [Empty("parent") EXCEPT !.subs = store'["parent"].subs]
  <1>3. store' \in [Ids -> StoreRecs] /\ store'["it"] = store["it"] /\ store'["parent"].subs \in SUBSET Uids
    <2>1. store["parent"] \in StoreRecs /\ store \in [Ids -> StoreRecs]
      BY <1>1 DEF Typing, Ids
    <2>2. [store["parent"] EXCEPT !.subs = @ \cup us] \in StoreRecs
      BY <2>1 DEF StoreRecs
    <2>3. store' = [store EXCEPT !["parent"] = [store["parent"] EXCEPT !.subs = @ \cup us]]
      BY <1>2
    <2>4. store' \in [Ids -> StoreRecs] /\ store'["it"] = store["it"]
      BY <2>1, <2>2, <2>3 DEF Ids
    <2>5. store'["parent"] \in StoreRecs
      BY <2>4 DEF Ids
    <2> QED
      BY <2>4, <2>5 DEF StoreRecs
  <1>4. Fresh \in Objs /\ Fresh \notin Held
    BY FreshExists
  <1>5. o = (IF cache["parent"] = None THEN Fresh ELSE cache["parent"]) /\ cache'["it"] = cache["it"]
    BY <1>1, <1>2 DEF Typing, Ids
  <1>6. o \in Objs /\ cache' \in [Ids -> Objs \cup {None}]
    BY <1>1, <1>2, <1>4, <1>5 DEF Typing, Ids
  <1>7. new \in ChanRecs /\ new.ch = "parent"
    BY <1>3 DEF Empty, ChanRecs, Ids
  <1>8. obj' = [obj EXCEPT ![o] = new]
    BY <1>2
  <1> HIDE DEF o, new
  <1>9. obj' \in [Objs -> ChanRecs \cup {None}] /\ Of(obj', o, "parent") /\ \A p \in Objs : p # o => obj'[p] = obj[p]
    BY <1>1, <1>6, <1>7, <1>8 DEF Typing, Of
  <1>10. ASSUME NEW p \in Held, Of(obj, p, "it") PROVE p # o
    <2>1. cache["parent"] # None => Of(obj, cache["parent"], "parent")
      BY <1>1 DEF Shapes, Ids
    <2> QED
      BY <1>4, <1>5, <1>10, <2>1 DEF Of
  <1>11. \A t \in Threads : Holds(req[t]) => obj'[req[t].obj] = obj[req[t].obj]
    <2>1. \A t \in Threads : Holds(req[t]) => req[t].obj \in Held /\ Of(obj, req[t].obj, "it") /\ req[t].obj \in Objs
      BY <1>1 DEF Shapes, Shape, Of, Held
    <2> QED
      BY <1>9, <1>10, <2>1
  <1>12. cache'["it"] # None => obj'[cache'["it"]] = obj[cache'["it"]]
    <2>1. cache["it"] # None => cache["it"] \in Held /\ Of(obj, cache["it"], "it") /\ cache["it"] \in Objs
      BY <1>1 DEF Shapes, Of, Held, Ids
    <2> QED
      BY <1>5, <1>9, <1>10, <2>1
  <1>13. /\ UNCHANGED <<kind, req, touched>> /\ loose' \subseteq Bits /\ loose' = loose /\ cache'["it"] \in {None, cache["it"]}
         /\ (cache'["parent"] # None => Of(obj', cache'["parent"], "parent"))
    BY <1>1, <1>5, <1>9 DEF ParentTraffic, Typing, o
  <1> QED
    BY <1>3, <1>6, <1>9, <1>11, <1>12, <1>13, AsideInv

\* System accounts are no part of a channel.
LEMMA SystemInv ==
  ASSUME ChanInv, UNCHANGED <<kind, store, obj, cache, req, touched, loose>>
  PROVE  ChanInv'
  BY DEF ChanInv, Typed, Typing, Shapes, Own, Wary, Knowledge, Agreement

\* The invariant holds at the start.
LEMMA InitInv == Init => ChanInv
  <1>1. SUFFICES ASSUME Init PROVE ChanInv
    OBVIOUS
  <1>2. Typing
    <2>1. store \in [Ids -> StoreRecs]
      BY <1>1 DEF Init, StoreRecs
    <2>2. req \in [Threads -> ReqRecs]
      BY <1>1, IdleRec DEF Init
    <2> QED
      BY <1>1, <2>1, <2>2 DEF Init, Typing
  <1>3. \A t \in Threads : req[t] = Idle /\ req[t].op = "none" /\ req[t].pc = "idle" /\ req[t].obj = None /\ req[t].exist = {}
    BY <1>1, IdleRec DEF Init
  <1>4. \A ch \in Ids : cache[ch] = None
    BY <1>1 DEF Init
  <1>5. Shapes
    BY <1>3, <1>4 DEF Shapes, Shape, Holds, At
  <1>6. Own /\ Wary
    BY <1>1, <1>3 DEF Own, Wary, Private, Init
  <1>7. Knowledge
    BY <1>3, KnowsIdle DEF Knowledge
  <1>8. Agreement
    BY <1>4 DEF Agreement, Ids
  <1> QED
    BY <1>2, <1>5, <1>6, <1>7, <1>8 DEF ChanInv, Typed

\* Every step of a goroutine keeps the invariant,
LEMMA ServeInv == ASSUME ChanInv, NEW t \in Threads, Serve(t) PROVE ChanInv'
  <1>1. CASE Begin(t) \/ StoreFails(t) \/ GetChannel(t) \/ LoadInfo(t) \/ Insert(t)
    BY <1>1, BeginInv, StoreFailsInv, GetChannelInv, LoadInfoInv, InsertInv
  <1>2. CASE LoadList(t, "subs", "deny") \/ LoadList(t, "deny", "allow") \/ LoadList(t, "allow", "insert")
    BY <1>2, LoadListInv
  <1>3. CASE SaveInfo(t) \/ CachedInfo(t) \/ ClearSubscribers(t) \/ ClearObject(t)
             \/ FillSubscribers(t) \/ FillObject(t) \/ Uncache(t)
    BY <1>3, SaveInfoInv, CachedInfoInv, ClearSubscribersInv, ClearObjectInv, FillSubscribersInv, FillObjectInv, UncacheInv
  <1>4. CASE StoreList(t) \/ Refill(t) \/ UseList(t) \/ UseSubscribers(t) \/ DropSubscribers(t) \/ UseTemps(t)
    BY <1>4, StoreListInv, RefillInv, UseListInv, UseSubscribersInv, DropSubscribersInv, UseTempsInv
  <1>5. CASE Permit(t) \/ Refuse(t) \/ Put(t) \/ Sent(t)
    BY <1>5, PermitInv, RefuseInv, PutInv, SentInv
  <1> QED
    BY <1>1, <1>2, <1>3, <1>4, <1>5 DEF Serve

\* and so does every step.
LEMMA NextInv == ChanInv /\ [Next]_vars => ChanInv'
  <1>1. SUFFICES ASSUME ChanInv, [Next]_vars PROVE ChanInv'
    OBVIOUS
  <1>2. CASE \E t \in Threads : Serve(t)
    BY <1>1, <1>2, ServeInv
  <1>3. CASE Evict
    BY <1>1, <1>3, EvictInv
  <1>4. CASE ParentTraffic
    BY <1>1, <1>4, ParentTrafficInv
  <1>5. CASE AddSystemUIDs \/ RemoveSystemUIDs \/ UNCHANGED vars
    <2>1. UNCHANGED <<kind, store, obj, cache, req, touched, loose>>
      BY <1>5 DEF AddSystemUIDs, RemoveSystemUIDs, vars
    <2> QED
      BY <1>1, <2>1, SystemInv
  <1> QED
    BY <1>1, <1>2, <1>3, <1>4, <1>5 DEF Next

\* Same is the property's AsStored.
LEMMA SameStored ==
  ASSUME NEW o, NEW bit, Same(kind, obj[o], store["it"], bit)
  PROVE  AsStored(o, bit)
  BY DEF Same, Exempt, NamedOf, AsStored, Named

\* The invariant implies that cache and store agree.
LEMMA InvAgrees == ChanInv => CacheAgrees
  BY SameStored DEF ChanInv, Agreement, CacheAgrees

\* ... and that messages are judged by what is stored.
LEMMA InvJudged == ChanInv => JudgedByStore
  <1>1. SUFFICES ASSUME ChanInv, NEW t \in Threads
                 PROVE  /\ req[t].op = "send" /\ req[t].pc \in {"use", "put"} =>
                             \A bit \in Bits \ touched[t] : AsStored(req[t].obj, bit)
                        /\ req[t].pc = "sent" =>
                             \A u \in Uids \ Named : <<"subs", u>> \notin touched[t] =>
                               /\ u \in store["it"].subs => u \in req[t].uids
                               /\ kind \notin {"topic", "info"} /\ u \in req[t].uids => u \in store["it"].subs
    BY DEF JudgedByStore
  <1>2. \A bit \in Bits \ touched[t] : Knows(kind, req[t], obj[req[t].obj], store["it"], bit)
    BY <1>1 DEF ChanInv, Knowledge
  <1>3. ASSUME req[t].op = "send", req[t].pc \in {"use", "put"}, NEW bit \in Bits \ touched[t]
        PROVE  AsStored(req[t].obj, bit)
    BY <1>2, <1>3, SameStored DEF Knows
  <1>4. ASSUME req[t].pc = "sent", NEW u \in Uids \ Named, <<"subs", u>> \notin touched[t]
        PROVE  /\ u \in store["it"].subs => u \in req[t].uids
               /\ kind \notin {"topic", "info"} /\ u \in req[t].uids => u \in store["it"].subs
    <2> DEFINE bit == <<"subs", u>>
    <2>1. bit \in Bits /\ bit # Ban /\ bit[1] = "subs" /\ bit[2] = u
      BY <1>4 DEF Bits, Lists, Ban
    <2>2. Has(store["it"], bit) <=> u \in store["it"].subs
      BY <2>1 DEF Has
    <2>3. u \notin NamedOf(kind)
      BY <1>4 DEF Named, NamedOf
    <2> HIDE DEF bit
    <2>4. Knows(kind, req[t], obj[req[t].obj], store["it"], bit)
      BY <1>2, <1>4, <2>1 DEF bit
    <2> QED
      BY <1>4, <2>1, <2>2, <2>3, <2>4 DEF Knows
  <1> QED
    BY <1>3, <1>4

-----------------------------------------------------------------------------
\* The cached channel agrees with the store in everything that is not loose
\* (CacheAgrees): whatever the requests, loads, evictions and failing store
\* calls, and however many (api_channel.go, channel_manager.go).
THEOREM CacheCorrect == Spec => []CacheAgrees
  <1>1. Spec => []ChanInv
    BY InitInv, NextInv, PTL DEF Spec
  <1> QED
    BY <1>1, InvAgrees, PTL

\* A client's message is judged, and put to its recipients, by what the store says,
\* but for what others may have changed meanwhile or what was loose (JudgedByStore;
\* processor.go prcocessChannelMessages, channel.go Put).
THEOREM JudgementCorrect == Spec => []JudgedByStore
  <1>1. Spec => []ChanInv
    BY InitInv, NextInv, PTL DEF Spec
  <1> QED
    BY <1>1, InvJudged, PTL
=============================================================================
