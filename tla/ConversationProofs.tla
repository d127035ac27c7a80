------------------------- MODULE ConversationProofs -------------------------
(***************************************************************************)
(* UnsavedMarked and CountKept of Conversation, proved for every number of *)
(* users, channels, API goroutines, messages, calls and failures.          *)
(*                                                                         *)
(* Neither is inductive.  A conversation is an object behind pointers, and *)
(* saveloop takes pointers first, writes what they point to later and      *)
(* unmarks the user later still.  The invariant ConvInv says, while only   *)
(* saveloop saves:                                                         *)
(*   OneHome       an object is one conversation, whoever points to it, so *)
(*                 that a change through one pointer is a change of it;    *)
(*   Todo          the users the flush still has to save are marked;       *)
(*   AddedSince    what is cached and was not taken will be marked,        *)
(*   ChangedSince  and so will what differs from what was written, or a    *)
(*                 call that marks nobody has changed it: saveloop takes   *)
(*                 no mark while it flushes, so whoever else has changed   *)
(*                 something waits to mark it;                             *)
(*   CallsWaive    the count a call is at is waived, and the one calcLoop  *)
(*                 adds to a cache that was dropped;                       *)
(*   CalcReads     calcLoop has read the count of the messages, from the   *)
(*                 object that is cached if one is;                        *)
(*   OldStored     the flush has read what is stored still,                *)
(*   SnapCounted   and pointers to the right counts, or the cached object  *)
(*   CalcAbove     is newer than what is stored, so that it is not dropped *)
(*                 unnoticed.                                              *)
(***************************************************************************)
EXTENDS Conversation, FiniteSetTheorems, TLAPS

Kept == Convs \cup {None}

CalcRecs == [at : {"pop", "lookup", "load", "read", "apply", "take", "add", "mark"},
             msg : Messages \cup {None}, todo : SUBSET Users, u : Optional(Users),
             obj : Optional(Objs), n : Nat, lost : BOOLEAN]

CallAts == {"idle", "find", "fetch", "write", "take", "add", "put", "mark", "remove",
            "delRead", "delWrite", "sync"}

CallRecs == [at : CallAts,
             u : Optional(Users), c : Optional(Channels), unread : Nat, seq : Nat,
             obj : Optional(Objs), lost : BOOLEAN, read : Optional([Channels -> Kept])]

FlushRecs == [at : {"off", "next", "write", "unmark", "expire"}, todo : SUBSET Users,
              u : Optional(Users), snap : Optional([Channels -> Optional(Objs)]),
              old : Optional([Channels -> Kept])]

\* The types of the variables.
Types ==
    /\ queue \in Seq(Messages) /\ pushed \in Nat
    /\ calc \in CalcRecs /\ call \in [Callers -> CallRecs]
    /\ obj \in [Objs -> Convs]
    /\ cache \in [Users -> [Channels -> Optional(Objs)]]
    /\ stored \in [Users -> [Channels -> Kept]]
    /\ marked \subseteq Users
    /\ flush \in [Flushers -> FlushRecs]
    /\ counted \in [Users -> [Channels -> Nat]]
    /\ stop \in {"no", "wait", "flush", "done"}

\* What a goroutine has when it is at a step.
CalcHas ==
    /\ calc.at # "pop" => calc.msg \in Messages
    /\ calc.at \in {"load", "read", "apply", "take", "add", "mark"} => calc.u \in Users
    /\ calc.at \in {"read", "apply", "take", "add"} => calc.obj \in Objs
    /\ calc.at \notin {"read", "apply", "take", "add"} => calc.obj = None
    /\ calc.lost => calc.at = "add"

CallHas ==
    \A k \in Callers :
        /\ call[k].at # "idle" => call[k].u \in Users /\ call[k].c \in Channels
        /\ call[k].at \in {"write", "take", "add", "put", "sync"} => call[k].obj \in Objs
        /\ call[k].at \notin {"write", "take", "add", "put", "sync"} => call[k].obj = None
        /\ call[k].at = "delWrite" => call[k].read \in [Channels -> Kept]
        /\ call[k].at \in {"remove", "delRead", "delWrite"} => call[k].u \in erased

FlushHas ==
    \A f \in Flushers :
        /\ flush[f].at \in {"off", "next"} => flush[f].snap = None
        /\ flush[f].at \in {"write", "unmark", "expire"} =>
              /\ flush[f].u \in Users /\ flush[f].u \notin flush[f].todo
              /\ flush[f].snap \in [Channels -> Optional(Objs)]
        /\ flush[f].at = "write" => flush[f].old \in [Channels -> Kept]

Typed == Types /\ CalcHas /\ CallHas /\ FlushHas

loop == flush["saveloop"]

\* Object o is a conversation of user u in channel c.
Holds(o, u, c) ==
    \/ calc.obj = o /\ calc.u = u /\ calc.msg.chan = c
    \/ \E k \in Callers : call[k].obj = o /\ call[k].u = u /\ call[k].c = c
    \/ cache[u][c] = o
    \/ loop.at \in {"write", "unmark", "expire"} /\ loop.u = u /\ loop.snap[c] = o

\* An object is one conversation, whoever points to it.
OneHome ==
    \A o \in Objs, u, v \in Users, c, d \in Channels :
        Holds(o, u, c) /\ Holds(o, v, d) => u = v /\ c = d

\* The users that saveloop still has to save are marked.
Todo ==
    /\ loop.todo \subseteq marked
    /\ loop.at \in {"write", "unmark"} => loop.u \in marked

\* What is cached but not among the pointers that a flush has taken was added
\* since, by someone who will mark the user.
AddedSince ==
    loop.at = "write" =>
        \A c \in Channels :
            cache[loop.u][c] # None /\ cache[loop.u][c] # loop.snap[c] => MarkComing(loop.u)

\* What differs from what a flush has written was changed since, by someone who
\* will mark the user or by a call that marks nobody.
ChangedSince ==
    loop.at = "unmark" /\ loop.u \notin erased =>
        \A c \in Channels :
            Unsaved(loop.u, c) => MarkComing(loop.u) \/ <<loop.u, c>> \in silent

SaveInv ==
    Saving => /\ flush["Stop"].at = "off"
              /\ OneHome /\ Todo /\ AddedSince /\ ChangedSince /\ UnsavedMarked

-----------------------------------------------------------------------------
(* The unread counts.                                                      *)

\* Nothing but messages has changed the count.
Free(u, c) == u \notin erased /\ <<u, c>> \notin waived

\* calcLoop has counted a message and not added the conversation yet.
Adding(u, c) == calc.at \in {"take", "add"} /\ calc.u = u /\ calc.msg.chan = c

\* Version v of a conversation is not older than s, or newer.
AtLeast(v, s) == s # None => v.unread >= s.unread /\ v.seq >= s.seq
Above(v, s) == AtLeast(v, s) /\ v # s

\* A call waives the count of its conversation, and so does the nightly job when
\* it drops the cache that calcLoop is about to add to.
CallsWaive ==
    /\ \A k \in Callers : call[k].at # "idle" => <<call[k].u, call[k].c>> \in waived
    /\ calc.lost => <<calc.u, calc.msg.chan>> \in waived

\* What calcLoop has read.
CalcReads ==
    calc.at # "pop" /\ calc.u # None /\ Free(calc.u, calc.msg.chan) =>
        LET c == calc.msg.chan  u == calc.u IN
        /\ calc.at = "load" => cache[u][c] = None
        /\ calc.at \in {"read", "apply", "take", "add"} =>
              obj[calc.obj].unread = counted[u][c] /\ cache[u][c] \in {None, calc.obj}
        /\ calc.at = "apply" => calc.n = counted[u][c]

\* The flush has read what is stored still.
OldStored ==
    loop.at = "write" /\ loop.u \notin erased => loop.old = stored[loop.u]

\* What the flush will write has the count, unless a newer object is cached.
SnapCounted ==
    loop.at = "write" =>
        \A c \in Channels :
            Free(loop.u, c) /\ loop.snap[c] # None =>
              /\ cache[loop.u][c] = None =>
                    Adding(loop.u, c) \/ obj[loop.snap[c]].unread = counted[loop.u][c]
              /\ cache[loop.u][c] \notin {None, loop.snap[c]} =>
                    Above(obj[cache[loop.u][c]], stored[loop.u][c])

\* calcLoop has an object that the flush has not taken: a version of what is
\* stored, newer once it is to be added.
CalcAbove ==
    loop.at = "write" /\ calc.at \in {"read", "apply", "take", "add"} /\ calc.u = loop.u =>
        LET c == calc.msg.chan IN
        Free(loop.u, c) /\ loop.snap[c] \notin {None, calc.obj} =>
            /\ AtLeast(obj[calc.obj], stored[loop.u][c])
            /\ calc.at \in {"take", "add"} => Above(obj[calc.obj], stored[loop.u][c])

CountInv ==
    Saving => /\ CallsWaive /\ CalcReads /\ OldStored /\ SnapCounted /\ CalcAbove
              /\ CountKept

ConvInv == Typed /\ SaveInv /\ CountInv

-----------------------------------------------------------------------------
\* The image of a finite set is no larger than the set,
LEMMA ImageBound ==
  ASSUME NEW S, IsFiniteSet(S), NEW g
  PROVE  /\ IsFiniteSet({g[x] : x \in S})
         /\ Cardinality({g[x] : x \in S}) <= Cardinality(S)
  <1> DEFINE T == {g[x] : x \in S}
             f == [x \in S |-> g[x]]
  <1>1. f \in Surjection(S, T)
    BY DEF Surjection
  <1> QED
    BY <1>1, FS_Surjection

\* and a union no larger than its parts together.
LEMMA UnionBound ==
  ASSUME NEW S, NEW T, IsFiniteSet(S), IsFiniteSet(T), NEW m \in Nat, NEW n \in Nat,
         Cardinality(S) <= m, Cardinality(T) <= n
  PROVE  IsFiniteSet(S \cup T) /\ Cardinality(S \cup T) <= m + n
  <1>1. Cardinality(S) \in Nat /\ Cardinality(T) \in Nat
    BY FS_CardinalityType
  <1>2. IsFiniteSet(S \cap T)
    BY FS_Intersection
  <1>3. Cardinality(S \cap T) \in Nat
    BY <1>2, FS_CardinalityType
  <1>4. /\ IsFiniteSet(S \cup T)
        /\ Cardinality(S \cup T) = Cardinality(S) + Cardinality(T) - Cardinality(S \cap T)
    BY FS_Union
  <1> QED
    BY <1>1, <1>3, <1>4

\* An allocation finds an object that nothing points to: there are more objects
\* than pointers.
LEMMA FreshExists == Fresh \in Objs /\ ~Pointed(Fresh)
  <1> DEFINE A == {calc.obj}
             held == [k \in Callers |-> call[k].obj]
             B == {held[k] : k \in Callers}
             slots == [p \in Users \X Channels |-> cache[p[1]][p[2]]]
             C == {slots[p] : p \in Users \X Channels}
             D(f) == {flush[f].snap[c] : c \in Channels}
             E == D("saveloop") \cup D("Stop")
             ca == Cardinality(Callers)
             ch == Cardinality(Channels)
             uc == Cardinality(Users \X Channels)
  <1>1. IsFiniteSet(A) /\ Cardinality(A) <= 1
    <2>1. Cardinality(A) = 1
      BY FS_Singleton
    <2>2. IsFiniteSet(A)
      BY FS_Singleton
    <2> QED
      BY <2>1, <2>2
  <1>2. IsFiniteSet(B) /\ Cardinality(B) <= ca
    <2> HIDE DEF held
    <2> QED
      BY ImageBound, ConversationAssumption
  <1>3. \A f \in Flushers : IsFiniteSet(D(f)) /\ Cardinality(D(f)) <= ch
    <2> SUFFICES ASSUME NEW f \in Flushers
                 PROVE  IsFiniteSet(D(f)) /\ Cardinality(D(f)) <= ch
      OBVIOUS
    <2> DEFINE snap == flush[f].snap
    <2> HIDE DEF snap
    <2>1. /\ IsFiniteSet({snap[x] : x \in Channels})
          /\ Cardinality({snap[x] : x \in Channels}) <= ch
      BY ImageBound, ConversationAssumption
    <2> QED
      BY <2>1 DEF snap
  <1>4. IsFiniteSet(Users \X Channels)
    BY FS_Product, ConversationAssumption
  <1>5. IsFiniteSet(C) /\ Cardinality(C) <= uc
    <2> HIDE DEF slots
    <2> QED
      BY <1>4, ImageBound
  <1>6. ca \in Nat /\ ch \in Nat /\ uc \in Nat /\ Cardinality(Objs) \in Nat
    BY <1>4, FS_CardinalityType, ConversationAssumption
  <1>7. Cardinality(Objs) > 1 + ca + uc + 2 * ch
    BY ConversationAssumption
  <1>8. /\ IsFiniteSet(((A \cup B) \cup E) \cup C)
        /\ Cardinality(((A \cup B) \cup E) \cup C) < Cardinality(Objs)
    <2> HIDE DEF A, B, C, D, ca, ch, uc
    <2>1. IsFiniteSet(A \cup B) /\ Cardinality(A \cup B) <= 1 + ca
      BY <1>1, <1>2, <1>6, UnionBound
    <2>2. IsFiniteSet(E) /\ Cardinality(E) <= ch + ch
      BY <1>3, <1>6, UnionBound DEF Flushers
    <2> HIDE DEF E
    <2>3. 1 + ca \in Nat /\ ch + ch \in Nat /\ (1 + ca) + (ch + ch) \in Nat
      BY <1>6
    <2>4. IsFiniteSet((A \cup B) \cup E) /\ Cardinality((A \cup B) \cup E) <= (1 + ca) + (ch + ch)
      BY <2>1, <2>2, <2>3, UnionBound
    <2>5. /\ IsFiniteSet(((A \cup B) \cup E) \cup C)
          /\ Cardinality(((A \cup B) \cup E) \cup C) <= ((1 + ca) + (ch + ch)) + uc
      BY <1>5, <1>6, <2>3, <2>4, UnionBound
    <2>6. Cardinality(((A \cup B) \cup E) \cup C) \in Nat
      BY <2>5, FS_CardinalityType
    <2> QED
      BY <1>6, <1>7, <2>5, <2>6
  <1>9. PICK o \in Objs : o \notin ((A \cup B) \cup E) \cup C
    <2> DEFINE All == ((A \cup B) \cup E) \cup C
    <2>1. IsFiniteSet(All) /\ Cardinality(All) < Cardinality(Objs)
      BY <1>8
    <2> HIDE DEF All
    <2>2. Objs \subseteq All => Cardinality(Objs) <= Cardinality(All)
      BY <2>1, FS_Subset
    <2>3. Cardinality(All) \in Nat
      BY <2>1, FS_CardinalityType
    <2>4. ~(Objs \subseteq All)
      BY <1>6, <2>1, <2>2, <2>3
    <2> QED
      BY <2>4 DEF All
  <1>10. ~Pointed(o)
    <2>1. ASSUME NEW u \in Users, NEW c \in Channels
          PROVE  o # cache[u][c]
      <3>1. slots[<<u, c>>] = cache[u][c] /\ <<u, c>> \in Users \X Channels
        OBVIOUS
      <3> HIDE DEF slots
      <3> QED
        BY <1>9, <3>1
    <2>2. ASSUME NEW k \in Callers
          PROVE  o # call[k].obj
      BY <1>9
    <2>3. ASSUME NEW f \in Flushers, NEW c \in Channels
          PROVE  o # flush[f].snap[c]
      BY <1>9 DEF Flushers
    <2> QED
      BY <1>9, <2>1, <2>2, <2>3 DEF Pointed
  <1> QED
    BY <1>10 DEF Fresh

-----------------------------------------------------------------------------
\* The records that stand for "nothing".
LEMMA Nothing ==
  /\ NoCalc \in CalcRecs /\ NoCalc.at = "pop" /\ NoCalc.u = None /\ NoCalc.obj = None
  /\ NoCalc.lost = FALSE
  /\ NoCall \in CallRecs /\ NoCall.at = "idle" /\ NoCall.obj = None
  /\ NoFlush \in FlushRecs /\ NoFlush.at = "off" /\ NoFlush.snap = None /\ NoFlush.todo = {}
  BY DEF NoCalc, CalcRecs, NoCall, CallRecs, CallAts, NoFlush, FlushRecs, Optional

\* Whoever holds an object points to it, so that it is not collected.
LEMMA HeldPointed ==
  /\ FlushHas => \A o \in Objs, u \in Users, c \in Channels : Holds(o, u, c) => Pointed(o)
  /\ FlushHas' => \A o \in Objs, u \in Users, c \in Channels : Holds(o, u, c)' => Pointed(o)'
  BY ConversationAssumption DEF FlushHas, Holds, Pointed, loop, Flushers, Optional

\* Objects keep their homes when pointers are copied or dropped,
LEMMA HomeKept ==
  ASSUME OneHome,
         \A o \in Objs, u \in Users, c \in Channels : Holds(o, u, c)' => Holds(o, u, c)
  PROVE  OneHome'
  BY DEF OneHome

\* ... and when a new object gets its first pointer.
LEMMA HomeNew ==
  ASSUME OneHome, NEW n \in Objs, NEW v \in Users, NEW d \in Channels,
         \A u \in Users, c \in Channels : ~Holds(n, u, c),
         \A o \in Objs, u \in Users, c \in Channels :
            Holds(o, u, c)' => Holds(o, u, c) \/ (o = n /\ u = v /\ c = d)
  PROVE  OneHome'
  BY DEF OneHome

\* Steps that change no mark, flush or stored conversation: what they change
\* in the cache, someone is about to mark.
LEMMA SaveQuiet ==
  ASSUME Typed, SaveInv, Saving' => Saving, Saving' => OneHome',
         UNCHANGED <<flush, marked>>, erased \subseteq erased', silent \subseteq silent',
         \A u \in Users : u \notin erased' => stored'[u] = stored[u],
         \A u \in Users : MarkComing(u) => MarkComing(u)',
         \A u \in Users, c \in Channels :
            cache'[u][c] # None =>
               \/ MarkComing(u)'
               \/ /\ cache'[u][c] = cache[u][c]
                  /\ obj'[cache[u][c]] = obj[cache[u][c]] \/ <<u, c>> \in silent'
  PROVE  SaveInv'
  <1> SUFFICES ASSUME Saving'
               PROVE  /\ flush'["Stop"].at = "off"
                      /\ Todo' /\ AddedSince' /\ ChangedSince' /\ UnsavedMarked'
    BY DEF SaveInv
  <1>1. flush["Stop"].at = "off" /\ Todo /\ AddedSince /\ ChangedSince /\ UnsavedMarked /\ Saving
    BY DEF SaveInv
  <1>2. flush'["Stop"].at = "off" /\ Todo'
    BY <1>1 DEF Todo, loop
  <1>3. loop.at \in {"write", "unmark"} => loop.u \in Users
    BY DEF Typed, FlushHas, Flushers, loop
  <1>4. AddedSince'
    BY <1>1, <1>3 DEF AddedSince, loop
  <1>5. ChangedSince'
    BY <1>1, <1>3 DEF ChangedSince, Unsaved, loop
  <1>6. UnsavedMarked'
    BY <1>1 DEF UnsavedMarked, Unsaved
  <1> QED
    BY <1>2, <1>4, <1>5, <1>6

\* Steps that leave calcLoop and what is stored alone, but for conversations
\* whose count nobody vouches for.
LEMMA CountQuiet ==
  ASSUME Typed, Typed', CountInv, Saving' => Saving, CallsWaive',
         calc'.at = calc.at, calc'.msg = calc.msg, calc'.u = calc.u, calc'.obj = calc.obj,
         calc'.n = calc.n, counted' = counted, erased \subseteq erased', waived \subseteq waived',
         loop'.at = "write" => loop' = loop,
         \A u \in Users : u \notin erased' => stored'[u] = stored[u],
         \A u \in Users, c \in Channels :
            Free(u, c)' => \/ cache'[u][c] = cache[u][c]
                           \/ cache'[u][c] = None /\ ~Unsaved(u, c),
         \A o \in Objs, u \in Users, c \in Channels :
            Free(u, c)' /\ Holds(o, u, c)' => obj'[o] = obj[o]
  PROVE  CountInv'
  <1> SUFFICES ASSUME Saving'
               PROVE  CalcReads' /\ OldStored' /\ SnapCounted' /\ CalcAbove' /\ CountKept'
    BY DEF CountInv
  <1>1. CalcReads /\ OldStored /\ SnapCounted /\ CalcAbove /\ CountKept /\ Saving
    BY DEF CountInv
  <1>2. \A u \in Users, c \in Channels : Free(u, c)' => Free(u, c)
    BY DEF Free
  <1>3. \A u \in Users, c \in Channels :
          /\ cache[u][c] \in Objs \cup {None} /\ cache'[u][c] \in Objs \cup {None}
          /\ Free(u, c)' /\ cache'[u][c] \in Objs => obj'[cache'[u][c]] = obj[cache'[u][c]]
    BY DEF Typed, Types, Optional, Holds
  <1>4. calc.at \in {"read", "apply", "take", "add"} =>
          /\ calc.msg.chan \in Channels /\ calc.u \in Users
          /\ Free(calc.u, calc.msg.chan)' => obj'[calc.obj] = obj[calc.obj]
    BY DEF Typed, CalcHas, Messages, Holds
  <1>5. loop'.at = "write" =>
          /\ loop' = loop /\ loop.u \in Users
          /\ \A c \in Channels : loop.snap[c] \in Objs \cup {None}
          /\ \A c \in Channels : Free(loop.u, c)' /\ loop.snap[c] # None =>
               obj'[loop.snap[c]] = obj[loop.snap[c]]
    BY DEF Typed, FlushHas, Flushers, loop, Optional, Holds
  <1>6. CalcReads'
    BY <1>1, <1>2, <1>3, <1>4 DEF CalcReads, Typed, CalcHas, Messages
  <1>7. OldStored'
    BY <1>1, <1>5 DEF OldStored
  <1>8. CountKept'
    <2> SUFFICES ASSUME NEW u \in Users, NEW c \in Channels, Free(u, c)', ~Adding(u, c)
                 PROVE  Unread(u, c)' = counted[u][c]
      BY DEF CountKept, Free, Adding
    <2>1. Unread(u, c) = counted[u][c] /\ stored'[u][c] = stored[u][c]
      BY <1>1, <1>2 DEF CountKept, Free, Adding
    <2>2. CASE cache'[u][c] = cache[u][c]
      BY <1>3, <2>1, <2>2 DEF Unread
    <2>3. CASE cache'[u][c] = None /\ cache[u][c] # None /\ ~Unsaved(u, c)
      BY <1>3, <2>1, <2>3, ConversationAssumption DEF Unread, Unsaved, Typed, Types, Convs
    <2> QED
      BY <2>2, <2>3
  <1>9. SnapCounted'
    <2> SUFFICES ASSUME loop'.at = "write", NEW c \in Channels, Free(loop.u, c)', loop'.snap[c] # None
                 PROVE  /\ cache'[loop'.u][c] = None =>
                              Adding(loop.u, c)' \/ obj'[loop'.snap[c]].unread = counted'[loop'.u][c]
                        /\ cache'[loop'.u][c] \notin {None, loop'.snap[c]} =>
                              Above(obj'[cache'[loop'.u][c]], stored'[loop'.u][c])
      BY DEF SnapCounted, Above, AtLeast
    <2>1. PICK u, o : u = loop.u /\ o = loop.snap[c]
      OBVIOUS
    <2>2. /\ loop'.u = u /\ loop'.snap[c] = o /\ u \in Users /\ loop.at = "write" /\ o # None
          /\ obj'[o] = obj[o]
      BY <1>5, <2>1
    <2>3. Free(u, c) /\ Free(u, c)' /\ u \notin erased'
      BY <1>2, <2>2 DEF Free
    <2>4. /\ cache[u][c] = None => Adding(u, c) \/ obj[o].unread = counted[u][c]
          /\ cache[u][c] \notin {None, o} => Above(obj[cache[u][c]], stored[u][c])
      BY <1>1, <2>1, <2>2, <2>3 DEF SnapCounted
    <2>5. /\ Adding(u, c)' <=> Adding(u, c)
          /\ counted'[u][c] = counted[u][c] /\ stored'[u][c] = stored[u][c]
      BY <2>2, <2>3 DEF Adding
    <2>6. CASE cache'[u][c] = cache[u][c]
      <3>1. cache[u][c] # None => obj'[cache[u][c]] = obj[cache[u][c]]
        BY <1>3, <2>2, <2>3, <2>6
      <3> QED
        BY <2>2, <2>4, <2>5, <2>6, <3>1 DEF Above, AtLeast
    <2>7. CASE cache'[u][c] = None /\ cache[u][c] # None /\ ~Unsaved(u, c)
      <3>1. cache[u][c] = o /\ Unread(u, c) = obj[o].unread
        BY <2>4, <2>7 DEF Unsaved, Above, Unread
      <3>2. Adding(u, c) \/ Unread(u, c) = counted[u][c]
        BY <1>1, <2>2, <2>3 DEF CountKept, Free, Adding
      <3> QED
        BY <2>2, <2>5, <2>7, <3>1, <3>2
    <2> QED
      BY <2>2, <2>3, <2>6, <2>7
  <1>10. CalcAbove'
    BY <1>1, <1>2, <1>4, <1>5 DEF CalcAbove, Free, loop
  <1> QED
    BY <1>6, <1>7, <1>8, <1>9, <1>10

-----------------------------------------------------------------------------
\* PushMessage appends to the queue only.
LEMMA PushStep ==
  ASSUME ConvInv, PushMessage
  PROVE  ConvInv'
  <1>0. Typed /\ SaveInv /\ CountInv
    BY DEF ConvInv
  <1>1. UNCHANGED <<calc, call, obj, cache, stored, marked, flush, stop, counted, waived, silent, erased>>
    BY DEF PushMessage, calling, data, saver, history
  <1>2. Typed'
    <2>1. queue' \in Seq(Messages) /\ pushed' \in Nat
      <3>1. PICK c \in Channels, q \in {1, pushed + 1}, redDot \in BOOLEAN, from \in Senders :
              queue' = Append(queue, [chan |-> c, seq |-> q,
                          unreadFor |-> IF redDot THEN Subscribers[c] \ {from} ELSE {}])
        BY DEF PushMessage
      <3>2. (IF redDot THEN Subscribers[c] \ {from} ELSE {}) \in SUBSET Users
        BY ConversationAssumption
      <3>3. q \in Nat /\ pushed' \in Nat
        BY <1>0 DEF PushMessage, Typed, Types
      <3>4. [chan |-> c, seq |-> q,
             unreadFor |-> IF redDot THEN Subscribers[c] \ {from} ELSE {}] \in Messages
        BY <3>2, <3>3 DEF Messages
      <3> QED
        BY <1>0, <3>1, <3>3, <3>4 DEF Typed, Types
    <2> QED
      BY <1>0, <1>1, <2>1 DEF Typed, Types, CalcHas, CallHas, FlushHas
  <1>3. Saving' => OneHome'
    BY <1>0, <1>1, HomeKept DEF SaveInv, Holds, loop, Saving
  <1>4. SaveInv'
    BY <1>0, <1>1, <1>3, SaveQuiet DEF MarkComing, Saving
  <1>5. CountInv'
    BY <1>0, <1>1, <1>2, CountQuiet DEF CountInv, CallsWaive, Saving, loop
  <1> QED
    BY <1>2, <1>4, <1>5 DEF ConvInv

\* CalcPop takes a message; calcLoop has no pointer yet.
LEMMA PopStep ==
  ASSUME ConvInv, CalcPop
  PROVE  ConvInv'
  <1>0. Typed /\ SaveInv /\ CountInv
    BY DEF ConvInv
  <1>1. /\ UNCHANGED <<call, pushed, obj, cache, stored, marked, flush, stop, counted, waived,
                       silent, erased>>
        /\ calc.at = "pop" /\ calc.obj = None
    BY <1>0 DEF CalcPop, calling, data, saver, history, Typed, CalcHas
  <1>2. Head(queue) \in Messages /\ Tail(queue) \in Seq(Messages)
    BY <1>0 DEF Typed, Types, CalcPop
  <1>3. Subscribers[Head(queue).chan] \in SUBSET Users
    BY <1>2, ConversationAssumption DEF Messages
  <1>4. /\ calc' \in CalcRecs /\ calc'.at = "lookup" /\ calc'.msg \in Messages
        /\ calc'.u = None /\ calc'.obj = None /\ calc'.lost = FALSE
    BY <1>2, <1>3, Nothing DEF CalcPop, CalcRecs
  <1>5. Typed'
    BY <1>0, <1>1, <1>2, <1>4 DEF CalcPop, Typed, Types, CalcHas, CallHas, FlushHas
  <1>6. Saving' => OneHome'
    <2>1. \A o \in Objs, u \in Users, c \in Channels : Holds(o, u, c)' => Holds(o, u, c)
      BY <1>1, <1>4, ConversationAssumption DEF Holds, loop
    <2> QED
      BY <1>0, <1>1, <2>1, HomeKept DEF SaveInv, Saving
  <1>7. SaveInv'
    BY <1>0, <1>1, <1>4, <1>6, SaveQuiet DEF MarkComing, Saving
  <1>8. CountInv'
    <2> SUFFICES ASSUME Saving'
                 PROVE  CallsWaive' /\ CalcReads' /\ OldStored' /\ SnapCounted' /\ CalcAbove' /\ CountKept'
      BY DEF CountInv
    <2>1. Saving /\ CallsWaive /\ OldStored /\ SnapCounted /\ CountKept
      BY <1>0, <1>1 DEF CountInv, Saving
    <2>2. CallsWaive' /\ OldStored'
      BY <1>1, <1>4, <2>1 DEF CallsWaive, OldStored, loop
    <2>3. CalcReads' /\ CalcAbove'
      BY <1>4 DEF CalcReads, CalcAbove
    <2>4. SnapCounted' /\ CountKept'
      BY <1>1, <1>4, <2>1 DEF SnapCounted, CountKept, Adding, Free, Unread, loop
    <2> QED
      BY <2>2, <2>3, <2>4
  <1> QED
    BY <1>5, <1>7, <1>8 DEF ConvInv

\* CalcLookup copies the cached pointer of the subscriber.
LEMMA LookupStep ==
  ASSUME ConvInv, CalcLookup
  PROVE  ConvInv'
  <1>0. Typed /\ SaveInv /\ CountInv
    BY DEF ConvInv
  <1>1. /\ UNCHANGED <<queue, pushed, call, obj, cache, stored, marked, flush, stop, counted,
                       waived, silent, erased>>
        /\ calc.at = "lookup" /\ calc.obj = None
    BY <1>0 DEF CalcLookup, inbox, calling, data, saver, history, Typed, CalcHas
  <1>2. PICK u \in calc.todo : LET o == cache[u][calc.msg.chan] IN
          calc' = [calc EXCEPT !.at = IF o = None THEN "load" ELSE "read",
                               !.todo = @ \ {u}, !.u = u, !.obj = o]
    BY DEF CalcLookup
  <1> DEFINE d == calc.msg.chan
  <1>3. /\ u \in Users /\ calc.msg \in Messages /\ d \in Channels
        /\ cache[u][d] \in Optional(Objs)
    BY <1>0, <1>1 DEF Typed, Types, CalcRecs, CalcHas, Messages
  <1>4. /\ calc' \in CalcRecs /\ calc'.at = IF cache[u][d] = None THEN "load" ELSE "read"
        /\ calc'.msg = calc.msg /\ calc'.u = u /\ calc'.obj = cache[u][d] /\ ~calc'.lost
    BY <1>0, <1>1, <1>2, <1>3 DEF Typed, Types, CalcRecs, CalcHas, Optional
  <1> HIDE DEF d
  <1>5. Typed'
    BY <1>0, <1>1, <1>3, <1>4 DEF Typed, Types, CalcHas, CallHas, FlushHas, Optional
  <1>6. Saving' => OneHome'
    <2>1. \A o \in Objs, v \in Users, c \in Channels : Holds(o, v, c)' => Holds(o, v, c)
      BY <1>1, <1>4 DEF Holds, loop, d
    <2> QED
      BY <1>0, <1>1, <2>1, HomeKept DEF SaveInv, Saving
  <1>7. SaveInv'
    BY <1>0, <1>1, <1>4, <1>6, SaveQuiet DEF MarkComing, Saving
  <1>8. CountInv'
    <2> SUFFICES ASSUME Saving'
                 PROVE  CallsWaive' /\ CalcReads' /\ OldStored' /\ SnapCounted' /\ CalcAbove' /\ CountKept'
      BY DEF CountInv
    <2>1. Saving /\ CallsWaive /\ OldStored /\ SnapCounted /\ CountKept
      BY <1>0, <1>1 DEF CountInv, Saving
    <2>2. CallsWaive' /\ OldStored'
      BY <1>1, <1>4, <2>1 DEF CallsWaive, OldStored, loop
    <2>3. CalcReads'
      BY <1>1, <1>3, <1>4, <2>1 DEF CalcReads, CountKept, Unread, Free, d
    <2>4. CalcAbove'
      BY <1>1, <1>3, <1>4, <2>1 DEF CalcAbove, SnapCounted, Above, Free, loop, d
    <2>5. SnapCounted' /\ CountKept'
      BY <1>1, <1>4, <2>1 DEF SnapCounted, CountKept, Adding, Free, Unread, loop
    <2> QED
      BY <2>2, <2>3, <2>4, <2>5
  <1> QED
    BY <1>5, <1>7, <1>8 DEF ConvInv

\* CalcRead reads a count that is the number of messages counted.
LEMMA ReadStep ==
  ASSUME ConvInv, CalcRead
  PROVE  ConvInv'
  <1>0. Typed /\ SaveInv /\ CountInv
    BY DEF ConvInv
  <1>1. /\ UNCHANGED <<queue, pushed, call, obj, cache, stored, marked, flush, stop, counted,
                       waived, silent, erased>>
        /\ calc.at = "read" /\ calc.obj \in Objs /\ calc.u \in Users /\ calc.msg \in Messages
        /\ obj[calc.obj].unread \in Nat
    BY <1>0 DEF CalcRead, inbox, calling, data, saver, history, Typed, Types, CalcHas, Convs
  <1>2. /\ calc' \in CalcRecs /\ calc'.at = "apply" /\ calc'.n = obj[calc.obj].unread
        /\ calc'.msg = calc.msg /\ calc'.u = calc.u /\ calc'.obj = calc.obj /\ ~calc'.lost
    BY <1>0, <1>1 DEF CalcRead, Typed, Types, CalcRecs, CalcHas
  <1>3. Typed'
    BY <1>0, <1>1, <1>2 DEF Typed, Types, CalcHas, CallHas, FlushHas
  <1>4. Saving' => OneHome'
    <2>1. \A o \in Objs, v \in Users, c \in Channels : Holds(o, v, c)' => Holds(o, v, c)
      BY <1>1, <1>2 DEF Holds, loop
    <2> QED
      BY <1>0, <1>1, <2>1, HomeKept DEF SaveInv, Saving
  <1>5. SaveInv'
    BY <1>0, <1>1, <1>2, <1>4, SaveQuiet DEF MarkComing, Saving
  <1>6. CountInv'
    <2> SUFFICES ASSUME Saving'
                 PROVE  CallsWaive' /\ CalcReads' /\ OldStored' /\ SnapCounted' /\ CalcAbove' /\ CountKept'
      BY DEF CountInv
    <2>1. Saving /\ CallsWaive /\ CalcReads /\ OldStored /\ SnapCounted /\ CalcAbove /\ CountKept
      BY <1>0, <1>1 DEF CountInv, Saving
    <2>2. CallsWaive' /\ OldStored'
      BY <1>1, <1>2, <2>1 DEF CallsWaive, OldStored, loop
    <2>3. CalcReads'
      BY <1>1, <1>2, <2>1, ConversationAssumption DEF CalcReads, Free
    <2>4. CalcAbove'
      BY <1>1, <1>2, <2>1 DEF CalcAbove, Free, loop
    <2>5. SnapCounted' /\ CountKept'
      BY <1>1, <1>2, <2>1 DEF SnapCounted, CountKept, Adding, Free, Unread, loop
    <2> QED
      BY <2>2, <2>3, <2>4, <2>5
  <1> QED
    BY <1>3, <1>5, <1>6 DEF ConvInv

\* What calcLoop does once it is done with a subscriber.
LEMMA NextSub ==
  ASSUME Typed, calc.at # "pop"
  PROVE  /\ NextSubscriber \in CalcRecs /\ NextSubscriber.at \in {"pop", "lookup"}
         /\ NextSubscriber.at # "pop" => NextSubscriber.msg \in Messages
         /\ NextSubscriber.u = None /\ NextSubscriber.obj = None /\ ~NextSubscriber.lost
  <1>1. calc.msg \in Messages /\ calc.todo \in SUBSET Users
    BY DEF Typed, Types, CalcRecs, CalcHas
  <1>2. CASE calc.todo = {}
    BY <1>2, Nothing DEF NextSubscriber
  <1>3. CASE calc.todo # {}
    BY <1>1, <1>3, Nothing DEF NextSubscriber, CalcRecs
  <1> QED
    BY <1>2, <1>3

\* A conversation that grows.
LEMMA Grown ==
  ASSUME NEW v \in Convs, NEW w \in Convs, NEW s \in Kept,
         w.unread >= v.unread, w.seq >= v.seq
  PROVE  /\ AtLeast(v, s) => AtLeast(w, s)
         /\ Above(v, s) => Above(w, s)
         /\ AtLeast(v, s) /\ (w.unread > v.unread \/ w.seq > v.seq) => Above(w, s)
  BY ConversationAssumption DEF Convs, Kept, AtLeast, Above

\* CalcLoad makes an object from what is stored, which has the count of a
\* conversation that is not cached, or from the message.
LEMMA LoadStep ==
  ASSUME ConvInv, CalcLoad
  PROVE  ConvInv'
  <1>0. Typed /\ SaveInv /\ CountInv
    BY DEF ConvInv
  <1> DEFINE u == calc.u
             d == calc.msg.chan
             kept == stored[u][d]
             made == [unread |-> IF Counts THEN 1 ELSE 0, seq |-> calc.msg.seq]
  <1>1. /\ UNCHANGED <<queue, pushed, call, cache, stored, marked, flush, stop, silent, erased>>
        /\ calc.at = "load" /\ calc.obj = None /\ u \in Users /\ calc.msg \in Messages
        /\ d \in Channels /\ kept \in Kept /\ made \in Convs
    <2>1. /\ calc.at = "load" /\ calc.obj = None /\ u \in Users /\ calc.msg \in Messages
          /\ d \in Channels /\ calc.msg.seq \in Nat
      BY <1>0 DEF CalcLoad, Typed, CalcHas, Messages
    <2>2. kept \in Kept
      BY <1>0, <2>1 DEF Typed, Types
    <2>3. made \in Convs
      BY <2>1 DEF Convs
    <2> QED
      BY <2>1, <2>2, <2>3 DEF CalcLoad, inbox, calling, saver
  <1>2. PICK n \in Objs : n = Fresh /\ \A v \in Users, c \in Channels : ~Holds(n, v, c)
    BY <1>0, FreshExists, HeldPointed DEF Typed
  <1>3. PICK val \in Convs :
          /\ obj' = [obj EXCEPT ![n] = val]
          /\ \/ /\ kept = val /\ calc' = [calc EXCEPT !.at = "read", !.obj = n]
                /\ UNCHANGED <<counted, waived>>
             \/ /\ val = made /\ calc' = [calc EXCEPT !.at = "take", !.obj = n]
                /\ \/ kept = None /\ UNCHANGED waived
                   \/ waived' = waived \cup {<<u, d>>}
                /\ counted' = [counted EXCEPT ![u][d] = IF Counts THEN @ + 1 ELSE @]
    <2> HIDE DEF made
    <2>1. CASE kept # None /\ obj' = [obj EXCEPT ![Fresh] = kept]
               /\ calc' = [calc EXCEPT !.at = "read", !.obj = Fresh] /\ UNCHANGED <<counted, waived>>
      BY <1>1, <1>2, <2>1 DEF Kept
    <2>2. CASE /\ (kept = None /\ UNCHANGED waived) \/ waived' = waived \cup {<<u, d>>}
               /\ obj' = [obj EXCEPT ![Fresh] = made]
               /\ calc' = [calc EXCEPT !.at = "take", !.obj = Fresh] /\ CountIt
      BY <1>1, <1>2, <2>2 DEF CountIt
    <2> QED
      BY <2>1, <2>2 DEF CalcLoad, made
  <1>4. /\ calc' \in CalcRecs /\ calc'.at \in {"read", "take"} /\ calc'.obj = n
        /\ calc'.u = u /\ calc'.msg = calc.msg
        /\ obj' \in [Objs -> Convs] /\ obj'[n] = val
        /\ \A o \in Objs : o # n => obj'[o] = obj[o]
        /\ waived \subseteq waived' /\ ~calc'.lost
    BY <1>0, <1>1, <1>3 DEF Typed, Types, CalcRecs, CalcHas, Optional
  <1>5. /\ counted' \in [Users -> [Channels -> Nat]]
        /\ \A v \in Users, c \in Channels : v # u \/ c # d => counted'[v][c] = counted[v][c]
        /\ \/ /\ kept = val /\ calc'.at = "read" /\ counted'[u][d] = counted[u][d]
              /\ waived' = waived
           \/ /\ calc'.at = "take"
              /\ Free(u, d)' => /\ kept = None /\ waived' = waived
                                /\ counted'[u][d] = counted[u][d] + val.unread
    <2>0. counted \in [Users -> [Channels -> Nat]]
      BY <1>0 DEF Typed, Types
    <2>1. CASE kept = val /\ UNCHANGED <<counted, waived>> /\ calc' = [calc EXCEPT !.at = "read", !.obj = n]
      BY <1>0, <1>1, <2>0, <2>1 DEF Typed, Types, CalcRecs
    <2>2. CASE /\ val = made /\ calc' = [calc EXCEPT !.at = "take", !.obj = n]
               /\ \/ kept = None /\ UNCHANGED waived
                  \/ waived' = waived \cup {<<u, d>>}
               /\ counted' = [counted EXCEPT ![u][d] = IF Counts THEN @ + 1 ELSE @]
      <3>1. /\ counted' \in [Users -> [Channels -> Nat]]
            /\ \A v \in Users, c \in Channels : v # u \/ c # d => counted'[v][c] = counted[v][c]
            /\ counted'[u][d] = IF Counts THEN counted[u][d] + 1 ELSE counted[u][d]
        BY <1>1, <2>0, <2>2
      <3>2. counted'[u][d] = counted[u][d] + val.unread
        BY <1>1, <2>0, <2>2, <3>1
      <3>3. calc'.at = "take"
        BY <1>0, <2>2 DEF Typed, Types, CalcRecs
      <3>4. Free(u, d)' => kept = None /\ waived' = waived
        BY <2>2 DEF Free
      <3> QED
        BY <3>1, <3>2, <3>3, <3>4
    <2> QED
      BY <1>3, <2>1, <2>2
  <1> HIDE DEF u, d, kept, made
  <1>6. Typed'
    BY <1>0, <1>1, <1>4, <1>5 DEF Typed, Types, CalcHas, CallHas, FlushHas, u
  <1>7. \A o \in Objs, v \in Users, c \in Channels :
          /\ Holds(o, v, c)' => Holds(o, v, c) \/ (o = n /\ v = u /\ c = d)
          /\ Holds(o, v, c) => o # n
    BY <1>1, <1>2, <1>4 DEF Holds, loop, u, d
  <1>8. SaveInv'
    <2> SUFFICES ASSUME Saving' PROVE SaveInv'
      BY DEF SaveInv
    <2>1. OneHome'
      BY <1>0, <1>1, <1>2, <1>7, HomeNew DEF SaveInv, Saving
    <2>2. \A v \in Users, c \in Channels :
            cache[v][c] # None => obj'[cache[v][c]] = obj[cache[v][c]]
      BY <1>0, <1>4, <1>7 DEF Typed, Types, Optional, Holds
    <2> QED
      BY <1>0, <1>1, <1>4, <2>1, <2>2, SaveQuiet DEF MarkComing, Saving
  <1>9. CountInv'
    <2> SUFFICES ASSUME Saving'
                 PROVE  CallsWaive' /\ CalcReads' /\ OldStored' /\ SnapCounted' /\ CalcAbove' /\ CountKept'
      BY DEF CountInv
    <2>1. Saving /\ CallsWaive /\ CalcReads /\ OldStored /\ SnapCounted /\ CountKept
      BY <1>0, <1>1 DEF CountInv, Saving
    <2>2. CallsWaive' /\ OldStored'
      BY <1>1, <1>4, <2>1 DEF CallsWaive, OldStored, loop
    <2>3. \A v \in Users, c \in Channels : Free(v, c)' => Free(v, c)
      BY <1>1, <1>4 DEF Free
    <2>4. Free(u, d)' => /\ cache[u][d] = None
                         /\ kept = None => counted[u][d] = 0
                         /\ kept # None => kept.unread = counted[u][d]
      <3> SUFFICES ASSUME Free(u, d)'
                   PROVE  /\ cache[u][d] = None
                          /\ kept = None => counted[u][d] = 0
                          /\ kept # None => kept.unread = counted[u][d]
        OBVIOUS
      <3>1. Free(u, d) /\ cache[u][d] = None
        BY <1>1, <1>4, <2>1, <2>3, ConversationAssumption DEF CalcReads, u, d
      <3>2. Unread(u, d) = counted[u][d]
        BY <1>1, <2>1, <3>1 DEF CountKept, Free, u, d
      <3> QED
        BY <3>1, <3>2 DEF Unread, kept
    <2>5. CalcReads'
      <3>1. Free(u, d)' => val.unread = counted'[u][d] /\ counted[u][d] \in Nat
        BY <1>0, <1>1, <1>5, <2>4, ConversationAssumption, SMTT(30) DEF Convs, Typed, Types
      <3> QED
        BY <1>1, <1>4, <2>4, <3>1 DEF CalcReads, u, d
    <2>6. \A v \in Users, c \in Channels :
            cache[v][c] # None => obj'[cache[v][c]] = obj[cache[v][c]]
      BY <1>0, <1>4, <1>7 DEF Typed, Types, Optional, Holds
    <2>7. \A v \in Users, c \in Channels :
            Adding(v, c)' \/ (counted'[v][c] = counted[v][c] /\ ~Adding(v, c))
      BY <1>1, <1>4, <1>5 DEF Adding, u, d
    <2>8. CountKept'
      <3> SUFFICES ASSUME NEW v \in Users, NEW c \in Channels, Free(v, c)', ~Adding(v, c)'
                   PROVE  Unread(v, c)' = counted'[v][c]
        BY DEF CountKept, Free, Adding
      <3>1. Unread(v, c) = counted[v][c] /\ counted'[v][c] = counted[v][c]
        BY <2>1, <2>3, <2>7 DEF CountKept, Free, Adding
      <3> QED
        BY <1>1, <2>6, <3>1 DEF Unread
    <2>9. loop.at = "write" =>
            /\ loop.u \in Users
            /\ \A c \in Channels : loop.snap[c] # None => obj'[loop.snap[c]] = obj[loop.snap[c]]
      BY <1>0, <1>4, <1>7 DEF Typed, FlushHas, Flushers, loop, Optional, Holds
    <2>10. SnapCounted'
      BY <1>1, <2>1, <2>3, <2>6, <2>7, <2>9 DEF SnapCounted, loop
    <2>11. CalcAbove'
      <3>1. Free(u, d)' => AtLeast(val, kept) /\ (calc'.at = "take" => Above(val, kept))
        BY <1>5, ConversationAssumption DEF AtLeast, Above, Convs
      <3> QED
        BY <1>1, <1>4, <3>1 DEF CalcAbove, loop, u, d, kept
    <2> QED
      BY <2>2, <2>5, <2>8, <2>10, <2>11
  <1> QED
    BY <1>6, <1>8, <1>9 DEF ConvInv

\* CalcApply writes the count it has read plus one: nobody has changed the
\* object between, or the count is waived.
LEMMA ApplyStep ==
  ASSUME ConvInv, CalcApply
  PROVE  ConvInv'
  <1>0. Typed /\ SaveInv /\ CountInv
    BY DEF ConvInv
  <1>1. /\ UNCHANGED <<queue, pushed, call, cache, stored, marked, flush, stop, waived, silent,
                       erased>>
        /\ calc.at = "apply" /\ loop' = loop
    BY DEF CalcApply, ApplyTo, inbox, calling, saver, loop
  <1>2. PICK u \in Users, d \in Channels, o \in Objs, n \in Nat, q \in Nat :
          calc.u = u /\ calc.msg.chan = d /\ calc.obj = o /\ calc.n = n /\ calc.msg.seq = q
    BY <1>0, <1>1 DEF Typed, Types, CalcHas, CalcRecs, Messages
  <1>3. PICK val \in Convs :
          val = [unread |-> IF Counts THEN n + 1 ELSE obj[o].unread,
                 seq |-> IF obj[o].seq < q THEN q ELSE obj[o].seq]
    <2>1. obj[o].unread \in Nat /\ obj[o].seq \in Nat
      BY <1>0, <1>2 DEF Typed, Types, Convs
    <2>2. [unread |-> IF Counts THEN n + 1 ELSE obj[o].unread,
           seq |-> IF obj[o].seq < q THEN q ELSE obj[o].seq] \in Convs
      BY <2>1 DEF Convs
    <2> QED
      BY <2>2
  <1>4. /\ obj' \in [Objs -> Convs]
        /\ \A p \in Objs : Pointed(p)' => obj'[p] = IF p = o THEN val ELSE obj[p]
    <2>1. obj' = [p \in Objs |-> IF Pointed(p)' THEN [obj EXCEPT ![o] = val][p] ELSE Blank]
      BY <1>2, <1>3 DEF CalcApply, ApplyTo, Keep
    <2> QED
      BY <1>0, <2>1 DEF Typed, Types, Blank, Convs
  <1>5. \/ /\ calc' \in CalcRecs /\ calc'.at = "take" /\ calc'.obj = o
           /\ calc'.u = u /\ calc'.msg = calc.msg /\ ~calc'.lost
           /\ Counts \/ obj[o].seq < q
        \/ /\ calc' \in CalcRecs /\ calc'.at \in {"pop", "lookup"}
           /\ calc'.at # "pop" => calc'.msg \in Messages
           /\ calc'.u = None /\ calc'.obj = None /\ ~calc'.lost /\ val = obj[o] /\ ~Counts
    <2>1. CASE Counts \/ obj[o].seq < q
      <3>1. calc' = [calc EXCEPT !.at = "take", !.n = 0]
        BY <1>2, <2>1 DEF CalcApply, ApplyTo
      <3> QED
        BY <1>0, <1>1, <1>2, <2>1, <3>1 DEF Typed, Types, CalcRecs, CalcHas
    <2>2. CASE ~(Counts \/ obj[o].seq < q)
      <3>1. calc' = NextSubscriber
        BY <1>2, <2>2 DEF CalcApply, ApplyTo
      <3>2. val = obj[o]
        BY <1>0, <1>3, <2>2 DEF Typed, Types, Convs
      <3> QED
        BY <1>0, <1>1, <2>2, <3>1, <3>2, NextSub
    <2> QED
      BY <2>1, <2>2
  <1>6. /\ counted' \in [Users -> [Channels -> Nat]]
        /\ \A v \in Users, c \in Channels : v # u \/ c # d => counted'[v][c] = counted[v][c]
        /\ counted'[u][d] = IF Counts THEN counted[u][d] + 1 ELSE counted[u][d]
    <2>1. counted' = [counted EXCEPT ![u][d] = IF Counts THEN @ + 1 ELSE @]
      BY <1>2 DEF CalcApply, ApplyTo, CountIt
    <2> QED
      BY <1>0, <2>1 DEF Typed, Types
  <1>7. Typed'
    BY <1>0, <1>1, <1>2, <1>4, <1>5, <1>6 DEF Typed, Types, CalcHas, CallHas, FlushHas
  <1>8. \A p \in Objs, v \in Users, c \in Channels :
          /\ Holds(p, v, c)' => Holds(p, v, c)
          /\ Holds(p, v, c)' => obj'[p] = IF p = o THEN val ELSE obj[p]
    <2>1. \A p \in Objs, v \in Users, c \in Channels : Holds(p, v, c)' => Holds(p, v, c)
      BY <1>1, <1>2, <1>5, ConversationAssumption DEF Holds
    <2> QED
      BY <1>4, <1>7, <2>1, HeldPointed DEF Typed
  <1> SUFFICES ASSUME Saving' PROVE SaveInv' /\ CountInv'
    BY <1>7 DEF SaveInv, CountInv, ConvInv
  <1>9. /\ Saving /\ OneHome
        /\ \A v \in Users, c \in Channels : Holds(o, v, c) => v = u /\ c = d
    BY <1>0, <1>1, <1>2 DEF Saving, SaveInv, OneHome, Holds
  <1>10. \A p \in Objs, v \in Users, c \in Channels :
           Holds(p, v, c)' => \/ obj'[p] = obj[p]
                              \/ p = o /\ v = u /\ c = d /\ obj'[p] = val /\ calc'.at = "take"
    BY <1>5, <1>8, <1>9
  <1>11. \A v \in Users, c \in Channels : cache[v][c] # None =>
           cache[v][c] \in Objs /\ Holds(cache[v][c], v, c)'
    BY <1>0, <1>1 DEF Typed, Types, Optional, Holds
  <1>12. SaveInv'
    <2>1. OneHome'
      BY <1>8, <1>9, HomeKept
    <2>2. \A v \in Users : MarkComing(v) => MarkComing(v)'
      BY <1>1 DEF MarkComing
    <2>3. \A v \in Users, c \in Channels : cache[v][c] # None =>
            MarkComing(v)' \/ obj'[cache[v][c]] = obj[cache[v][c]]
      BY <1>1, <1>5, <1>10, <1>11, ConversationAssumption DEF MarkComing
    <2> QED
      BY <1>0, <1>1, <1>9, <2>1, <2>2, <2>3, SaveQuiet
  <1>13. CountInv'
    <2>1. CallsWaive /\ CalcReads /\ OldStored /\ SnapCounted /\ CalcAbove /\ CountKept
      BY <1>0, <1>9 DEF CountInv
    <2>2. CallsWaive' /\ OldStored'
      BY <1>1, <1>5, <2>1 DEF CallsWaive, OldStored, loop
    <2>3. \A v \in Users, c \in Channels : Free(v, c)' <=> Free(v, c)
      BY <1>1 DEF Free
    <2>4. Free(u, d) => /\ n = counted[u][d] /\ obj[o].unread = counted[u][d]
                        /\ cache[u][d] \in {None, o}
      BY <1>1, <1>2, <2>1, ConversationAssumption DEF CalcReads
    <2>5. Free(u, d) => val.unread = counted'[u][d]
      BY <1>3, <1>6, <2>4
    <2>6. CalcReads'
      <3>1. CASE calc'.at = "take"
        BY <1>1, <1>2, <1>4, <1>5, <1>8, <2>3, <2>4, <2>5, <3>1, ConversationAssumption DEF CalcReads, Holds
      <3>2. CASE calc'.at # "take"
        BY <1>5, <3>2 DEF CalcReads
      <3> QED
        BY <3>1, <3>2
    <2>7. \A v \in Users, c \in Channels :
            Adding(v, c)' \/ (counted'[v][c] = counted[v][c] /\ ~Adding(v, c))
      BY <1>1, <1>2, <1>5, <1>6 DEF Adding
    <2>8. \A p \in Objs, v \in Users, c \in Channels :
            Holds(p, v, c)' => Adding(v, c)' \/ obj'[p] = obj[p]
      BY <1>2, <1>5, <1>10, ConversationAssumption DEF Adding
    <2>9. CountKept'
      <3> SUFFICES ASSUME NEW v \in Users, NEW c \in Channels, Free(v, c), ~Adding(v, c)'
                   PROVE  Unread(v, c)' = counted'[v][c]
        BY <2>3 DEF CountKept, Free, Adding
      <3>1. Unread(v, c) = counted[v][c] /\ counted'[v][c] = counted[v][c]
        BY <1>9, <2>1, <2>7 DEF CountKept, Free, Adding
      <3>2. cache[v][c] # None => obj'[cache[v][c]] = obj[cache[v][c]]
        BY <1>1, <1>11, <2>8
      <3> QED
        BY <1>1, <3>1, <3>2 DEF Unread
    <2>10. Free(u, d) =>
             /\ Above(obj[o], stored[u][d]) => Above(val, stored[u][d])
             /\ AtLeast(obj[o], stored[u][d]) /\ val # obj[o] => Above(val, stored[u][d])
      <3>1. obj[o] \in Convs /\ stored[u][d] \in Kept
        BY <1>0 DEF Typed, Types
      <3>2. Free(u, d) => /\ val.unread >= obj[o].unread /\ val.seq >= obj[o].seq
                          /\ val # obj[o] => val.unread > obj[o].unread \/ val.seq > obj[o].seq
        BY <1>3, <2>4, <3>1 DEF Convs
      <3> QED
        BY <3>1, <3>2, Grown
    <2>11. loop.at = "write" =>
             /\ loop.u \in Users
             /\ \A c \in Channels : loop.snap[c] # None =>
                  loop.snap[c] \in Objs /\ Holds(loop.snap[c], loop.u, c)'
      BY <1>0, <1>1 DEF Typed, FlushHas, Flushers, loop, Optional, Holds
    <2>12. SnapCounted'
      <3> SUFFICES ASSUME loop.at = "write", NEW c \in Channels, Free(loop.u, c), loop.snap[c] # None
                   PROVE  /\ cache[loop.u][c] = None =>
                               \/ Adding(loop.u, c)'
                               \/ obj'[loop.snap[c]].unread = counted'[loop.u][c]
                          /\ cache[loop.u][c] \notin {None, loop.snap[c]} =>
                               Above(obj'[cache[loop.u][c]], stored[loop.u][c])
        BY <1>1, <2>3, <2>11 DEF SnapCounted, loop, Adding
      <3>1. cache[loop.u][c] = None =>
              Adding(loop.u, c)' \/ obj'[loop.snap[c]].unread = counted'[loop.u][c]
        BY <1>1, <2>1, <2>7, <2>8, <2>11 DEF SnapCounted, loop, Adding
      <3>2. cache[loop.u][c] \notin {None, loop.snap[c]} =>
              Above(obj'[cache[loop.u][c]], stored[loop.u][c])
        <4> SUFFICES ASSUME cache[loop.u][c] # None, cache[loop.u][c] # loop.snap[c]
                     PROVE  Above(obj'[cache[loop.u][c]], stored[loop.u][c])
          OBVIOUS
        <4>1. Above(obj[cache[loop.u][c]], stored[loop.u][c])
          BY <2>1 DEF SnapCounted
        <4>2. \/ obj'[cache[loop.u][c]] = obj[cache[loop.u][c]]
              \/ cache[loop.u][c] = o /\ loop.u = u /\ c = d /\ obj'[o] = val
          BY <1>1, <1>10, <1>11, <2>11
        <4> QED
          BY <2>10, <4>1, <4>2
      <3> QED
        BY <3>1, <3>2
    <2>13. CalcAbove'
      <3>1. CASE calc'.at = "take"
        <4>1. Free(u, d) => val # obj[o]
          <5>1. obj[o] \in Convs
            BY <1>0 DEF Typed, Types
          <5> QED
            BY <1>3, <1>5, <2>4, <3>1, <5>1 DEF Convs
        <4>2. Holds(o, u, d)'
          BY <1>2, <1>5, <3>1 DEF Holds
        <4>3. obj'[o] = val
          BY <1>8, <4>2
        <4> QED
          BY <1>1, <1>2, <1>5, <2>1, <2>3, <2>10, <3>1, <4>1, <4>3, ConversationAssumption
             DEF CalcAbove, Above
      <3>2. CASE calc'.at # "take"
        BY <1>5, <3>2 DEF CalcAbove
      <3> QED
        BY <3>1, <3>2
    <2> QED
      BY <2>2, <2>6, <2>9, <2>12, <2>13 DEF CountInv
  <1> QED
    BY <1>12, <1>13

\* CalcTake only goes on.
LEMMA TakeStep ==
  ASSUME ConvInv, CalcTake
  PROVE  ConvInv'
  <1>0. Typed /\ SaveInv /\ CountInv
    BY DEF ConvInv
  <1>1. /\ UNCHANGED <<queue, pushed, call, obj, cache, stored, marked, flush, stop, counted,
                       waived, silent, erased>>
        /\ calc.at = "take" /\ calc.obj \in Objs /\ calc.u \in Users /\ calc.msg \in Messages
    BY <1>0 DEF CalcTake, inbox, calling, data, saver, history, Typed, Types, CalcHas, Convs
  <1>2. /\ calc' \in CalcRecs /\ calc'.at = "add"
        /\ calc'.msg = calc.msg /\ calc'.u = calc.u /\ calc'.obj = calc.obj /\ ~calc'.lost
    BY <1>0, <1>1 DEF CalcTake, Typed, Types, CalcRecs, CalcHas
  <1>3. Typed'
    BY <1>0, <1>1, <1>2 DEF Typed, Types, CalcHas, CallHas, FlushHas
  <1>4. Saving' => OneHome'
    <2>1. \A o \in Objs, v \in Users, c \in Channels : Holds(o, v, c)' => Holds(o, v, c)
      BY <1>1, <1>2 DEF Holds, loop
    <2> QED
      BY <1>0, <1>1, <2>1, HomeKept DEF SaveInv, Saving
  <1>5. SaveInv'
    BY <1>0, <1>1, <1>2, <1>4, SaveQuiet DEF MarkComing, Saving
  <1>6. CountInv'
    <2> SUFFICES ASSUME Saving'
                 PROVE  CallsWaive' /\ CalcReads' /\ OldStored' /\ SnapCounted' /\ CalcAbove' /\ CountKept'
      BY DEF CountInv
    <2>1. Saving /\ CallsWaive /\ CalcReads /\ OldStored /\ SnapCounted /\ CalcAbove /\ CountKept
      BY <1>0, <1>1 DEF CountInv, Saving
    <2>2. CallsWaive' /\ OldStored'
      BY <1>1, <1>2, <2>1 DEF CallsWaive, OldStored, loop
    <2>3. CalcReads'
      BY <1>1, <1>2, <2>1, ConversationAssumption DEF CalcReads, Free
    <2>4. CalcAbove'
      BY <1>1, <1>2, <2>1 DEF CalcAbove, Free, loop
    <2>5. SnapCounted' /\ CountKept'
      BY <1>1, <1>2, <2>1 DEF SnapCounted, CountKept, Adding, Free, Unread, loop
    <2> QED
      BY <2>2, <2>3, <2>4, <2>5
  <1> QED
    BY <1>3, <1>5, <1>6 DEF ConvInv

\* CalcAdd replaces the cached pointer, by the same one or by a newer version
\* than what is stored; the mark is coming.  It may add to a cache that was
\* dropped, for nothing.
LEMMA AddStep ==
  ASSUME ConvInv, CalcAdd
  PROVE  ConvInv'
  <1>0. Typed /\ SaveInv /\ CountInv
    BY DEF ConvInv
  <1>1. /\ UNCHANGED <<queue, pushed, call, stored, marked, flush, stop, counted, waived, silent, erased>>
        /\ calc.at = "add" /\ loop' = loop
    BY DEF CalcAdd, inbox, calling, saver, history, loop
  <1>2. PICK u \in Users, d \in Channels, o \in Objs :
          calc.u = u /\ calc.msg.chan = d /\ calc.obj = o
    BY <1>0, <1>1 DEF Typed, Types, CalcHas, CalcRecs, Messages
  <1>3. /\ calc' \in CalcRecs /\ calc'.at = "mark" /\ calc'.obj = None
        /\ calc'.u = u /\ calc'.msg = calc.msg /\ ~calc'.lost
    BY <1>0, <1>1, <1>2 DEF CalcAdd, Typed, Types, CalcRecs, Optional
  <1>4. /\ cache' \in [Users -> [Channels -> Optional(Objs)]]
        /\ \A v \in Users, c \in Channels :
             cache'[v][c] = IF v = u /\ c = d /\ ~calc.lost THEN o ELSE cache[v][c]
    <2>1. CASE calc.lost
      <3>1. cache' = cache
        BY <2>1 DEF CalcAdd
      <3> QED
        BY <1>0, <2>1, <3>1 DEF Typed, Types
    <2>2. CASE ~calc.lost
      <3>1. cache' = [cache EXCEPT ![u][d] = o]
        BY <1>2, <2>2 DEF CalcAdd, CacheAdd
      <3> QED
        BY <1>0, <2>2, <3>1 DEF Typed, Types, Optional
    <2> QED
      BY <2>1, <2>2
  <1>5. /\ obj' \in [Objs -> Convs]
        /\ \A p \in Objs : Pointed(p)' => obj'[p] = obj[p]
    BY <1>0 DEF CalcAdd, Keep, Typed, Types, Blank, Convs
  <1>6. Typed'
    BY <1>0, <1>1, <1>2, <1>3, <1>4, <1>5 DEF Typed, Types, CalcHas, CallHas, FlushHas
  <1>7. \A p \in Objs, v \in Users, c \in Channels :
          /\ Holds(p, v, c)' => Holds(p, v, c)
          /\ Holds(p, v, c)' => obj'[p] = obj[p]
    <2>1. \A p \in Objs, v \in Users, c \in Channels : Holds(p, v, c)' => Holds(p, v, c)
      BY <1>1, <1>2, <1>3, <1>4, ConversationAssumption DEF Holds
    <2> QED
      BY <1>5, <1>6, <2>1, HeldPointed DEF Typed
  <1> SUFFICES ASSUME Saving' PROVE SaveInv' /\ CountInv'
    BY <1>6 DEF SaveInv, CountInv, ConvInv
  <1>8. Saving /\ OneHome /\ OneHome'
    BY <1>0, <1>1, <1>7, HomeKept DEF Saving, SaveInv
  <1>9. \A v \in Users, c \in Channels : cache'[v][c] # None =>
           cache'[v][c] \in Objs /\ obj'[cache'[v][c]] = obj[cache'[v][c]]
    BY <1>4, <1>7 DEF Optional, Holds
  <1>10. SaveInv'
    <2>1. \A v \in Users : MarkComing(v) => MarkComing(v)'
      BY <1>1, <1>2, <1>3 DEF MarkComing
    <2>2. MarkComing(u)'
      BY <1>3 DEF MarkComing
    <2>3. \A v \in Users, c \in Channels : cache'[v][c] # None =>
            \/ MarkComing(v)'
            \/ cache'[v][c] = cache[v][c] /\ obj'[cache[v][c]] = obj[cache[v][c]]
      BY <1>4, <1>9, <2>2
    <2> QED
      BY <1>0, <1>1, <1>8, <2>1, <2>3, SaveQuiet
  <1>11. CountInv'
    <2>1. CallsWaive /\ CalcReads /\ OldStored /\ SnapCounted /\ CalcAbove /\ CountKept
      BY <1>0, <1>8 DEF CountInv
    <2>2. CallsWaive' /\ OldStored'
      BY <1>1, <1>3, <2>1 DEF CallsWaive, OldStored
    <2>3. \A v \in Users, c \in Channels : Free(v, c)' <=> Free(v, c)
      BY <1>1 DEF Free
    <2>4. CalcReads' /\ CalcAbove'
      BY <1>3 DEF CalcReads, CalcAbove
    <2>5. Free(u, d) => obj[o].unread = counted[u][d] /\ ~calc.lost
      BY <1>1, <1>2, <2>1, ConversationAssumption DEF CalcReads, CallsWaive, Free
    <2>6. CountKept'
      <3> SUFFICES ASSUME NEW v \in Users, NEW c \in Channels, Free(v, c)
                   PROVE  Unread(v, c)' = counted[v][c]
        BY <1>1, <2>3 DEF CountKept, Free
      <3>1. CASE v = u /\ c = d
        BY <1>4, <1>9, <2>5, <3>1, ConversationAssumption DEF Unread
      <3>2. CASE ~(v = u /\ c = d)
        <4>1. Unread(v, c) = counted[v][c]
          BY <1>2, <1>8, <2>1, <3>2 DEF CountKept, Free
        <4> QED
          BY <1>1, <1>4, <1>9, <3>2, <4>1 DEF Unread
      <3> QED
        BY <3>1, <3>2
    <2>7. loop.at = "write" =>
             /\ loop.u \in Users
             /\ \A c \in Channels : loop.snap[c] # None => obj'[loop.snap[c]] = obj[loop.snap[c]]
      BY <1>0, <1>1, <1>7 DEF Typed, FlushHas, Flushers, loop, Optional, Holds
    <2>8. SnapCounted'
      <3> SUFFICES ASSUME loop.at = "write", NEW c \in Channels, Free(loop.u, c), loop.snap[c] # None
                   PROVE  /\ cache'[loop.u][c] = None =>
                               obj'[loop.snap[c]].unread = counted[loop.u][c]
                          /\ cache'[loop.u][c] \notin {None, loop.snap[c]} =>
                               Above(obj'[cache'[loop.u][c]], stored[loop.u][c])
        BY <1>1, <2>3, <2>7 DEF SnapCounted
      <3>1. CASE loop.u = u /\ c = d
        BY <1>1, <1>2, <1>4, <1>9, <2>1, <2>5, <2>7, <3>1, ConversationAssumption DEF CalcAbove
      <3>2. CASE ~(loop.u = u /\ c = d)
        BY <1>2, <1>4, <1>9, <2>1, <2>7, <3>2 DEF SnapCounted, Adding
      <3> QED
        BY <3>1, <3>2
    <2> QED
      BY <2>2, <2>4, <2>6, <2>8 DEF CountInv
  <1> QED
    BY <1>10, <1>11

-----------------------------------------------------------------------------
(* The next local variables of an API goroutine.                           *)

\* A step that only goes on,
CallMoves(l, a) == [l EXCEPT !.at = a]

\* Its fields.
LEMMA CallMovesFields ==
  ASSUME NEW l \in CallRecs, NEW a \in CallAts
  PROVE  /\ CallMoves(l, a) \in CallRecs
         /\ CallMoves(l, a).at = a
         /\ CallMoves(l, a).u = l.u
         /\ CallMoves(l, a).c = l.c
         /\ CallMoves(l, a).obj = l.obj
  <1>1. CallMoves(l, a) \in CallRecs
    BY DEF CallMoves, CallRecs, CallAts
  <1>2. CallMoves(l, a).at = a
    BY DEF CallMoves, CallRecs
  <1>3. CallMoves(l, a).u = l.u
    BY DEF CallMoves, CallRecs
  <1>4. CallMoves(l, a).c = l.c
    BY DEF CallMoves, CallRecs
  <1>5. CallMoves(l, a).obj = l.obj
    BY DEF CallMoves, CallRecs
  <1> QED
    BY <1>1, <1>2, <1>3, <1>4, <1>5

\* takes or drops a pointer,
CallTakes(l, a, o) == [l EXCEPT !.at = a, !.obj = o]

\* Its fields.
LEMMA CallTakesFields ==
  ASSUME NEW l \in CallRecs, NEW a \in CallAts, NEW o \in Optional(Objs)
  PROVE  /\ CallTakes(l, a, o) \in CallRecs
         /\ CallTakes(l, a, o).at = a
         /\ CallTakes(l, a, o).u = l.u
         /\ CallTakes(l, a, o).c = l.c
         /\ CallTakes(l, a, o).obj = o
  <1>1. CallTakes(l, a, o) \in CallRecs
    BY DEF CallTakes, CallRecs, CallAts
  <1>2. CallTakes(l, a, o).at = a
    BY DEF CallTakes, CallRecs
  <1>3. CallTakes(l, a, o).u = l.u
    BY DEF CallTakes, CallRecs
  <1>4. CallTakes(l, a, o).c = l.c
    BY DEF CallTakes, CallRecs
  <1>5. CallTakes(l, a, o).obj = o
    BY DEF CallTakes, CallRecs
  <1> QED
    BY <1>1, <1>2, <1>3, <1>4, <1>5

\* adds what it points to,
CallDrops(l, a, o) == [l EXCEPT !.at = a, !.obj = o, !.lost = FALSE]

\* Its fields.
LEMMA CallDropsFields ==
  ASSUME NEW l \in CallRecs, NEW a \in CallAts, NEW o \in Optional(Objs)
  PROVE  /\ CallDrops(l, a, o) \in CallRecs
         /\ CallDrops(l, a, o).at = a
         /\ CallDrops(l, a, o).u = l.u
         /\ CallDrops(l, a, o).c = l.c
         /\ CallDrops(l, a, o).obj = o
  <1>1. CallDrops(l, a, o) \in CallRecs
    BY DEF CallDrops, CallRecs, CallAts
  <1>2. CallDrops(l, a, o).at = a
    BY DEF CallDrops, CallRecs
  <1>3. CallDrops(l, a, o).u = l.u
    BY DEF CallDrops, CallRecs
  <1>4. CallDrops(l, a, o).c = l.c
    BY DEF CallDrops, CallRecs
  <1>5. CallDrops(l, a, o).obj = o
    BY DEF CallDrops, CallRecs
  <1> QED
    BY <1>1, <1>2, <1>3, <1>4, <1>5

\* reads what is stored,
CallReads(l, a, s) == [l EXCEPT !.at = a, !.read = s]

\* Its fields.
LEMMA CallReadsFields ==
  ASSUME NEW l \in CallRecs, NEW a \in CallAts, NEW s \in Optional([Channels -> Kept])
  PROVE  /\ CallReads(l, a, s) \in CallRecs
         /\ CallReads(l, a, s).at = a
         /\ CallReads(l, a, s).u = l.u
         /\ CallReads(l, a, s).c = l.c
         /\ CallReads(l, a, s).obj = l.obj
         /\ CallReads(l, a, s).read = s
  <1>1. CallReads(l, a, s) \in CallRecs
    BY DEF CallReads, CallRecs, CallAts
  <1>2. CallReads(l, a, s).at = a
    BY DEF CallReads, CallRecs
  <1>3. CallReads(l, a, s).u = l.u
    BY DEF CallReads, CallRecs
  <1>4. CallReads(l, a, s).c = l.c
    BY DEF CallReads, CallRecs
  <1>5. CallReads(l, a, s).obj = l.obj
    BY DEF CallReads, CallRecs
  <1>6. CallReads(l, a, s).read = s
    BY DEF CallReads, CallRecs
  <1> QED
    BY <1>1, <1>2, <1>3, <1>4, <1>5, <1>6

\* or loses the cache it found.
CallLoses(l) == [l EXCEPT !.lost = TRUE]

\* Its fields.
LEMMA CallLosesFields ==
  ASSUME NEW l \in CallRecs
  PROVE  /\ CallLoses(l) \in CallRecs
         /\ CallLoses(l).at = l.at
         /\ CallLoses(l).u = l.u
         /\ CallLoses(l).c = l.c
         /\ CallLoses(l).obj = l.obj
         /\ CallLoses(l).read = l.read
  <1>1. CallLoses(l) \in CallRecs
    BY DEF CallLoses, CallRecs, CallAts
  <1>2. CallLoses(l).at = l.at
    BY DEF CallLoses, CallRecs
  <1>3. CallLoses(l).u = l.u
    BY DEF CallLoses, CallRecs
  <1>4. CallLoses(l).c = l.c
    BY DEF CallLoses, CallRecs
  <1>5. CallLoses(l).obj = l.obj
    BY DEF CallLoses, CallRecs
  <1>6. CallLoses(l).read = l.read
    BY DEF CallLoses, CallRecs
  <1> QED
    BY <1>1, <1>2, <1>3, <1>4, <1>5, <1>6

\* The arguments of a call that sets a count,
CallAsks(l, u, c, m, q) == [l EXCEPT !.u = u, !.c = c, !.unread = m, !.seq = q]

\* Its fields.
LEMMA CallAsksFields ==
  ASSUME NEW l \in CallRecs, NEW u \in Optional(Users), NEW c \in Optional(Channels),
         NEW m \in Nat, NEW q \in Nat
  PROVE  /\ CallAsks(l, u, c, m, q) \in CallRecs
         /\ CallAsks(l, u, c, m, q).at = l.at
         /\ CallAsks(l, u, c, m, q).u = u
         /\ CallAsks(l, u, c, m, q).c = c
         /\ CallAsks(l, u, c, m, q).obj = l.obj
  <1>1. CallAsks(l, u, c, m, q) \in CallRecs
    BY DEF CallAsks, CallRecs, CallAts
  <1>2. CallAsks(l, u, c, m, q).at = l.at
    BY DEF CallAsks, CallRecs
  <1>3. CallAsks(l, u, c, m, q).u = u
    BY DEF CallAsks, CallRecs
  <1>4. CallAsks(l, u, c, m, q).c = c
    BY DEF CallAsks, CallRecs
  <1>5. CallAsks(l, u, c, m, q).obj = l.obj
    BY DEF CallAsks, CallRecs
  <1> QED
    BY <1>1, <1>2, <1>3, <1>4, <1>5

\* and of one that deletes.
CallErases(l, a, u, c) == [l EXCEPT !.at = a, !.u = u, !.c = c]

\* Its fields.
LEMMA CallErasesFields ==
  ASSUME NEW l \in CallRecs, NEW a \in CallAts, NEW u \in Optional(Users),
         NEW c \in Optional(Channels)
  PROVE  /\ CallErases(l, a, u, c) \in CallRecs
         /\ CallErases(l, a, u, c).at = a
         /\ CallErases(l, a, u, c).u = u
         /\ CallErases(l, a, u, c).c = c
         /\ CallErases(l, a, u, c).obj = l.obj
  <1>1. CallErases(l, a, u, c) \in CallRecs
    BY DEF CallErases, CallRecs, CallAts
  <1>2. CallErases(l, a, u, c).at = a
    BY DEF CallErases, CallRecs
  <1>3. CallErases(l, a, u, c).u = u
    BY DEF CallErases, CallRecs
  <1>4. CallErases(l, a, u, c).c = c
    BY DEF CallErases, CallRecs
  <1>5. CallErases(l, a, u, c).obj = l.obj
    BY DEF CallErases, CallRecs
  <1> QED
    BY <1>1, <1>2, <1>3, <1>4, <1>5

-----------------------------------------------------------------------------
\* What a request turns a conversation into is a conversation.
LEMMA ChangedConv ==
  ASSUME NEW v, NEW l, v.seq \in Nat, l.seq \in Nat, l.unread \in Nat
  PROVE  Changed(v, l) \in Convs
  <1>1. (IF l.seq > 0 THEN l.seq ELSE v.seq) \in Nat
    OBVIOUS
  <1> QED
    BY <1>1 DEF Changed, Convs

\* CallSet waives the count, and may make an object nobody else has.
LEMMA SetStep ==
  ASSUME ConvInv, NEW k \in Callers, CallSet(k)
  PROVE  ConvInv'
  <1>0. Typed /\ SaveInv /\ CountInv
    BY DEF ConvInv
  <1>1. /\ UNCHANGED <<queue, pushed, calc, cache, stored, marked, flush, stop, counted, silent,
                       erased>>
        /\ call[k].at = "idle" /\ call[k].obj = None /\ loop' = loop
    BY <1>0 DEF CallSet, inbox, saver, loop, Typed, CallHas
  <1>2. PICK n \in Objs : n = Fresh /\ \A v \in Users, c \in Channels : ~Holds(n, v, c)
    BY <1>0, FreshExists, HeldPointed DEF Typed
  <1>3. PICK c \in Channels, m \in 0 .. 1, q \in {0, MaxMessages}, u \in Users :
          /\ u \in Subscribers[c]
          /\ waived' = waived \cup {<<u, c>>}
          /\ \/ /\ obj' = [obj EXCEPT ![n] = [unread |-> 0, seq |-> q]]
                /\ SetCall(k, CallTakes(CallAsks(NoCall, u, c, m, q), "take", n))
             \/ /\ SetCall(k, CallMoves(CallAsks(NoCall, u, c, m, q), "find"))
                /\ UNCHANGED obj
    <2>1. PICK c \in Channels, m \in 0 .. 1, q \in {0, MaxMessages} : \E u \in Subscribers[c] :
          LET l == [NoCall EXCEPT !.u = u, !.c = c, !.unread = m, !.seq = q]
              o == Fresh
              Make == /\ obj' = [obj EXCEPT ![o] = [unread |-> 0, seq |-> q]]
                      /\ SetCall(k, [l EXCEPT !.at = "take", !.obj = o])
              Find == SetCall(k, [l EXCEPT !.at = "find"]) /\ UNCHANGED obj
          IN
          /\ \/ /\ cache[u][c] # None \/ stored[u][c] # None
                /\ StoreWorks /\ Find
             \/ /\ cache[u][c] = None
                /\ StoreFails \/ (StoreWorks /\ stored[u][c] = None)
                /\ IF q > 0 /\ m = 0 THEN Make ELSE Find
          /\ waived' = waived \cup {<<u, c>>}
      BY Zenon DEF CallSet
    <2>2. PICK u \in Subscribers[c] :
            /\ \/ SetCall(k, CallMoves(CallAsks(NoCall, u, c, m, q), "find")) /\ UNCHANGED obj
               \/ /\ obj' = [obj EXCEPT ![Fresh] = [unread |-> 0, seq |-> q]]
                  /\ SetCall(k, CallTakes(CallAsks(NoCall, u, c, m, q), "take", Fresh))
            /\ waived' = waived \cup {<<u, c>>}
      BY <2>1, Zenon DEF CallAsks, CallTakes, CallMoves
    <2>3. u \in Users
      BY ConversationAssumption
    <2> QED
      BY <1>2, <2>2, <2>3
  <1>4. u \in Users /\ m \in Nat /\ q \in Nat
    BY ConversationAssumption
  <1>5. PICK l \in CallRecs :
          /\ l = CallAsks(NoCall, u, c, m, q)
          /\ l.u = u /\ l.c = c /\ l.obj = None
    <2>1. u \in Optional(Users) /\ c \in Optional(Channels)
      BY <1>4 DEF Optional
    <2> QED
      BY <1>4, <2>1, Nothing, CallAsksFields
  <1>6. /\ call' \in [Callers -> CallRecs] /\ \A j \in Callers : j # k => call'[j] = call[j]
        /\ call'[k].u = u /\ call'[k].c = c
        /\ obj' \in [Objs -> Convs] /\ \A o \in Objs : o # n => obj'[o] = obj[o]
        /\ call'[k].at \in {"take", "find"}
        /\ call'[k].obj = IF call'[k].at = "take" THEN n ELSE None
    <2>1. CASE /\ obj' = [obj EXCEPT ![n] = [unread |-> 0, seq |-> q]]
               /\ SetCall(k, CallTakes(l, "take", n))
      <3>1. PICK r \in CallRecs : r = CallTakes(l, "take", n) /\ r.at = "take"
                                  /\ r.obj = n /\ r.u = u /\ r.c = c
        <4>1. "take" \in CallAts /\ n \in Optional(Objs)
          BY DEF CallAts, Optional
        <4> QED
          BY <1>5, <4>1, CallTakesFields
      <3>2. call' = [call EXCEPT ![k] = r]
        BY <2>1, <3>1 DEF SetCall
      <3>3. /\ call' \in [Callers -> CallRecs] /\ call'[k] = r
            /\ \A j \in Callers : j # k => call'[j] = call[j]
        BY <1>0, <3>2 DEF Typed, Types
      <3>4. obj' \in [Objs -> Convs] /\ \A o \in Objs : o # n => obj'[o] = obj[o]
        BY <1>0, <1>4, <2>1 DEF Typed, Types, Convs
      <3> QED
        BY <3>1, <3>3, <3>4
    <2>2. CASE SetCall(k, CallMoves(l, "find")) /\ UNCHANGED obj
      <3>1. PICK r \in CallRecs : r = CallMoves(l, "find") /\ r.at = "find"
                                  /\ r.obj = None /\ r.u = u /\ r.c = c
        BY <1>5, CallMovesFields DEF CallAts
      <3>2. call' = [call EXCEPT ![k] = r]
        BY <2>2, <3>1 DEF SetCall
      <3>3. /\ call' \in [Callers -> CallRecs] /\ call'[k] = r
            /\ \A j \in Callers : j # k => call'[j] = call[j]
        BY <1>0, <3>2 DEF Typed, Types
      <3> QED
        BY <1>0, <2>2, <3>1, <3>3 DEF Typed, Types
    <2> QED
      BY <1>3, <1>5, <2>1, <2>2
  <1>7. Typed'
    BY <1>0, <1>1, <1>4, <1>6, ZenonT(60) DEF Typed, Types, CalcHas, CallHas, FlushHas
  <1>8. \A o \in Objs, v \in Users, e \in Channels :
          /\ Holds(o, v, e)' => Holds(o, v, e) \/ (o = n /\ v = u /\ e = c)
          /\ Holds(o, v, e) => o # n
    BY <1>1, <1>2, <1>6, ConversationAssumption DEF Holds
  <1> SUFFICES ASSUME Saving' PROVE SaveInv' /\ CountInv'
    BY <1>7 DEF SaveInv, CountInv, ConvInv
  <1>9. Saving /\ OneHome'
    BY <1>0, <1>1, <1>2, <1>4, <1>8, HomeNew DEF Saving, SaveInv
  <1>10. SaveInv'
    <2>1. \A v \in Users, e \in Channels :
            cache[v][e] # None => obj'[cache[v][e]] = obj[cache[v][e]]
      BY <1>0, <1>6, <1>8 DEF Typed, Types, Optional, Holds
    <2>2. \A v \in Users : MarkComing(v) => MarkComing(v)'
      BY <1>1, <1>6 DEF MarkComing
    <2> QED
      BY <1>0, <1>1, <1>9, <2>1, <2>2, SaveQuiet
  <1>11. CountInv'
    <2>1. <<u, c>> \in waived' /\ waived \subseteq waived'
      BY <1>3
    <2>2. CallsWaive'
      BY <1>0, <1>1, <1>6, <1>9, <2>1 DEF CountInv, CallsWaive
    <2>3. \A o \in Objs, v \in Users, e \in Channels :
            Free(v, e)' /\ Holds(o, v, e)' => obj'[o] = obj[o]
      BY <1>6, <1>8, <2>1 DEF Free
    <2> QED
      BY <1>0, <1>1, <1>7, <1>9, <2>1, <2>2, <2>3, CountQuiet
  <1> QED
    BY <1>10, <1>11

\* CallFind copies the cached pointer.
LEMMA FindStep ==
  ASSUME ConvInv, NEW k \in Callers, CallFind(k)
  PROVE  ConvInv'
  <1>0. Typed /\ SaveInv /\ CountInv
    BY DEF ConvInv
  <1>1. /\ UNCHANGED <<queue, pushed, calc, obj, cache, stored, marked, flush, stop, counted,
                       waived, silent, erased>>
        /\ call[k].at = "find" /\ call[k].obj = None /\ loop' = loop
    BY <1>0 DEF CallFind, inbox, data, saver, history, loop, Typed, CallHas
  <1>2. PICK u \in Users, c \in Channels : call[k].u = u /\ call[k].c = c
    BY <1>0, <1>1 DEF Typed, CallHas
  <1>3. PICK o \in Optional(Objs) : o = cache[u][c]
    BY <1>0 DEF Typed, Types
  <1>4. PICK r \in CallRecs :
          /\ r = CallTakes(call[k], IF o = None THEN "fetch" ELSE "write", o)
          /\ r.at = (IF o = None THEN "fetch" ELSE "write") /\ r.obj = o /\ r.u = u /\ r.c = c
    <2>1. call[k] \in CallRecs /\ (IF o = None THEN "fetch" ELSE "write") \in CallAts
      BY <1>0 DEF Typed, Types, CallAts
    <2> QED
      BY <1>2, <2>1, CallTakesFields
  <1>5. /\ call' \in [Callers -> CallRecs] /\ call'[k] = r
        /\ \A j \in Callers : j # k => call'[j] = call[j]
    <2>1. call' = [call EXCEPT ![k] = r]
      BY <1>2, <1>3, <1>4 DEF CallFind, SetCall, CallTakes
    <2> QED
      BY <1>0, <2>1 DEF Typed, Types
  <1>6. Typed'
    BY <1>0, <1>1, <1>4, <1>5, ZenonT(60) DEF Typed, Types, CalcHas, CallHas, FlushHas, Optional
  <1>7. \A p \in Objs, v \in Users, e \in Channels : Holds(p, v, e)' => Holds(p, v, e)
    BY <1>1, <1>2, <1>3, <1>4, <1>5, ConversationAssumption DEF Holds
  <1> SUFFICES ASSUME Saving' PROVE SaveInv' /\ CountInv'
    BY <1>6 DEF SaveInv, CountInv, ConvInv
  <1>8. Saving /\ OneHome'
    BY <1>0, <1>1, <1>7, HomeKept DEF Saving, SaveInv
  <1>9. SaveInv'
    <2>1. \A v \in Users : MarkComing(v) => MarkComing(v)'
      BY <1>1, <1>5 DEF MarkComing
    <2> QED
      BY <1>0, <1>1, <1>8, <2>1, SaveQuiet
  <1>10. CountInv'
    <2>1. CallsWaive'
      BY <1>0, <1>1, <1>2, <1>4, <1>5, <1>8 DEF CountInv, CallsWaive
    <2> QED
      BY <1>0, <1>1, <1>6, <1>8, <2>1, CountQuiet
  <1> QED
    BY <1>9, <1>10

\* CallWrite changes an object of a waived count in place; the mark is coming.
LEMMA WriteStep ==
  ASSUME ConvInv, NEW k \in Callers, CallWrite(k)
  PROVE  ConvInv'
  <1>0. Typed /\ SaveInv /\ CountInv
    BY DEF ConvInv
  <1>1. /\ UNCHANGED <<queue, pushed, calc, cache, stored, marked, flush, stop, counted, waived,
                       silent, erased>>
        /\ call[k].at = "write" /\ loop' = loop
    BY DEF CallWrite, inbox, saver, history, loop
  <1>2. PICK u \in Users, c \in Channels, o \in Objs :
          call[k].u = u /\ call[k].c = c /\ call[k].obj = o
    BY <1>0, <1>1 DEF Typed, CallHas
  <1>3. PICK r \in CallRecs :
          /\ r = CallTakes(call[k], "mark", None)
          /\ r.at = "mark" /\ r.obj = None /\ r.u = u /\ r.c = c
    <2>1. call[k] \in CallRecs /\ "mark" \in CallAts /\ None \in Optional(Objs)
      BY <1>0 DEF Typed, Types, CallAts, Optional
    <2> QED
      BY <1>2, <2>1, CallTakesFields
  <1>4. /\ call' \in [Callers -> CallRecs] /\ call'[k] = r
        /\ \A j \in Callers : j # k => call'[j] = call[j]
    <2>1. call' = [call EXCEPT ![k] = r]
      BY <1>3 DEF CallWrite, SetCall, CallTakes
    <2> QED
      BY <1>0, <2>1 DEF Typed, Types
  <1>5. /\ obj' \in [Objs -> Convs]
        /\ \A p \in Objs : p # o /\ Pointed(p)' => obj'[p] = obj[p]
    <2>1. PICK val \in Convs : val = Changed(obj[o], call[k])
      <3>1. obj[o].seq \in Nat /\ call[k].seq \in Nat /\ call[k].unread \in Nat
        BY <1>0 DEF Typed, Types, Convs, CallRecs
      <3> QED
        BY <3>1, ChangedConv
    <2>2. obj' = [p \in Objs |-> IF Pointed(p)' THEN [obj EXCEPT ![o] = val][p] ELSE Blank]
      BY <1>2, <2>1 DEF CallWrite, Keep
    <2> QED
      BY <1>0, <2>2 DEF Typed, Types, Blank, Convs
  <1>6. Typed'
    BY <1>0, <1>1, <1>3, <1>4, <1>5 DEF Typed, Types, CalcHas, CallHas, FlushHas
  <1>7. \A p \in Objs, v \in Users, e \in Channels :
          /\ Holds(p, v, e)' => Holds(p, v, e)
          /\ Holds(p, v, e)' => p = o \/ obj'[p] = obj[p]
    <2>1. \A p \in Objs, v \in Users, e \in Channels : Holds(p, v, e)' => Holds(p, v, e)
      BY <1>1, <1>3, <1>4, ConversationAssumption DEF Holds
    <2> QED
      BY <1>5, <1>6, <2>1, HeldPointed DEF Typed
  <1> SUFFICES ASSUME Saving' PROVE SaveInv' /\ CountInv'
    BY <1>6 DEF SaveInv, CountInv, ConvInv
  <1>8. Saving /\ OneHome' /\ OneHome
    BY <1>0, <1>1, <1>7, HomeKept DEF Saving, SaveInv
  <1>9. \A p \in Objs, v \in Users, e \in Channels :
          Holds(p, v, e)' => (v = u /\ e = c) \/ obj'[p] = obj[p]
    BY <1>2, <1>7, <1>8 DEF OneHome, Holds
  <1>10. SaveInv'
    <2>1. \A v \in Users : MarkComing(v) => MarkComing(v)'
      BY <1>1, <1>4 DEF MarkComing
    <2>2. MarkComing(u)'
      BY <1>3, <1>4 DEF MarkComing
    <2>3. \A v \in Users, e \in Channels : cache[v][e] # None =>
            v = u \/ obj'[cache[v][e]] = obj[cache[v][e]]
      BY <1>0, <1>1, <1>9 DEF Typed, Types, Optional, Holds
    <2> QED
      BY <1>0, <1>1, <1>8, <2>1, <2>2, <2>3, SaveQuiet
  <1>11. CountInv'
    <2>1. CallsWaive' /\ <<u, c>> \in waived
      BY <1>0, <1>1, <1>2, <1>3, <1>4, <1>8 DEF CountInv, CallsWaive
    <2>2. \A p \in Objs, v \in Users, e \in Channels :
            Free(v, e)' /\ Holds(p, v, e)' => obj'[p] = obj[p]
      BY <1>1, <1>9, <2>1 DEF Free
    <2> QED
      BY <1>0, <1>1, <1>6, <1>8, <2>1, <2>2, CountQuiet
  <1> QED
    BY <1>10, <1>11

\* CallFetch makes an object nobody else has.
LEMMA FetchStep ==
  ASSUME ConvInv, NEW k \in Callers, CallFetch(k)
  PROVE  ConvInv'
  <1>0. Typed /\ SaveInv /\ CountInv
    BY DEF ConvInv
  <1>1. /\ UNCHANGED <<queue, pushed, calc, cache, stored, marked, flush, stop, counted, waived,
                       silent, erased>>
        /\ call[k].at = "fetch" /\ call[k].obj = None /\ loop' = loop
    BY <1>0 DEF CallFetch, inbox, saver, history, loop, Typed, CallHas
  <1>2. PICK u \in Users, c \in Channels : call[k].u = u /\ call[k].c = c
    BY <1>0, <1>1 DEF Typed, CallHas
  <1>3. PICK n \in Objs : n = Fresh /\ \A v \in Users, e \in Channels : ~Holds(n, v, e)
    BY <1>0, FreshExists, HeldPointed DEF Typed
  <1>4. /\ call' \in [Callers -> CallRecs] /\ \A j \in Callers : j # k => call'[j] = call[j]
        /\ obj' \in [Objs -> Convs] /\ \A o \in Objs : o # n => obj'[o] = obj[o]
        /\ \/ call'[k].at = "idle" /\ call'[k].obj = None
           \/ call'[k].at = "put" /\ call'[k].obj = n /\ call'[k].u = u /\ call'[k].c = c
    <2>1. CASE SetCall(k, NoCall) /\ UNCHANGED obj
      BY <1>0, <2>1, Nothing DEF SetCall, Typed, Types
    <2>2. CASE /\ stored[u][c] # None /\ obj' = [obj EXCEPT ![n] = Changed(stored[u][c], call[k])]
               /\ SetCall(k, CallTakes(call[k], "put", n))
      <3>1. PICK val \in Convs : val = Changed(stored[u][c], call[k])
        <4>1. stored[u][c].seq \in Nat /\ call[k].seq \in Nat /\ call[k].unread \in Nat
          BY <1>0, <2>2 DEF Typed, Types, Convs, Kept, CallRecs
        <4> QED
          BY <4>1, ChangedConv
      <3>2. PICK r \in CallRecs : /\ r = CallTakes(call[k], "put", n)
                                  /\ r.at = "put" /\ r.obj = n /\ r.u = u /\ r.c = c
        <4>1. call[k] \in CallRecs /\ "put" \in CallAts /\ n \in Optional(Objs)
          BY <1>0 DEF Typed, Types, CallAts, Optional
        <4> QED
          BY <1>2, <4>1, CallTakesFields
      <3>3. call' = [call EXCEPT ![k] = r] /\ obj' = [obj EXCEPT ![n] = val]
        BY <2>2, <3>1, <3>2 DEF SetCall
      <3>4. /\ call' \in [Callers -> CallRecs] /\ call'[k] = r
            /\ \A j \in Callers : j # k => call'[j] = call[j]
        BY <1>0, <3>3 DEF Typed, Types
      <3>5. obj' \in [Objs -> Convs] /\ \A o \in Objs : o # n => obj'[o] = obj[o]
        BY <1>0, <3>3 DEF Typed, Types
      <3> QED
        BY <3>2, <3>4, <3>5
    <2> QED
      BY <1>2, <1>3, <2>1, <2>2 DEF CallFetch, CallTakes
  <1>5. Typed'
    BY <1>0, <1>1, <1>4, ZenonT(60) DEF Typed, Types, CalcHas, CallHas, FlushHas
  <1>6. \A o \in Objs, v \in Users, e \in Channels :
          /\ Holds(o, v, e)' => Holds(o, v, e) \/ (o = n /\ v = u /\ e = c)
          /\ Holds(o, v, e) => o # n
    BY <1>1, <1>3, <1>4, ConversationAssumption DEF Holds
  <1> SUFFICES ASSUME Saving' PROVE SaveInv' /\ CountInv'
    BY <1>5 DEF SaveInv, CountInv, ConvInv
  <1>7. Saving /\ OneHome'
    BY <1>0, <1>1, <1>3, <1>6, HomeNew DEF Saving, SaveInv
  <1>8. SaveInv'
    <2>1. \A v \in Users, e \in Channels :
            cache[v][e] # None => obj'[cache[v][e]] = obj[cache[v][e]]
      BY <1>0, <1>4, <1>6 DEF Typed, Types, Optional, Holds
    <2>2. \A v \in Users : MarkComing(v) => MarkComing(v)'
      BY <1>1, <1>4 DEF MarkComing
    <2> QED
      BY <1>0, <1>1, <1>7, <2>1, <2>2, SaveQuiet
  <1>9. CountInv'
    <2>1. CallsWaive' /\ <<u, c>> \in waived
      BY <1>0, <1>1, <1>2, <1>4, <1>7 DEF CountInv, CallsWaive
    <2>2. \A o \in Objs, v \in Users, e \in Channels :
            Free(v, e)' /\ Holds(o, v, e)' => obj'[o] = obj[o]
      BY <1>1, <1>4, <1>6, <2>1 DEF Free
    <2> QED
      BY <1>0, <1>1, <1>5, <1>7, <2>1, <2>2, CountQuiet
  <1> QED
    BY <1>8, <1>9

\* CallTake only goes on.
LEMMA TakeCallStep ==
  ASSUME ConvInv, NEW k \in Callers, CallTake(k)
  PROVE  ConvInv'
  <1>0. Typed /\ SaveInv /\ CountInv
    BY DEF ConvInv
  <1>1. /\ UNCHANGED <<queue, pushed, calc, obj, cache, stored, marked, flush, stop, counted,
                       waived, silent, erased>>
        /\ call[k].at = "take" /\ loop' = loop
    BY DEF CallTake, inbox, data, saver, history, loop
  <1>2. PICK r \in CallRecs :
          /\ call' = [call EXCEPT ![k] = r] /\ r.at = "add"
          /\ r.obj = call[k].obj /\ r.u = call[k].u /\ r.c = call[k].c
    <2>1. call[k] \in CallRecs /\ "add" \in CallAts
      BY <1>0 DEF Typed, Types, CallAts
    <2>2. SetCall(k, CallMoves(call[k], "add"))
      BY DEF CallTake, CallMoves
    <2> QED
      BY <2>1, <2>2, CallMovesFields DEF SetCall
  <1>3. /\ call' \in [Callers -> CallRecs] /\ call'[k] = r
        /\ \A j \in Callers : j # k => call'[j] = call[j]
    BY <1>0, <1>2 DEF Typed, Types
  <1>4. Typed'
    BY <1>0, <1>1, <1>2, <1>3, ZenonT(60) DEF Typed, Types, CalcHas, CallHas, FlushHas
  <1>5. \A p \in Objs, v \in Users, e \in Channels : Holds(p, v, e)' => Holds(p, v, e)
    BY <1>1, <1>2, <1>3, ConversationAssumption DEF Holds
  <1> SUFFICES ASSUME Saving' PROVE SaveInv' /\ CountInv'
    BY <1>4 DEF SaveInv, CountInv, ConvInv
  <1>6. Saving /\ OneHome'
    BY <1>0, <1>1, <1>5, HomeKept DEF Saving, SaveInv
  <1>7. SaveInv'
    <2>1. \A v \in Users : MarkComing(v) => MarkComing(v)'
      BY <1>1, <1>3 DEF MarkComing
    <2> QED
      BY <1>0, <1>1, <1>6, <2>1, SaveQuiet
  <1>8. CountInv'
    <2>1. CallsWaive'
      BY <1>0, <1>1, <1>2, <1>3, <1>6 DEF CountInv, CallsWaive
    <2> QED
      BY <1>0, <1>1, <1>4, <1>6, <2>1, CountQuiet
  <1> QED
    BY <1>7, <1>8

\* CallAdd caches the object of a waived count; the mark is coming.
LEMMA AddCallStep ==
  ASSUME ConvInv, NEW k \in Callers, CallAdd(k)
  PROVE  ConvInv'
  <1>0. Typed /\ SaveInv /\ CountInv
    BY DEF ConvInv
  <1>1. /\ UNCHANGED <<queue, pushed, calc, stored, marked, flush, stop, counted, waived, silent, erased>>
        /\ call[k].at \in {"add", "put"} /\ loop' = loop
    BY DEF CallAdd, inbox, saver, history, loop
  <1>2. PICK u \in Users, c \in Channels, o \in Objs :
          call[k].u = u /\ call[k].c = c /\ call[k].obj = o
    BY <1>0, <1>1 DEF Typed, CallHas
  <1>3. PICK r \in CallRecs :
          /\ r = CallDrops(call[k], "mark", None)
          /\ r.at = "mark" /\ r.obj = None /\ r.u = u /\ r.c = c
    <2>1. call[k] \in CallRecs /\ "mark" \in CallAts /\ None \in Optional(Objs)
      BY <1>0 DEF Typed, Types, CallAts, Optional
    <2> QED
      BY <1>2, <2>1, CallDropsFields
  <1>4. /\ call' \in [Callers -> CallRecs] /\ call'[k] = r
        /\ \A j \in Callers : j # k => call'[j] = call[j]
    <2>1. call' = [call EXCEPT ![k] = r]
      BY <1>3 DEF CallAdd, SetCall, CallDrops
    <2> QED
      BY <1>0, <2>1 DEF Typed, Types
  <1>5. /\ cache' \in [Users -> [Channels -> Optional(Objs)]]
        /\ \A v \in Users, e \in Channels :
             cache'[v][e] = cache[v][e] \/ (v = u /\ e = c /\ cache'[v][e] = o)
    <2>1. cache' = cache \/ cache' = [cache EXCEPT ![u][c] = o]
      BY <1>2 DEF CallAdd, CacheAdd
    <2>2. CASE cache' = cache
      BY <1>0, <2>2 DEF Typed, Types
    <2>3. CASE cache' = [cache EXCEPT ![u][c] = o]
      BY <1>0, <2>3 DEF Typed, Types, Optional
    <2> QED
      BY <2>1, <2>2, <2>3
  <1>6. /\ obj' \in [Objs -> Convs]
        /\ \A p \in Objs : Pointed(p)' => obj'[p] = obj[p]
    BY <1>0 DEF CallAdd, Keep, Typed, Types, Blank, Convs
  <1>7. Typed'
    BY <1>0, <1>1, <1>3, <1>4, <1>5, <1>6 DEF Typed, Types, CalcHas, CallHas, FlushHas
  <1>8. \A p \in Objs, v \in Users, e \in Channels :
          /\ Holds(p, v, e)' => Holds(p, v, e)
          /\ Holds(p, v, e)' => obj'[p] = obj[p]
    <2>1. \A p \in Objs, v \in Users, e \in Channels : Holds(p, v, e)' => Holds(p, v, e)
      <3> SUFFICES ASSUME NEW p \in Objs, NEW v \in Users, NEW e \in Channels, Holds(p, v, e)'
                   PROVE  Holds(p, v, e)
        OBVIOUS
      <3>1. CASE cache'[v][e] = p
        BY <1>2, <1>5, <3>1 DEF Holds
      <3>2. CASE cache'[v][e] # p
        BY <1>1, <1>3, <1>4, <3>2, ConversationAssumption DEF Holds
      <3> QED
        BY <3>1, <3>2
    <2> QED
      BY <1>6, <1>7, <2>1, HeldPointed DEF Typed
  <1> SUFFICES ASSUME Saving' PROVE SaveInv' /\ CountInv'
    BY <1>7 DEF SaveInv, CountInv, ConvInv
  <1>9. Saving /\ OneHome'
    BY <1>0, <1>1, <1>8, HomeKept DEF Saving, SaveInv
  <1>10. SaveInv'
    <2>1. \A v \in Users : MarkComing(v) => MarkComing(v)'
      BY <1>1, <1>4 DEF MarkComing
    <2>2. MarkComing(u)'
      BY <1>3, <1>4 DEF MarkComing
    <2>3. \A v \in Users, e \in Channels :
            cache'[v][e] # None => obj'[cache'[v][e]] = obj[cache'[v][e]]
      BY <1>5, <1>8 DEF Optional, Holds
    <2>4. \A v \in Users, e \in Channels : cache'[v][e] # None =>
            \/ MarkComing(v)'
            \/ cache'[v][e] = cache[v][e] /\ obj'[cache[v][e]] = obj[cache[v][e]]
      BY <1>5, <2>2, <2>3
    <2> QED
      BY <1>0, <1>1, <1>9, <2>1, <2>4, SaveQuiet
  <1>11. CountInv'
    <2>1. CallsWaive' /\ <<u, c>> \in waived
      BY <1>0, <1>1, <1>2, <1>3, <1>4, <1>9 DEF CountInv, CallsWaive
    <2>2. \A v \in Users, e \in Channels : Free(v, e)' => cache'[v][e] = cache[v][e]
      BY <1>1, <1>5, <2>1 DEF Free
    <2> QED
      BY <1>0, <1>1, <1>7, <1>8, <1>9, <2>1, <2>2, CountQuiet
  <1> QED
    BY <1>10, <1>11

\* CallDelete begins: from here on nothing is claimed of the user.
LEMMA DeleteStep ==
  ASSUME ConvInv, NEW k \in Callers, CallDelete(k)
  PROVE  ConvInv'
  <1>0. Typed /\ SaveInv /\ CountInv
    BY DEF ConvInv
  <1>1. /\ UNCHANGED <<queue, pushed, calc, obj, cache, stored, marked, flush, stop, counted,
                       silent>>
        /\ call[k].at = "idle" /\ call[k].obj = None /\ loop' = loop
    BY <1>0 DEF CallDelete, inbox, data, saver, loop, Typed, CallHas
  <1>2. PICK c \in Channels, u \in Users :
          /\ SetCall(k, CallErases(NoCall, "remove", u, c))
          /\ waived' = waived \cup {<<u, c>>} /\ erased' = erased \cup {u}
    BY ConversationAssumption DEF CallDelete, CallErases
  <1>3. PICK r \in CallRecs :
          /\ r = CallErases(NoCall, "remove", u, c)
          /\ r.at = "remove" /\ r.obj = None /\ r.u = u /\ r.c = c
    <2>1. "remove" \in CallAts /\ u \in Optional(Users) /\ c \in Optional(Channels)
      BY DEF CallAts, Optional
    <2> QED
      BY <2>1, Nothing, CallErasesFields
  <1>4. /\ call' \in [Callers -> CallRecs] /\ call'[k] = r
        /\ \A j \in Callers : j # k => call'[j] = call[j]
    <2>1. call' = [call EXCEPT ![k] = r]
      BY <1>2, <1>3 DEF SetCall
    <2> QED
      BY <1>0, <2>1 DEF Typed, Types
  <1>5. Typed'
    BY <1>0, <1>1, <1>2, <1>3, <1>4 DEF Typed, Types, CalcHas, CallHas, FlushHas
  <1>6. \A p \in Objs, v \in Users, e \in Channels : Holds(p, v, e)' => Holds(p, v, e)
    BY <1>1, <1>3, <1>4, ConversationAssumption DEF Holds
  <1> SUFFICES ASSUME Saving' PROVE SaveInv' /\ CountInv'
    BY <1>5 DEF SaveInv, CountInv, ConvInv
  <1>7. Saving /\ OneHome'
    BY <1>0, <1>1, <1>6, HomeKept DEF Saving, SaveInv
  <1>8. SaveInv'
    <2>1. \A v \in Users : MarkComing(v) => MarkComing(v)'
      BY <1>1, <1>4 DEF MarkComing
    <2> QED
      BY <1>0, <1>1, <1>2, <1>7, <2>1, SaveQuiet
  <1>9. CountInv'
    <2>1. CallsWaive'
      BY <1>0, <1>1, <1>2, <1>3, <1>4, <1>7 DEF CountInv, CallsWaive
    <2> QED
      BY <1>0, <1>1, <1>2, <1>5, <1>7, <2>1, CountQuiet
  <1> QED
    BY <1>8, <1>9

\* CallRemove drops a cached pointer.
LEMMA RemoveStep ==
  ASSUME ConvInv, NEW k \in Callers, CallRemove(k)
  PROVE  ConvInv'
  <1>0. Typed /\ SaveInv /\ CountInv
    BY DEF ConvInv
  <1>1. /\ UNCHANGED <<queue, pushed, calc, stored, marked, flush, stop, counted, waived, silent, erased>>
        /\ call[k].at = "remove" /\ call[k].obj = None /\ loop' = loop
    BY <1>0 DEF CallRemove, inbox, saver, history, loop, Typed, CallHas
  <1>2. PICK u \in Users, c \in Channels : call[k].u = u /\ call[k].c = c
    BY <1>0, <1>1 DEF Typed, CallHas
  <1>3. PICK r \in CallRecs :
          /\ r = CallMoves(call[k], "delRead")
          /\ r.at = "delRead" /\ r.obj = None /\ r.u = u /\ r.c = c
    <2>1. call[k] \in CallRecs /\ "delRead" \in CallAts
      BY <1>0 DEF Typed, Types, CallAts
    <2> QED
      BY <1>1, <1>2, <2>1, CallMovesFields
  <1>4. /\ call' \in [Callers -> CallRecs] /\ call'[k] = r
        /\ \A j \in Callers : j # k => call'[j] = call[j]
    <2>1. call' = [call EXCEPT ![k] = r]
      BY <1>3 DEF CallRemove, SetCall, CallMoves
    <2> QED
      BY <1>0, <2>1 DEF Typed, Types
  <1>5. /\ cache' \in [Users -> [Channels -> Optional(Objs)]]
        /\ \A v \in Users, e \in Channels :
             cache'[v][e] = IF v = u /\ e = c THEN None ELSE cache[v][e]
    BY <1>0, <1>2 DEF CallRemove, Typed, Types, Optional
  <1>6. /\ obj' \in [Objs -> Convs]
        /\ \A p \in Objs : Pointed(p)' => obj'[p] = obj[p]
    BY <1>0 DEF CallRemove, Keep, Typed, Types, Blank, Convs
  <1>7. Typed'
    BY <1>0, <1>1, <1>2, <1>3, <1>4, <1>5, <1>6, ZenonT(60) DEF Typed, Types, CalcHas, CallHas, FlushHas
  <1>8. \A p \in Objs, v \in Users, e \in Channels :
          /\ Holds(p, v, e)' => Holds(p, v, e)
          /\ Holds(p, v, e)' => obj'[p] = obj[p]
    <2>1. \A p \in Objs, v \in Users, e \in Channels : Holds(p, v, e)' => Holds(p, v, e)
      BY <1>1, <1>2, <1>3, <1>4, <1>5, ConversationAssumption DEF Holds
    <2> QED
      BY <1>6, <1>7, <2>1, HeldPointed DEF Typed
  <1> SUFFICES ASSUME Saving' PROVE SaveInv' /\ CountInv'
    BY <1>7 DEF SaveInv, CountInv, ConvInv
  <1>9. Saving /\ OneHome'
    BY <1>0, <1>1, <1>8, HomeKept DEF Saving, SaveInv
  <1>10. SaveInv'
    <2>1. \A v \in Users : MarkComing(v) => MarkComing(v)'
      BY <1>1, <1>4 DEF MarkComing
    <2>2. \A v \in Users, e \in Channels : cache'[v][e] # None =>
            cache'[v][e] = cache[v][e] /\ obj'[cache[v][e]] = obj[cache[v][e]]
      BY <1>5, <1>8 DEF Optional, Holds
    <2> QED
      BY <1>0, <1>1, <1>9, <2>1, <2>2, SaveQuiet
  <1>11. CountInv'
    <2>1. CallsWaive' /\ <<u, c>> \in waived
      BY <1>0, <1>1, <1>2, <1>3, <1>4, <1>9 DEF CountInv, CallsWaive
    <2>2. \A v \in Users, e \in Channels : Free(v, e)' => cache'[v][e] = cache[v][e]
      BY <1>1, <1>5, <2>1 DEF Free
    <2> QED
      BY <1>0, <1>1, <1>7, <1>8, <1>9, <2>1, <2>2, CountQuiet
  <1> QED
    BY <1>10, <1>11

\* CallDelRead copies what is stored.
LEMMA DelReadStep ==
  ASSUME ConvInv, NEW k \in Callers, CallDelRead(k)
  PROVE  ConvInv'
  <1>0. Typed /\ SaveInv /\ CountInv
    BY DEF ConvInv
  <1>1. /\ UNCHANGED <<queue, pushed, calc, obj, cache, stored, marked, flush, stop, counted,
                       waived, silent, erased>>
        /\ call[k].at = "delRead" /\ call[k].obj = None /\ loop' = loop
    BY <1>0 DEF CallDelRead, inbox, data, saver, history, loop, Typed, CallHas
  <1>2. PICK u \in Users, c \in Channels : call[k].u = u /\ call[k].c = c
    BY <1>0, <1>1 DEF Typed, CallHas
  <1>3. PICK s \in [Channels -> Kept] : s = stored[u]
    BY <1>0 DEF Typed, Types
  <1>4. PICK r \in CallRecs :
          /\ call' = [call EXCEPT ![k] = r] /\ r.obj = None
          /\ r.at = "idle" \/ (r.at = "delWrite" /\ r.u = u /\ r.c = c /\ r.read = s)
    <2>1. CASE SetCall(k, NoCall)
      BY <2>1, Nothing DEF SetCall
    <2>2. CASE SetCall(k, CallReads(call[k], "delWrite", s))
      <3>1. call[k] \in CallRecs /\ "delWrite" \in CallAts /\ s \in Optional([Channels -> Kept])
        BY <1>0 DEF Typed, Types, CallAts, Optional
      <3> QED
        BY <1>1, <1>2, <2>2, <3>1, CallReadsFields DEF SetCall
    <2> QED
      BY <1>2, <1>3, <2>1, <2>2 DEF CallDelRead, CallReads
  <1>5. /\ call' \in [Callers -> CallRecs] /\ call'[k] = r
        /\ \A j \in Callers : j # k => call'[j] = call[j]
    BY <1>0, <1>4 DEF Typed, Types
  <1>6. Typed'
    BY <1>0, <1>1, <1>2, <1>4, <1>5 DEF Typed, Types, CalcHas, CallHas, FlushHas
  <1>7. \A p \in Objs, v \in Users, e \in Channels : Holds(p, v, e)' => Holds(p, v, e)
    BY <1>1, <1>4, <1>5, ConversationAssumption DEF Holds
  <1> SUFFICES ASSUME Saving' PROVE SaveInv' /\ CountInv'
    BY <1>6 DEF SaveInv, CountInv, ConvInv
  <1>8. Saving /\ OneHome'
    BY <1>0, <1>1, <1>7, HomeKept DEF Saving, SaveInv
  <1>9. SaveInv'
    <2>1. \A v \in Users : MarkComing(v) => MarkComing(v)'
      BY <1>1, <1>5 DEF MarkComing
    <2> QED
      BY <1>0, <1>1, <1>8, <2>1, SaveQuiet
  <1>10. CountInv'
    <2>1. CallsWaive'
      BY <1>0, <1>1, <1>2, <1>4, <1>5, <1>8 DEF CountInv, CallsWaive
    <2> QED
      BY <1>0, <1>1, <1>6, <1>8, <2>1, CountQuiet
  <1> QED
    BY <1>9, <1>10

\* CallDelWrite changes what is stored of a user with a deletion only.
LEMMA DelWriteStep ==
  ASSUME ConvInv, NEW k \in Callers, CallDelWrite(k)
  PROVE  ConvInv'
  <1>0. Typed /\ SaveInv /\ CountInv
    BY DEF ConvInv
  <1>1. /\ UNCHANGED <<queue, pushed, calc, obj, cache, marked, flush, stop, counted, waived,
                       silent, erased>>
        /\ call[k].at = "delWrite" /\ call[k].obj = None /\ loop' = loop
    BY <1>0 DEF CallDelWrite, inbox, saver, history, loop, Typed, CallHas
  <1>2. PICK u \in Users, c \in Channels, s \in [Channels -> Kept] :
          call[k].u = u /\ call[k].c = c /\ call[k].read = s /\ u \in erased
    BY <1>0, <1>1 DEF Typed, CallHas
  <1>3. /\ call' \in [Callers -> CallRecs] /\ call'[k].at = "idle" /\ call'[k].obj = None
        /\ \A j \in Callers : j # k => call'[j] = call[j]
    BY <1>0, Nothing DEF CallDelWrite, SetCall, Typed, Types
  <1>4. /\ stored' \in [Users -> [Channels -> Kept]]
        /\ \A v \in Users : v # u => stored'[v] = stored[v]
    <2>1. stored' = stored \/ stored' = [stored EXCEPT ![u] = [s EXCEPT ![c] = None]]
      BY <1>2 DEF CallDelWrite
    <2>2. [s EXCEPT ![c] = None] \in [Channels -> Kept]
      BY DEF Kept
    <2> QED
      BY <1>0, <2>1, <2>2 DEF Typed, Types
  <1>5. Typed'
    BY <1>0, <1>1, <1>3, <1>4 DEF Typed, Types, CalcHas, CallHas, FlushHas
  <1>6. \A p \in Objs, v \in Users, e \in Channels : Holds(p, v, e)' => Holds(p, v, e)
    BY <1>1, <1>3, ConversationAssumption DEF Holds
  <1>7. \A v \in Users : v \notin erased' => stored'[v] = stored[v]
    BY <1>1, <1>2, <1>4
  <1> SUFFICES ASSUME Saving' PROVE SaveInv' /\ CountInv'
    BY <1>5 DEF SaveInv, CountInv, ConvInv
  <1>8. Saving /\ OneHome'
    BY <1>0, <1>1, <1>6, HomeKept DEF Saving, SaveInv
  <1>9. SaveInv'
    <2>1. \A v \in Users : MarkComing(v) => MarkComing(v)'
      BY <1>1, <1>3 DEF MarkComing
    <2> QED
      BY <1>0, <1>1, <1>7, <1>8, <2>1, SaveQuiet
  <1>10. CountInv'
    <2>1. CallsWaive'
      BY <1>0, <1>1, <1>3, <1>8 DEF CountInv, CallsWaive
    <2> QED
      BY <1>0, <1>1, <1>5, <1>7, <1>8, <2>1, CountQuiet
  <1> QED
    BY <1>9, <1>10

\* The local variables of a call that synchronises.
CallSyncs(l, u, c, o) == [l EXCEPT !.at = "sync", !.u = u, !.c = c, !.obj = o]

\* Its fields.
LEMMA CallSyncsFields ==
  ASSUME NEW l \in CallRecs, NEW u \in Optional(Users), NEW c \in Optional(Channels),
         NEW o \in Optional(Objs)
  PROVE  /\ CallSyncs(l, u, c, o) \in CallRecs
         /\ CallSyncs(l, u, c, o).at = "sync"
         /\ CallSyncs(l, u, c, o).u = u
         /\ CallSyncs(l, u, c, o).c = c
         /\ CallSyncs(l, u, c, o).obj = o
  <1>1. CallSyncs(l, u, c, o) \in CallRecs
    BY DEF CallSyncs, CallRecs, CallAts
  <1>2. CallSyncs(l, u, c, o).at = "sync"
    BY DEF CallSyncs, CallRecs
  <1>3. CallSyncs(l, u, c, o).u = u
    BY DEF CallSyncs, CallRecs
  <1>4. CallSyncs(l, u, c, o).c = c
    BY DEF CallSyncs, CallRecs
  <1>5. CallSyncs(l, u, c, o).obj = o
    BY DEF CallSyncs, CallRecs
  <1> QED
    BY <1>1, <1>2, <1>3, <1>4, <1>5

\* CallSync waives the count and copies the cached pointer.
LEMMA SyncStep ==
  ASSUME ConvInv, NEW k \in Callers, CallSync(k)
  PROVE  ConvInv'
  <1>0. Typed /\ SaveInv /\ CountInv
    BY DEF ConvInv
  <1>1. /\ UNCHANGED <<queue, pushed, calc, obj, cache, stored, marked, flush, stop, counted,
                       silent, erased>>
        /\ call[k].at = "idle" /\ loop' = loop
    BY DEF CallSync, inbox, data, saver, loop
  <1>2. PICK c \in Channels, u \in Users :
          /\ cache[u][c] # None
          /\ SetCall(k, CallSyncs(NoCall, u, c, cache[u][c]))
          /\ waived' = waived \cup {<<u, c>>}
    BY ConversationAssumption DEF CallSync, CallSyncs
  <1>3. PICK o \in Objs : o = cache[u][c]
    BY <1>0, <1>2 DEF Typed, Types, Optional
  <1>4. PICK r \in CallRecs :
          /\ r = CallSyncs(NoCall, u, c, o)
          /\ r.at = "sync" /\ r.obj = o /\ r.u = u /\ r.c = c
    <2>1. u \in Optional(Users) /\ c \in Optional(Channels) /\ o \in Optional(Objs)
      BY DEF Optional
    <2> QED
      BY <2>1, Nothing, CallSyncsFields
  <1>5. /\ call' \in [Callers -> CallRecs] /\ call'[k] = r
        /\ \A j \in Callers : j # k => call'[j] = call[j]
    <2>1. call' = [call EXCEPT ![k] = r]
      BY <1>2, <1>3, <1>4 DEF SetCall
    <2> QED
      BY <1>0, <2>1 DEF Typed, Types
  <1>6. Typed'
    BY <1>0, <1>1, <1>4, <1>5, ZenonT(60) DEF Typed, Types, CalcHas, CallHas, FlushHas
  <1>7. \A p \in Objs, v \in Users, e \in Channels : Holds(p, v, e)' => Holds(p, v, e)
    BY <1>1, <1>3, <1>4, <1>5 DEF Holds
  <1> SUFFICES ASSUME Saving' PROVE SaveInv' /\ CountInv'
    BY <1>6 DEF SaveInv, CountInv, ConvInv
  <1>8. Saving /\ OneHome'
    BY <1>0, <1>1, <1>7, HomeKept DEF Saving, SaveInv
  <1>9. SaveInv'
    <2>1. \A v \in Users : MarkComing(v) => MarkComing(v)'
      BY <1>1, <1>5 DEF MarkComing
    <2> QED
      BY <1>0, <1>1, <1>8, <2>1, SaveQuiet
  <1>10. CountInv'
    <2>1. CallsWaive'
      BY <1>0, <1>1, <1>2, <1>4, <1>5, <1>8 DEF CountInv, CallsWaive
    <2> QED
      BY <1>0, <1>1, <1>2, <1>6, <1>8, <2>1, CountQuiet DEF Free
  <1> QED
    BY <1>9, <1>10

\* CallSyncWrite changes an object of a waived count in place, and says so.
LEMMA SyncWriteStep ==
  ASSUME ConvInv, NEW k \in Callers, CallSyncWrite(k)
  PROVE  ConvInv'
  <1>0. Typed /\ SaveInv /\ CountInv
    BY DEF ConvInv
  <1>1. /\ UNCHANGED <<queue, pushed, calc, cache, stored, marked, flush, stop, counted, waived,
                       erased>>
        /\ call[k].at = "sync" /\ loop' = loop /\ call' = [call EXCEPT ![k] = NoCall]
    BY DEF CallSyncWrite, inbox, saver, loop, SetCall
  <1>2. PICK u \in Users, c \in Channels, o \in Objs :
          call[k].u = u /\ call[k].c = c /\ call[k].obj = o
    BY <1>0, <1>1 DEF Typed, CallHas
  <1>3. /\ call' \in [Callers -> CallRecs] /\ call'[k] = NoCall
        /\ \A j \in Callers : j # k => call'[j] = call[j]
    BY <1>0, <1>1, Nothing DEF Typed, Types
  <1>4. /\ obj' \in [Objs -> Convs]
        /\ \A p \in Objs : p # o /\ Pointed(p)' => obj'[p] = obj[p]
        /\ \/ silent' = silent \cup {<<u, c>>}
           \/ silent' = silent /\ \A p \in Objs : Pointed(p)' => obj'[p] = obj[p]
    <2>1. CASE /\ silent' = silent \cup {<<u, c>>}
               /\ \E q \in 1 .. MaxMessages : Keep([obj EXCEPT ![o] = [unread |-> 0, seq |-> q]])
      <3>1. PICK val \in Convs : Keep([obj EXCEPT ![o] = val])
        <4>1. \A q \in 1 .. MaxMessages : [unread |-> 0, seq |-> q] \in Convs
          BY ConversationAssumption DEF Convs
        <4> QED
          BY <2>1, <4>1
      <3>2. obj' = [p \in Objs |-> IF Pointed(p)' THEN [obj EXCEPT ![o] = val][p] ELSE Blank]
        BY <3>1 DEF Keep
      <3> QED
        BY <1>0, <2>1, <3>2 DEF Typed, Types, Blank, Convs
    <2>2. CASE silent' = silent /\ Keep(obj)
      BY <1>0, <2>2 DEF Keep, Typed, Types, Blank, Convs
    <2> QED
      BY <1>2, <2>1, <2>2 DEF CallSyncWrite
  <1>5. Typed'
    BY <1>0, <1>1, <1>3, <1>4, Nothing DEF Typed, Types, CalcHas, CallHas, FlushHas
  <1>6. \A p \in Objs, v \in Users, e \in Channels :
          /\ Holds(p, v, e)' => Holds(p, v, e)
          /\ Holds(p, v, e)' => Pointed(p)'
    <2>1. \A p \in Objs, v \in Users, e \in Channels : Holds(p, v, e)' => Holds(p, v, e)
      BY <1>1, <1>3, Nothing, ConversationAssumption DEF Holds
    <2> QED
      BY <1>5, <2>1, HeldPointed DEF Typed
  <1> SUFFICES ASSUME Saving' PROVE SaveInv' /\ CountInv'
    BY <1>5 DEF SaveInv, CountInv, ConvInv
  <1>7. Saving /\ OneHome' /\ OneHome
    BY <1>0, <1>1, <1>6, HomeKept DEF Saving, SaveInv
  <1>8. \A p \in Objs, v \in Users, e \in Channels :
          Holds(p, v, e)' => (v = u /\ e = c) \/ obj'[p] = obj[p]
    BY <1>2, <1>4, <1>6, <1>7 DEF OneHome, Holds
  <1>9. SaveInv'
    <2>1. \A v \in Users : MarkComing(v) => MarkComing(v)'
      BY <1>1, <1>3 DEF MarkComing
    <2>2. \A v \in Users, e \in Channels : cache[v][e] # None =>
            cache[v][e] \in Objs /\ Holds(cache[v][e], v, e)'
      BY <1>0, <1>1 DEF Typed, Types, Optional, Holds
    <2>3. \A v \in Users, e \in Channels : cache[v][e] # None =>
            obj'[cache[v][e]] = obj[cache[v][e]] \/ <<v, e>> \in silent'
      <3> SUFFICES ASSUME NEW v \in Users, NEW e \in Channels, cache[v][e] # None
                   PROVE  obj'[cache[v][e]] = obj[cache[v][e]] \/ <<v, e>> \in silent'
        OBVIOUS
      <3>1. PICK p \in Objs : p = cache[v][e]
        BY <2>2
      <3>0. Holds(p, v, e)'
        BY <1>1, <3>1 DEF Holds
      <3>2. CASE silent' = silent \cup {<<u, c>>}
        BY <1>8, <3>0, <3>1, <3>2
      <3>3. CASE \A x \in Objs : Pointed(x)' => obj'[x] = obj[x]
        <4>1. Pointed(p)'
          BY <1>6, <3>0
        <4> QED
          BY <3>1, <3>3, <4>1
      <3> QED
        BY <1>4, <3>2, <3>3
    <2>4. silent \subseteq silent'
      BY <1>4
    <2> QED
      BY <1>0, <1>1, <1>7, <2>1, <2>3, <2>4, SaveQuiet
  <1>10. CountInv'
    <2>1. CallsWaive' /\ <<u, c>> \in waived
      BY <1>0, <1>1, <1>2, <1>3, <1>7, Nothing DEF CountInv, CallsWaive
    <2>2. \A p \in Objs, v \in Users, e \in Channels :
            Free(v, e)' /\ Holds(p, v, e)' => obj'[p] = obj[p]
      BY <1>1, <1>8, <2>1 DEF Free
    <2> QED
      BY <1>0, <1>1, <1>5, <1>7, <2>1, <2>2, CountQuiet
  <1> QED
    BY <1>9, <1>10

-----------------------------------------------------------------------------
(* Marks, and flushes that begin.                                          *)

\* The state of a flush that has users m to save.
Begun(m) == [NoFlush EXCEPT !.at = "next", !.todo = m]

\* Its fields.
LEMMA BegunFields ==
  ASSUME NEW m \in SUBSET Users
  PROVE  Begun(m) \in FlushRecs /\ Begun(m).at = "next" /\ Begun(m).todo = m /\ Begun(m).snap = None
  <1>1. Begun(m) \in FlushRecs
    BY Nothing DEF Begun, FlushRecs
  <1>2. Begun(m).at = "next" /\ Begun(m).todo = m /\ Begun(m).snap = None
    BY Nothing DEF Begun, FlushRecs
  <1> QED
    BY <1>1, <1>2

\* A flush begins with the marked users, and with no pointers.
LEMMA FlushBegins ==
  ASSUME Typed, NEW f \in Flushers, marked' \subseteq Users, Flushing(f)
  PROVE  /\ flush' \in [Flushers -> FlushRecs]
         /\ \A g \in Flushers : g # f => flush'[g] = flush[g]
         /\ flush'[f].at \in {"off", "next"} /\ flush'[f].snap = None
         /\ flush'[f].todo \subseteq marked'
  <1>1. PICK r \in FlushRecs :
          /\ r = IF marked' = {} THEN NoFlush ELSE [NoFlush EXCEPT !.at = "next", !.todo = marked']
          /\ r.at \in {"off", "next"} /\ r.snap = None /\ r.todo \subseteq marked'
    <2>1. CASE marked' = {}
      BY <2>1, Nothing
    <2>2. CASE marked' # {}
      <3>1. PICK m \in SUBSET Users : m = marked'
        OBVIOUS
      <3> QED
        BY <2>2, <3>1, BegunFields DEF Begun
    <2> QED
      BY <2>1, <2>2
  <1>2. flush' = [flush EXCEPT ![f] = r]
    BY <1>1 DEF Flushing
  <1> QED
    BY <1>1, <1>2 DEF Typed, Types

\* saveloop is in its select before such a step, and at most begins a flush.
LEMMA SelectStep ==
  ASSUME Typed, Selecting, marked' \subseteq Users,
         Flushing("saveloop") \/ UNCHANGED flush
  PROVE  /\ flush' \in [Flushers -> FlushRecs] /\ flush'["Stop"] = flush["Stop"]
         /\ loop'.at \in {"off", "next"} /\ loop'.snap = None
         /\ loop'.todo \subseteq loop.todo \cup marked'
  <1>1. CASE Flushing("saveloop")
    BY <1>1, FlushBegins DEF Flushers, loop
  <1>2. CASE UNCHANGED flush
    BY <1>2 DEF Selecting, Typed, Types, FlushHas, Flushers, loop
  <1> QED
    BY <1>1, <1>2

\* Steps of saveloop after which it has no pointers: nobody loses a mark that
\* was coming.
LEMMA MarkQuiet ==
  ASSUME Typed, SaveInv, Saving' => Saving, Saving' => OneHome',
         UNCHANGED <<stored, erased>>, marked \subseteq marked',
         \A u \in Users, c \in Channels :
            <<u, c>> \in silent => <<u, c>> \in silent' \/ u \in marked',
         \A u \in Users, c \in Channels :
            cache'[u][c] # None =>
               cache'[u][c] = cache[u][c] /\ obj'[cache[u][c]] = obj[cache[u][c]],
         flush'["Stop"] = flush["Stop"], loop'.at \in {"off", "next"},
         loop'.todo \subseteq loop.todo \cup marked',
         \A u \in Users : MarkComing(u) => MarkComing(u)' \/ u \in marked'
  PROVE  SaveInv'
  <1> SUFFICES ASSUME Saving'
               PROVE  /\ flush'["Stop"].at = "off"
                      /\ Todo' /\ AddedSince' /\ ChangedSince' /\ UnsavedMarked'
    BY DEF SaveInv
  <1>1. flush["Stop"].at = "off" /\ Todo /\ UnsavedMarked /\ Saving
    BY DEF SaveInv
  <1>2. Todo' /\ AddedSince' /\ ChangedSince'
    BY <1>1 DEF Todo, AddedSince, ChangedSince
  <1>3. UnsavedMarked'
    BY <1>1 DEF UnsavedMarked, Unsaved
  <1> QED
    BY <1>1, <1>2, <1>3

\* CallMark marks the user of the call,
LEMMA CallMarkStep ==
  ASSUME ConvInv, NEW k \in Callers, CallMark(k)
  PROVE  ConvInv'
  <1>0. Typed /\ SaveInv /\ CountInv
    BY DEF ConvInv
  <1>1. /\ UNCHANGED <<queue, pushed, calc, obj, cache, stored, stop, counted, waived, erased>>
        /\ call[k].at = "mark" /\ call[k].obj = None
    BY <1>0 DEF CallMark, inbox, data, history, Typed, CallHas
  <1>2. PICK u \in Users : call[k].u = u
    BY <1>0, <1>1 DEF Typed, CallHas
  <1>3. /\ call' \in [Callers -> CallRecs] /\ call'[k].at = "idle" /\ call'[k].obj = None
        /\ \A j \in Callers : j # k => call'[j] = call[j]
    BY <1>0, Nothing DEF CallMark, SetCall, Typed, Types
  <1>4. /\ Selecting /\ marked' = marked \cup {u} /\ (Flushing("saveloop") \/ UNCHANGED flush)
        /\ \A v \in Users, c \in Channels : <<v, c>> \in silent => <<v, c>> \in silent' \/ v = u
    BY <1>2 DEF CallMark, Receive, Count
  <1>5. marked' \subseteq Users
    BY <1>0, <1>4 DEF Typed, Types
  <1>6. /\ flush' \in [Flushers -> FlushRecs] /\ flush'["Stop"] = flush["Stop"]
        /\ loop'.at \in {"off", "next"} /\ loop'.snap = None
        /\ loop'.todo \subseteq loop.todo \cup marked'
    BY <1>0, <1>4, <1>5, SelectStep
  <1>7. Typed'
    BY <1>0, <1>1, <1>3, <1>5, <1>6 DEF Typed, Types, CalcHas, CallHas, FlushHas, Flushers, loop
  <1>8. \A p \in Objs, v \in Users, e \in Channels : Holds(p, v, e)' => Holds(p, v, e)
    BY <1>1, <1>3, <1>6, ConversationAssumption DEF Holds
  <1>9. Saving' => Saving /\ OneHome'
    BY <1>0, <1>1, <1>8, HomeKept DEF Saving, SaveInv
  <1>10. SaveInv'
    <2>1. \A v \in Users : MarkComing(v) => MarkComing(v)' \/ v \in marked'
      BY <1>1, <1>2, <1>3, <1>4 DEF MarkComing
    <2>2. \A v \in Users, c \in Channels :
            <<v, c>> \in silent => <<v, c>> \in silent' \/ v \in marked'
      BY <1>4
    <2> QED
      BY <1>0, <1>1, <1>4, <1>6, <1>9, <2>1, <2>2, MarkQuiet
  <1>11. CountInv'
    <2> SUFFICES ASSUME Saving' PROVE CountInv'
      BY DEF CountInv
    <2>1. CallsWaive'
      BY <1>0, <1>1, <1>3, <1>9 DEF CountInv, CallsWaive
    <2> QED
      BY <1>0, <1>1, <1>6, <1>7, <1>9, <2>1, CountQuiet
  <1> QED
    BY <1>7, <1>10, <1>11 DEF ConvInv

\* and CalcMark the one calcLoop is at.
LEMMA CalcMarkStep ==
  ASSUME ConvInv, CalcMark
  PROVE  ConvInv'
  <1>0. Typed /\ SaveInv /\ CountInv
    BY DEF ConvInv
  <1>1. /\ UNCHANGED <<queue, pushed, call, obj, cache, stored, stop, counted, waived, erased>>
        /\ calc.at = "mark"
    BY DEF CalcMark, inbox, calling, data, history
  <1>2. PICK u \in Users : calc.u = u
    BY <1>0, <1>1 DEF Typed, CalcHas
  <1>3. /\ calc' \in CalcRecs /\ calc'.at \in {"pop", "lookup"} /\ calc'.u = None /\ calc'.obj = None
        /\ ~calc'.lost
        /\ calc'.at # "pop" => calc'.msg \in Messages
    BY <1>0, <1>1, NextSub DEF CalcMark
  <1>4. /\ Selecting /\ marked' = marked \cup {u} /\ (Flushing("saveloop") \/ UNCHANGED flush)
        /\ \A v \in Users, c \in Channels : <<v, c>> \in silent => <<v, c>> \in silent' \/ v = u
    BY <1>2 DEF CalcMark, Receive, Count
  <1>5. marked' \subseteq Users
    BY <1>0, <1>4 DEF Typed, Types
  <1>6. /\ flush' \in [Flushers -> FlushRecs] /\ flush'["Stop"] = flush["Stop"]
        /\ loop'.at \in {"off", "next"} /\ loop'.snap = None
        /\ loop'.todo \subseteq loop.todo \cup marked'
    BY <1>0, <1>4, <1>5, SelectStep
  <1>7. Typed'
    BY <1>0, <1>1, <1>3, <1>5, <1>6 DEF Typed, Types, CalcHas, CallHas, FlushHas, Flushers, loop
  <1>8. \A p \in Objs, v \in Users, e \in Channels : Holds(p, v, e)' => Holds(p, v, e)
    BY <1>1, <1>3, <1>6, ConversationAssumption DEF Holds
  <1>9. Saving' => Saving /\ OneHome'
    BY <1>0, <1>1, <1>8, HomeKept DEF Saving, SaveInv
  <1>10. SaveInv'
    <2>1. \A v \in Users : MarkComing(v) => MarkComing(v)' \/ v \in marked'
      BY <1>1, <1>2, <1>4 DEF MarkComing
    <2>2. \A v \in Users, c \in Channels :
            <<v, c>> \in silent => <<v, c>> \in silent' \/ v \in marked'
      BY <1>4
    <2> QED
      BY <1>0, <1>1, <1>4, <1>6, <1>9, <2>1, <2>2, MarkQuiet
  <1>11. CountInv'
    <2> SUFFICES ASSUME Saving'
                 PROVE  /\ CallsWaive' /\ CalcReads' /\ OldStored' /\ SnapCounted' /\ CalcAbove'
                        /\ CountKept'
      BY DEF CountInv
    <2>1. CallsWaive /\ CountKept /\ Saving
      BY <1>0, <1>9 DEF CountInv
    <2>2. CallsWaive'
      BY <1>1, <1>3, <2>1 DEF CallsWaive
    <2>3. CalcReads' /\ CalcAbove'
      BY <1>3 DEF CalcReads, CalcAbove
    <2>4. OldStored' /\ SnapCounted'
      BY <1>6 DEF OldStored, SnapCounted
    <2>5. CountKept'
      BY <1>1, <2>1 DEF CountKept, Unread
    <2> QED
      BY <2>2, <2>3, <2>4, <2>5
  <1> QED
    BY <1>7, <1>10, <1>11 DEF ConvInv

\* OtherMark and Tick.
LEMMA SelectQuiet ==
  ASSUME ConvInv, OtherMark \/ Tick
  PROVE  ConvInv'
  <1>0. Typed /\ SaveInv /\ CountInv
    BY DEF ConvInv
  <1>1. /\ UNCHANGED <<queue, pushed, calc, call, obj, cache, stored, marked, stop, counted,
                       waived, silent, erased>>
        /\ Selecting /\ (Flushing("saveloop") \/ UNCHANGED flush)
    BY DEF OtherMark, Count, Tick, TickAt, inbox, calling, data, history
  <1>2. marked' \subseteq Users
    BY <1>0, <1>1 DEF Typed, Types
  <1>3. /\ flush' \in [Flushers -> FlushRecs] /\ flush'["Stop"] = flush["Stop"]
        /\ loop'.at \in {"off", "next"} /\ loop'.snap = None
        /\ loop'.todo \subseteq loop.todo \cup marked'
    BY <1>0, <1>1, <1>2, SelectStep
  <1>4. Typed'
    BY <1>0, <1>1, <1>3 DEF Typed, Types, CalcHas, CallHas, FlushHas, Flushers, loop
  <1>5. \A p \in Objs, v \in Users, e \in Channels : Holds(p, v, e)' => Holds(p, v, e)
    BY <1>1, <1>3, ConversationAssumption DEF Holds
  <1>6. Saving' => Saving /\ OneHome'
    BY <1>0, <1>1, <1>5, HomeKept DEF Saving, SaveInv
  <1>7. SaveInv'
    BY <1>0, <1>1, <1>3, <1>6, MarkQuiet DEF MarkComing
  <1>8. CountInv'
    <2> SUFFICES ASSUME Saving' PROVE CountInv'
      BY DEF CountInv
    <2>1. CallsWaive'
      BY <1>0, <1>1, <1>6 DEF CountInv, CallsWaive
    <2> QED
      BY <1>0, <1>1, <1>3, <1>4, <1>6, <2>1, CountQuiet
  <1> QED
    BY <1>4, <1>7, <1>8 DEF ConvInv

\* The steps of Stop itself.
LEMMA StopStep ==
  ASSUME ConvInv, StopBegin \/ SaveloopReturn \/ StopWait \/ StopReturn
  PROVE  ConvInv'
  <1>0. Typed /\ SaveInv /\ CountInv
    BY DEF ConvInv
  <1>1. UNCHANGED <<queue, pushed, calc, call, obj, cache, stored, marked, counted, waived,
                    silent, erased>>
    BY DEF StopBegin, SaveloopReturn, StopWait, StopWaitFor, StopReturn, inbox, calling, data,
           saver, history
  <1>2. CASE StopWait
    <2>1. marked' \subseteq Users /\ Flushing("Stop") /\ stop' = "flush"
      BY <1>0, <1>1, <1>2 DEF StopWait, StopWaitFor, Typed, Types
    <2>2. /\ flush' \in [Flushers -> FlushRecs] /\ flush'["saveloop"] = flush["saveloop"]
          /\ flush'["Stop"].at \in {"off", "next"} /\ flush'["Stop"].snap = None
      BY <1>0, <2>1, FlushBegins DEF Flushers
    <2>3. Typed'
      BY <1>0, <1>1, <2>1, <2>2 DEF Typed, Types, CalcHas, CallHas, FlushHas, Flushers
    <2> QED
      BY <2>1, <2>3 DEF ConvInv, SaveInv, CountInv, Saving
  <1>3. CASE ~StopWait
    <2>1. UNCHANGED flush /\ stop' \in {"no", "wait", "flush", "done"} /\ (Saving' => Saving)
      BY <1>0, <1>3 DEF StopBegin, SaveloopReturn, StopReturn, saver, Saving, Typed, Types
    <2>2. Typed'
      BY <1>0, <1>1, <2>1 DEF Typed, Types, CalcHas, CallHas, FlushHas
    <2>3. Saving' => OneHome'
      BY <1>0, <1>1, <2>1, HomeKept DEF SaveInv, Holds, loop
    <2>4. SaveInv'
      BY <1>0, <1>1, <2>1, <2>3, SaveQuiet DEF MarkComing
    <2>5. CountInv'
      BY <1>0, <1>1, <2>1, <2>2, CountQuiet DEF CountInv, CallsWaive, loop
    <2> QED
      BY <2>2, <2>4, <2>5 DEF ConvInv
  <1> QED
    BY <1>2, <1>3

-----------------------------------------------------------------------------
(* The steps of a flush.                                                   *)

\* The pointers a flush takes are the cached ones.
LEMMA FlushReadStep ==
  ASSUME ConvInv, NEW f \in Flushers, FlushRead(f)
  PROVE  ConvInv'
  <1>0. Typed /\ SaveInv /\ CountInv
    BY DEF ConvInv
  <1>1. /\ UNCHANGED <<queue, pushed, calc, call, obj, cache, stored, marked, stop, counted,
                       waived, silent, erased>>
        /\ flush[f].at = "next"
    BY DEF FlushRead, inbox, calling, data, history
  <1>2. PICK u \in flush[f].todo :
          \/ SetFlush(f, [at |-> "write", todo |-> flush[f].todo \ {u}, u |-> u,
                          snap |-> cache[u], old |-> stored[u]])
          \/ SetFlush(f, IF flush[f].todo = {u} THEN NoFlush ELSE [flush[f] EXCEPT !.todo = @ \ {u}])
    BY DEF FlushRead
  <1>3. u \in Users /\ flush[f] \in FlushRecs /\ flush[f].snap = None /\ flush[f].todo \in SUBSET Users
    BY <1>0, <1>1 DEF Typed, Types, FlushHas, FlushRecs
  <1>4. PICK r \in FlushRecs :
          /\ flush' = [flush EXCEPT ![f] = r] /\ r.todo \subseteq flush[f].todo
          /\ \/ r.at = "write" /\ r.u = u /\ u \notin r.todo /\ r.snap = cache[u] /\ r.old = stored[u]
             \/ r.at \in {"off", "next"} /\ r.snap = None
    <2>1. CASE SetFlush(f, [at |-> "write", todo |-> flush[f].todo \ {u}, u |-> u,
                            snap |-> cache[u], old |-> stored[u]])
      <3> DEFINE r == [at |-> "write", todo |-> flush[f].todo \ {u}, u |-> u,
                       snap |-> cache[u], old |-> stored[u]]
      <3>1. r \in FlushRecs
        BY <1>0, <1>3 DEF FlushRecs, Optional, Typed, Types
      <3>2. /\ r.todo \subseteq flush[f].todo /\ r.at = "write" /\ r.u = u /\ u \notin r.todo
            /\ r.snap = cache[u] /\ r.old = stored[u]
        OBVIOUS
      <3>3. flush' = [flush EXCEPT ![f] = r]
        BY <2>1 DEF SetFlush
      <3> HIDE DEF r
      <3> QED
        BY <3>1, <3>2, <3>3
    <2>2. CASE SetFlush(f, NoFlush)
      BY <2>2, Nothing DEF SetFlush
    <2>3. CASE SetFlush(f, [flush[f] EXCEPT !.todo = @ \ {u}])
      <3> DEFINE r == [flush[f] EXCEPT !.todo = @ \ {u}]
      <3>1. r \in FlushRecs
        BY <1>3 DEF FlushRecs
      <3>2. r.todo \subseteq flush[f].todo /\ r.at = "next" /\ r.snap = None
        BY <1>1, <1>3 DEF FlushRecs
      <3>3. flush' = [flush EXCEPT ![f] = r]
        BY <2>3 DEF SetFlush
      <3> HIDE DEF r
      <3> QED
        BY <3>1, <3>2, <3>3
    <2> QED
      BY <1>2, <2>1, <2>2, <2>3
  <1>5. /\ flush' \in [Flushers -> FlushRecs] /\ flush'[f] = r
        /\ \A g \in Flushers : g # f => flush'[g] = flush[g]
    BY <1>0, <1>4 DEF Typed, Types
  <1>6. Typed'
    <2>1. FlushHas'
      BY <1>0, <1>3, <1>4, <1>5 DEF Typed, Types, FlushHas
    <2> QED
      BY <1>0, <1>1, <1>5, <2>1 DEF Typed, Types, CalcHas, CallHas
  <1> SUFFICES ASSUME Saving' PROVE SaveInv' /\ CountInv'
    BY <1>6 DEF SaveInv, CountInv, ConvInv
  <1>7. Saving /\ f = "saveloop"
    BY <1>0, <1>1 DEF Saving, SaveInv, Flushers
  <1>8. loop' = r /\ flush'["Stop"] = flush["Stop"] /\ loop.todo = flush[f].todo
    BY <1>5, <1>7 DEF loop, Flushers
  <1>9. OneHome'
    <2>1. \A p \in Objs, v \in Users, e \in Channels : Holds(p, v, e)' => Holds(p, v, e)
      BY <1>1, <1>4, <1>8 DEF Holds
    <2> QED
      BY <1>0, <1>7, <2>1, HomeKept DEF SaveInv
  <1>10. SaveInv'
    <2>1. flush["Stop"].at = "off" /\ Todo /\ UnsavedMarked
      BY <1>0, <1>7 DEF SaveInv
    <2>2. Todo'
      BY <1>1, <1>4, <1>8, <2>1 DEF Todo
    <2>3. AddedSince' /\ ChangedSince'
      BY <1>1, <1>4, <1>8 DEF AddedSince, ChangedSince
    <2>4. UnsavedMarked'
      BY <1>1, <2>1 DEF UnsavedMarked, Unsaved, MarkComing, Saving
    <2> QED
      BY <1>8, <1>9, <2>1, <2>2, <2>3, <2>4 DEF SaveInv
  <1>11. CountInv'
    <2>1. CallsWaive /\ CalcReads /\ CountKept
      BY <1>0, <1>7 DEF CountInv
    <2>2. CallsWaive' /\ CalcReads' /\ CountKept'
      BY <1>1, <1>7, <2>1 DEF CallsWaive, CalcReads, CountKept, Unread, Free
    <2>3. OldStored' /\ SnapCounted'
      BY <1>1, <1>4, <1>8 DEF OldStored, SnapCounted
    <2>4. CalcAbove'
      BY <1>1, <1>3, <1>4, <1>8, <2>1, ConversationAssumption DEF CalcAbove, CalcReads, Free
    <2> QED
      BY <2>2, <2>3, <2>4 DEF CountInv
  <1> QED
    BY <1>10, <1>11

\* The state of a flush that is done with a user.
LEMMA NextUserFields ==
  ASSUME Typed, NEW f \in Flushers
  PROVE  /\ NextUser(f) \in FlushRecs /\ NextUser(f).at \in {"off", "next"}
         /\ NextUser(f).snap = None /\ NextUser(f).todo = flush[f].todo
  <1>1. flush[f].todo \in SUBSET Users
    BY DEF Typed, Types, FlushRecs
  <1>2. NextUser(f) = IF flush[f].todo = {} THEN NoFlush ELSE Begun(flush[f].todo)
    BY DEF NextUser, Begun
  <1> QED
    BY <1>1, <1>2, Nothing, BegunFields

\* FlushUnmark unmarks a user all of whose changes are written, or will be
\* marked again.
LEMMA FlushUnmarkStep ==
  ASSUME ConvInv, NEW f \in Flushers, FlushUnmark(f)
  PROVE  ConvInv'
  <1>0. Typed /\ SaveInv /\ CountInv
    BY DEF ConvInv
  <1>1. /\ UNCHANGED <<queue, pushed, calc, call, obj, cache, stored, stop, counted, waived,
                       silent, erased>>
        /\ flush[f].at = "unmark"
    BY DEF FlushUnmark, inbox, calling, data, history
  <1>2. PICK u \in Users : flush[f].u = u /\ u \notin flush[f].todo /\ marked' = marked \ {u}
    BY <1>0, <1>1 DEF FlushUnmark, Typed, FlushHas
  <1>3. PICK r \in FlushRecs :
          /\ flush' = [flush EXCEPT ![f] = r]
          /\ r.at = "expire" /\ r.u = u /\ r.todo = flush[f].todo /\ r.snap = flush[f].snap
    <2> DEFINE r == [flush[f] EXCEPT !.at = "expire"]
    <2>1. flush[f] \in FlushRecs
      BY <1>0 DEF Typed, Types
    <2>2. r \in FlushRecs
      BY <2>1 DEF FlushRecs
    <2>3. r.at = "expire" /\ r.u = u /\ r.todo = flush[f].todo /\ r.snap = flush[f].snap
      BY <1>2, <2>1 DEF FlushRecs
    <2>4. flush' = [flush EXCEPT ![f] = r]
      BY DEF FlushUnmark, SetFlush
    <2> HIDE DEF r
    <2> QED
      BY <2>2, <2>3, <2>4
  <1>4. /\ flush' \in [Flushers -> FlushRecs] /\ flush'[f] = r
        /\ \A g \in Flushers : g # f => flush'[g] = flush[g]
    BY <1>0, <1>3 DEF Typed, Types
  <1>5. Typed'
    <2>1. FlushHas'
      BY <1>0, <1>1, <1>2, <1>3, <1>4 DEF Typed, Types, FlushHas
    <2> QED
      BY <1>0, <1>1, <1>2, <1>4, <2>1 DEF Typed, Types, CalcHas, CallHas
  <1> SUFFICES ASSUME Saving' PROVE SaveInv' /\ CountInv'
    BY <1>5 DEF SaveInv, CountInv, ConvInv
  <1>6. Saving /\ f = "saveloop"
    BY <1>0, <1>1 DEF Saving, SaveInv, Flushers
  <1>7. loop' = r /\ flush'["Stop"] = flush["Stop"] /\ loop = flush[f]
    BY <1>4, <1>6 DEF loop, Flushers
  <1>8. OneHome'
    <2>1. \A p \in Objs, v \in Users, e \in Channels : Holds(p, v, e)' => Holds(p, v, e)
      BY <1>1, <1>2, <1>3, <1>7 DEF Holds
    <2> QED
      BY <1>0, <1>6, <2>1, HomeKept DEF SaveInv
  <1>9. SaveInv'
    <2>1. flush["Stop"].at = "off" /\ Todo /\ ChangedSince /\ UnsavedMarked
      BY <1>0, <1>6 DEF SaveInv
    <2>2. Todo' /\ AddedSince' /\ ChangedSince'
      BY <1>2, <1>3, <1>7, <2>1 DEF Todo, AddedSince, ChangedSince
    <2>3. UnsavedMarked'
      BY <1>1, <1>2, <1>6, <1>7, <2>1 DEF UnsavedMarked, ChangedSince, Unsaved, MarkComing
    <2> QED
      BY <1>7, <1>8, <2>1, <2>2, <2>3 DEF SaveInv
  <1>10. CountInv'
    <2>1. CallsWaive'
      BY <1>0, <1>1, <1>6 DEF CountInv, CallsWaive
    <2> QED
      BY <1>0, <1>1, <1>3, <1>5, <1>6, <1>7, <2>1, CountQuiet
  <1> QED
    BY <1>9, <1>10

\* What a flush writes is what it took, and it has been told of the rest.
LEMMA FlushWriteStep ==
  ASSUME ConvInv, NEW f \in Flushers, FlushWrite(f)
  PROVE  ConvInv'
  <1>0. Typed /\ SaveInv /\ CountInv
    BY DEF ConvInv
  <1>1. /\ UNCHANGED <<queue, pushed, calc, call, cache, marked, stop, counted, waived, silent, erased>>
        /\ flush[f].at = "write"
    BY DEF FlushWrite, WriteElse, inbox, calling, history
  <1>2. PICK u \in Users, s \in [Channels -> Optional(Objs)], old \in [Channels -> Kept] :
          flush[f].u = u /\ u \notin flush[f].todo /\ flush[f].snap = s /\ flush[f].old = old
    BY <1>0, <1>1 DEF Typed, FlushHas
  <1>3. PICK r \in FlushRecs :
          /\ flush' = [flush EXCEPT ![f] = r] /\ r.todo = flush[f].todo
          /\ \/ /\ r.at \in {"off", "next"} /\ r.snap = None /\ stored' = stored
             \/ /\ r.at = "unmark" /\ r.u = u /\ r.snap = s
                /\ stored' = [stored EXCEPT ![u] = Merged(f)]
    <2>1. CASE SetFlush(f, NextUser(f)) /\ UNCHANGED stored
      BY <1>0, <2>1, NextUserFields DEF SetFlush
    <2>2. CASE /\ SetFlush(f, [flush[f] EXCEPT !.at = "unmark", !.old = None])
               /\ stored' = [stored EXCEPT ![u] = Merged(f)]
      <3> DEFINE r == [flush[f] EXCEPT !.at = "unmark", !.old = None]
      <3>1. flush[f] \in FlushRecs
        BY <1>0 DEF Typed, Types
      <3>2. r \in FlushRecs
        BY <3>1 DEF FlushRecs, Optional
      <3>3. r.at = "unmark" /\ r.u = u /\ r.todo = flush[f].todo /\ r.snap = s
        BY <1>2, <3>1 DEF FlushRecs
      <3>4. flush' = [flush EXCEPT ![f] = r]
        BY <2>2 DEF SetFlush
      <3> HIDE DEF r
      <3> QED
        BY <2>2, <3>2, <3>3, <3>4
    <2> QED
      BY <1>2, <2>1, <2>2 DEF FlushWrite, WriteElse
  <1>4. /\ flush' \in [Flushers -> FlushRecs] /\ flush'[f] = r
        /\ \A g \in Flushers : g # f => flush'[g] = flush[g]
    BY <1>0, <1>3 DEF Typed, Types
  <1>5. /\ obj' \in [Objs -> Convs]
        /\ \A p \in Objs : Pointed(p)' => obj'[p] = obj[p]
    BY <1>0 DEF FlushWrite, WriteElse, Keep, Typed, Types, Blank, Convs
  <1>6. PICK m \in [Channels -> Kept] :
          /\ m = Merged(f)
          /\ \A c \in Channels : m[c] = IF s[c] = None THEN old[c] ELSE obj[s[c]]
    <2>1. Merged(f) = [c \in Channels |-> IF s[c] = None THEN old[c] ELSE obj[s[c]]]
      BY <1>2 DEF Merged
    <2>2. \A c \in Channels : (IF s[c] = None THEN old[c] ELSE obj[s[c]]) \in Kept
      BY <1>0 DEF Typed, Types, Kept, Optional
    <2> QED
      BY <2>1, <2>2
  <1>7. /\ stored' \in [Users -> [Channels -> Kept]]
        /\ \A v \in Users : v # u => stored'[v] = stored[v]
        /\ r.at = "unmark" => stored'[u] = m
        /\ r.at # "unmark" => stored' = stored
    BY <1>0, <1>3, <1>6 DEF Typed, Types
  <1>8. Typed'
    <2>1. FlushHas'
      BY <1>0, <1>1, <1>2, <1>3, <1>4 DEF Typed, Types, FlushHas
    <2> QED
      BY <1>0, <1>1, <1>4, <1>5, <1>7, <2>1 DEF Typed, Types, CalcHas, CallHas
  <1> SUFFICES ASSUME Saving' PROVE SaveInv' /\ CountInv'
    BY <1>8 DEF SaveInv, CountInv, ConvInv
  <1>9. Saving /\ f = "saveloop"
    BY <1>0, <1>1 DEF Saving, SaveInv, Flushers
  <1>10. loop' = r /\ flush'["Stop"] = flush["Stop"] /\ loop = flush[f]
    BY <1>4, <1>9 DEF loop, Flushers
  <1>11. \A p \in Objs, v \in Users, e \in Channels :
           /\ Holds(p, v, e)' => Holds(p, v, e)
           /\ Holds(p, v, e)' => obj'[p] = obj[p]
    <2>1. \A p \in Objs, v \in Users, e \in Channels : Holds(p, v, e)' => Holds(p, v, e)
      BY <1>1, <1>2, <1>3, <1>10 DEF Holds
    <2> QED
      BY <1>5, <1>8, <2>1, HeldPointed DEF Typed
  <1>12. OneHome'
    BY <1>0, <1>9, <1>11, HomeKept DEF SaveInv
  <1>13. \A v \in Users, c \in Channels : cache[v][c] # None => obj'[cache[v][c]] = obj[cache[v][c]]
    BY <1>0, <1>1, <1>11 DEF Typed, Types, Optional, Holds
  <1>14. SaveInv'
    <2>1. flush["Stop"].at = "off" /\ Todo /\ AddedSince /\ UnsavedMarked
      BY <1>0, <1>9 DEF SaveInv
    <2>2. Todo' /\ AddedSince'
      BY <1>1, <1>2, <1>3, <1>10, <2>1 DEF Todo, AddedSince
    <2>3. ChangedSince'
      <3> SUFFICES ASSUME r.at = "unmark", NEW c \in Channels, cache[u][c] # None,
                          obj'[cache[u][c]] # m[c]
                   PROVE  MarkComing(u)
        BY <1>1, <1>3, <1>7, <1>10 DEF ChangedSince, Unsaved, MarkComing
      <3>1. cache[u][c] # s[c]
        BY <1>6, <1>13
      <3> QED
        BY <1>1, <1>2, <1>10, <2>1, <3>1 DEF AddedSince
    <2>4. UnsavedMarked'
      BY <1>1, <1>2, <1>7, <1>9, <1>10, <1>13, <2>1 DEF UnsavedMarked, Unsaved, MarkComing, Todo
    <2> QED
      BY <1>10, <1>12, <2>1, <2>2, <2>3, <2>4 DEF SaveInv
  <1>15. CountInv'
    <2>1. CallsWaive /\ CalcReads /\ OldStored /\ SnapCounted /\ CountKept
      BY <1>0, <1>9 DEF CountInv
    <2>2. CallsWaive'
      BY <1>1, <2>1 DEF CallsWaive
    <2>3. OldStored' /\ SnapCounted' /\ CalcAbove'
      BY <1>3, <1>10 DEF OldStored, SnapCounted, CalcAbove
    <2>4. calc.at \in {"read", "apply", "take", "add"} => obj'[calc.obj] = obj[calc.obj]
      BY <1>0, <1>1, <1>11 DEF Typed, CalcHas, Messages, Holds
    <2>5. CalcReads'
      BY <1>1, <2>1, <2>4 DEF CalcReads, Free
    <2>6. CountKept'
      <3> SUFFICES ASSUME NEW v \in Users, NEW c \in Channels, Free(v, c), ~Adding(v, c)
                   PROVE  Unread(v, c)' = counted[v][c]
        BY <1>1 DEF CountKept, Free, Adding
      <3>1. Unread(v, c) = counted[v][c]
        BY <1>9, <2>1 DEF CountKept, Free, Adding
      <3>2. CASE v # u \/ r.at # "unmark" \/ cache[v][c] # None
        BY <1>1, <1>7, <1>13, <3>1, <3>2 DEF Unread
      <3>3. CASE v = u /\ r.at = "unmark" /\ cache[u][c] = None /\ s[c] = None
        <4>1. stored'[u][c] = stored[u][c]
          BY <1>1, <1>2, <1>6, <1>7, <1>10, <2>1, <3>3 DEF OldStored, Free
        <4> QED
          BY <1>1, <3>1, <3>3, <4>1 DEF Unread
      <3>4. CASE v = u /\ r.at = "unmark" /\ cache[u][c] = None /\ s[c] # None
        <4>1. obj[s[c]].unread = counted[u][c]
          BY <1>1, <1>2, <1>10, <2>1, <3>4 DEF SnapCounted
        <4>2. stored'[u][c] = obj[s[c]] /\ obj[s[c]] # None
          BY <1>0, <1>6, <1>7, <3>4, ConversationAssumption DEF Typed, Types, Convs, Optional
        <4> QED
          BY <1>1, <3>4, <4>1, <4>2 DEF Unread
      <3> QED
        BY <3>2, <3>3, <3>4
    <2> QED
      BY <2>2, <2>3, <2>5, <2>6 DEF CountInv
  <1> QED
    BY <1>14, <1>15

-----------------------------------------------------------------------------
(* What leaves the cache.                                                  *)

\* A conversation leaves the cache saved, or the count of it is waived.
LEMMA Removed ==
  ASSUME Typed, NEW u \in Users, NEW chans \in SUBSET Channels, CacheRemove(u, chans)
  PROVE  /\ cache' \in [Users -> [Channels -> Optional(Objs)]]
         /\ \A v \in Users, c \in Channels : cache'[v][c] # None => cache'[v][c] = cache[v][c]
         /\ waived \subseteq waived'
         /\ \A v \in Users, c \in Channels :
              <<v, c>> \notin waived' => \/ cache'[v][c] = cache[v][c]
                                         \/ cache'[v][c] = None /\ ~Unsaved(v, c)
  <1>1. /\ cache' \in [Users -> [Channels -> Optional(Objs)]]
        /\ \A v \in Users, c \in Channels :
             cache'[v][c] = IF v = u /\ c \in chans THEN None ELSE cache[v][c]
    <2> DEFINE row == [c \in Channels |-> IF c \in chans THEN None ELSE cache[u][c]]
    <2>1. cache' = [cache EXCEPT ![u] = row]
      BY DEF CacheRemove, Typed, Types
    <2>2. row \in [Channels -> Optional(Objs)]
      BY DEF Typed, Types, Optional
    <2> QED
      BY <2>1, <2>2 DEF Typed, Types
  <1>2. waived \subseteq waived' /\ \A c \in chans : Unsaved(u, c) => <<u, c>> \in waived'
    BY DEF CacheRemove
  <1> QED
    BY <1>1, <1>2

\* FlushExpire drops cached pointers once the flush is done with the user.
LEMMA FlushExpireStep ==
  ASSUME ConvInv, NEW f \in Flushers, FlushExpire(f)
  PROVE  ConvInv'
  <1>0. Typed /\ SaveInv /\ CountInv
    BY DEF ConvInv
  <1>1. /\ UNCHANGED <<queue, pushed, calc, call, stored, marked, stop, counted, silent, erased>>
        /\ flush[f].at = "expire"
    BY DEF FlushExpire, inbox, calling
  <1>2. PICK u \in Users : flush[f].u = u
    BY <1>0, <1>1 DEF Typed, FlushHas
  <1>3. PICK chans \in SUBSET Channels : CacheRemove(u, chans)
    BY <1>2 DEF FlushExpire
  <1>4. /\ cache' \in [Users -> [Channels -> Optional(Objs)]]
        /\ \A v \in Users, c \in Channels : cache'[v][c] # None => cache'[v][c] = cache[v][c]
        /\ waived \subseteq waived'
        /\ \A v \in Users, c \in Channels :
             <<v, c>> \notin waived' => \/ cache'[v][c] = cache[v][c]
                                        \/ cache'[v][c] = None /\ ~Unsaved(v, c)
    BY <1>0, <1>3, Removed
  <1>5. /\ flush' \in [Flushers -> FlushRecs]
        /\ flush'[f].at \in {"off", "next"} /\ flush'[f].snap = None /\ flush'[f].todo = flush[f].todo
        /\ \A g \in Flushers : g # f => flush'[g] = flush[g]
    BY <1>0, NextUserFields DEF FlushExpire, SetFlush, Typed, Types
  <1>6. /\ obj' \in [Objs -> Convs]
        /\ \A p \in Objs : Pointed(p)' => obj'[p] = obj[p]
    BY <1>0 DEF FlushExpire, Keep, Typed, Types, Blank, Convs
  <1>7. Typed'
    <2>1. FlushHas'
      BY <1>0, <1>5 DEF Typed, Types, FlushHas
    <2> QED
      BY <1>0, <1>1, <1>4, <1>5, <1>6, <2>1 DEF Typed, Types, CalcHas, CallHas
  <1> SUFFICES ASSUME Saving' PROVE SaveInv' /\ CountInv'
    BY <1>7 DEF SaveInv, CountInv, ConvInv
  <1>8. Saving /\ f = "saveloop"
    BY <1>0, <1>1 DEF Saving, SaveInv, Flushers
  <1>9. /\ flush'["Stop"] = flush["Stop"]
        /\ loop'.at \in {"off", "next"} /\ loop'.todo \subseteq loop.todo \cup marked'
    BY <1>5, <1>8 DEF loop, Flushers
  <1>10. \A p \in Objs, v \in Users, e \in Channels :
           /\ Holds(p, v, e)' => Holds(p, v, e)
           /\ Holds(p, v, e)' => obj'[p] = obj[p]
    <2>1. \A p \in Objs, v \in Users, e \in Channels : Holds(p, v, e)' => Holds(p, v, e)
      BY <1>1, <1>4, <1>9, ConversationAssumption DEF Holds
    <2> QED
      BY <1>6, <1>7, <2>1, HeldPointed DEF Typed
  <1>11. OneHome'
    BY <1>0, <1>8, <1>10, HomeKept DEF SaveInv
  <1>12. SaveInv'
    <2>1. \A v \in Users, c \in Channels : cache'[v][c] # None =>
            cache'[v][c] = cache[v][c] /\ obj'[cache[v][c]] = obj[cache[v][c]]
      BY <1>4, <1>10 DEF Optional, Holds
    <2>2. \A v \in Users : MarkComing(v) => MarkComing(v)'
      BY <1>1 DEF MarkComing
    <2> QED
      BY <1>0, <1>1, <1>8, <1>9, <1>11, <2>1, <2>2, MarkQuiet
  <1>13. CountInv'
    <2>1. CallsWaive'
      BY <1>0, <1>1, <1>4, <1>8 DEF CountInv, CallsWaive
    <2> QED
      BY <1>0, <1>1, <1>4, <1>7, <1>8, <1>9, <1>10, <2>1, CountQuiet DEF Free
  <1> QED
    BY <1>12, <1>13

\* The nightly job, and a full cache.
LEMMA DropStep ==
  ASSUME ConvInv, NEW u \in Users,
         ClearExpireConversations(u) \/ \E c \in Channels : Evict(u, c)
  PROVE  ConvInv'
  <1>0. Typed /\ SaveInv /\ CountInv
    BY DEF ConvInv
  <1>1. /\ UNCHANGED <<queue, pushed, stored, marked, flush, stop, counted, silent, erased>>
        /\ loop' = loop
    BY DEF ClearExpireConversations, Evict, inbox, saver, loop
  <1>2. /\ call' \in [Callers -> CallRecs]
        /\ \A k \in Callers : /\ call'[k].at = call[k].at /\ call'[k].u = call[k].u
                              /\ call'[k].c = call[k].c /\ call'[k].obj = call[k].obj
                              /\ call'[k].read = call[k].read
    <2>1. CASE ClearExpireConversations(u)
      <3>1. PICK t \in [Callers -> BOOLEAN] :
              call' = [k \in Callers |-> IF t[k] THEN CallLoses(call[k]) ELSE call[k]]
        <4> DEFINE t == [k \in Callers |->
                           call[k].u = u /\ call[k].at \in {"fetch", "put", "add"}]
        <4>1. call' = [k \in Callers |-> IF t[k] THEN CallLoses(call[k]) ELSE call[k]]
          BY <2>1 DEF ClearExpireConversations, CallLoses
        <4>2. t \in [Callers -> BOOLEAN]
          OBVIOUS
        <4> QED
          BY <4>1, <4>2
      <3>2. \A k \in Callers : call[k] \in CallRecs
        BY <1>0 DEF Typed, Types
      <3>3. \A k \in Callers : call'[k] = CallLoses(call[k]) \/ call'[k] = call[k]
        BY <3>1
      <3>4. \A k \in Callers :
              /\ call'[k] \in CallRecs
              /\ call'[k].at = call[k].at /\ call'[k].u = call[k].u
              /\ call'[k].c = call[k].c /\ call'[k].obj = call[k].obj
              /\ call'[k].read = call[k].read
        BY <3>2, <3>3, CallLosesFields
      <3> QED
        BY <3>1, <3>4
    <2>2. CASE \E c \in Channels : Evict(u, c)
      BY <1>0, <2>2 DEF Evict, calling, Typed, Types
    <2> QED
      BY <2>1, <2>2
  <1>3. /\ calc' \in CalcRecs
        /\ calc'.at = calc.at /\ calc'.msg = calc.msg /\ calc'.u = calc.u
        /\ calc'.obj = calc.obj /\ calc'.n = calc.n
        /\ calc'.lost => calc.lost \/ (calc.at = "add" /\ <<calc.u, calc.msg.chan>> \in waived')
    <2>0. calc \in CalcRecs
      BY <1>0 DEF Typed, Types
    <2>1. CASE calc' = calc
      BY <2>0, <2>1
    <2>2. CASE /\ ClearExpireConversations(u) /\ calc' # calc
      <3>1. /\ calc.u = u /\ calc.at = "add" /\ calc' = [calc EXCEPT !.lost = TRUE]
            /\ <<calc.u, calc.msg.chan>> \in waived'
        BY <2>2 DEF ClearExpireConversations
      <3> QED
        BY <2>0, <3>1 DEF CalcRecs
    <2> QED
      BY <2>1, <2>2 DEF Evict
  <1>4. /\ cache' \in [Users -> [Channels -> Optional(Objs)]]
        /\ \A v \in Users, c \in Channels : cache'[v][c] # None => cache'[v][c] = cache[v][c]
        /\ waived \subseteq waived'
        /\ \A v \in Users, c \in Channels :
             <<v, c>> \notin waived' => \/ cache'[v][c] = cache[v][c]
                                        \/ cache'[v][c] = None /\ ~Unsaved(v, c)
    <2>1. CASE \E c \in Channels : Evict(u, c)
      <3>1. PICK chans \in SUBSET Channels : CacheRemove(u, chans)
        BY <2>1 DEF Evict
      <3> QED
        BY <1>0, <3>1, Removed
    <2>2. CASE ClearExpireConversations(u)
      <3>1. /\ cache' = [cache EXCEPT ![u] = [c \in Channels |-> None]]
            /\ waived \subseteq waived'
            /\ \A c \in Channels : Unsaved(u, c) => <<u, c>> \in waived'
        BY <2>2 DEF ClearExpireConversations
      <3>2. [c \in Channels |-> None] \in [Channels -> Optional(Objs)]
        BY DEF Optional
      <3>3. /\ cache' \in [Users -> [Channels -> Optional(Objs)]]
            /\ \A v \in Users, c \in Channels :
                 cache'[v][c] = IF v = u THEN None ELSE cache[v][c]
        BY <1>0, <3>1, <3>2 DEF Typed, Types
      <3> QED
        BY <3>1, <3>3
    <2> QED
      BY <2>1, <2>2
  <1>5. /\ obj' \in [Objs -> Convs]
        /\ \A p \in Objs : Pointed(p)' => obj'[p] = obj[p]
    <2>1. Keep(obj)
      BY DEF ClearExpireConversations, Evict
    <2> QED
      BY <1>0, <2>1 DEF Keep, Typed, Types, Blank, Convs
  <1>6. Typed'
    BY <1>0, <1>1, <1>2, <1>3, <1>4, <1>5, ZenonT(60) DEF Typed, Types, CalcHas, CallHas, FlushHas
  <1>7. \A p \in Objs, v \in Users, e \in Channels :
          /\ Holds(p, v, e)' => Holds(p, v, e)
          /\ Holds(p, v, e)' => obj'[p] = obj[p]
    <2>1. \A p \in Objs, v \in Users, e \in Channels : Holds(p, v, e)' => Holds(p, v, e)
      <3> SUFFICES ASSUME NEW p \in Objs, NEW v \in Users, NEW e \in Channels, Holds(p, v, e)'
                   PROVE  Holds(p, v, e)
        OBVIOUS
      <3>1. CASE cache'[v][e] = p
        <4>1. cache[v][e] = p
          BY <1>4, <3>1, ConversationAssumption
        <4> QED
          BY <4>1 DEF Holds
      <3>2. CASE \E k \in Callers : call'[k].obj = p /\ call'[k].u = v /\ call'[k].c = e
        BY <1>2, <3>2 DEF Holds
      <3>3. CASE \/ calc'.obj = p /\ calc'.u = v /\ calc'.msg.chan = e
                 \/ loop'.at \in {"write", "unmark", "expire"} /\ loop'.u = v /\ loop'.snap[e] = p
        BY <1>1, <1>3, <3>3 DEF Holds
      <3> QED
        BY <3>1, <3>2, <3>3 DEF Holds
    <2> QED
      BY <1>5, <1>6, <2>1, HeldPointed DEF Typed
  <1> SUFFICES ASSUME Saving' PROVE SaveInv' /\ CountInv'
    BY <1>6 DEF SaveInv, CountInv, ConvInv
  <1>8. Saving /\ OneHome'
    BY <1>0, <1>1, <1>7, HomeKept DEF Saving, SaveInv
  <1>9. SaveInv'
    <2>1. \A v \in Users : MarkComing(v) => MarkComing(v)'
      BY <1>1, <1>2, <1>3 DEF MarkComing
    <2>2. \A v \in Users, c \in Channels : cache'[v][c] # None =>
            cache'[v][c] = cache[v][c] /\ obj'[cache[v][c]] = obj[cache[v][c]]
      BY <1>4, <1>7 DEF Optional, Holds
    <2> QED
      BY <1>0, <1>1, <1>8, <2>1, <2>2, SaveQuiet
  <1>10. CountInv'
    <2>1. CallsWaive'
      BY <1>0, <1>2, <1>3, <1>4, <1>8 DEF CountInv, CallsWaive
    <2> QED
      BY <1>0, <1>1, <1>3, <1>4, <1>6, <1>7, <1>8, <2>1, CountQuiet DEF Free
  <1> QED
    BY <1>9, <1>10

-----------------------------------------------------------------------------
\* The invariant holds at the start,
LEMMA InitConv == Init => ConvInv
  <1> SUFFICES ASSUME Init PROVE ConvInv
    OBVIOUS
  <1>1. Typed
    <2>1. queue \in Seq(Messages) /\ pushed \in Nat /\ stop \in {"no", "wait", "flush", "done"}
      BY DEF Init
    <2>2. calc \in CalcRecs /\ call \in [Callers -> CallRecs] /\ flush \in [Flushers -> FlushRecs]
      BY Nothing DEF Init
    <2>3. obj \in [Objs -> Convs] /\ marked \subseteq Users
      BY DEF Init, Blank, Convs
    <2>4. /\ cache \in [Users -> [Channels -> Optional(Objs)]]
          /\ stored \in [Users -> [Channels -> Kept]] /\ counted \in [Users -> [Channels -> Nat]]
      BY DEF Init, Optional, Kept
    <2>5. CalcHas /\ CallHas /\ FlushHas
      BY Nothing DEF Init, CalcHas, CallHas, FlushHas
    <2> QED
      BY <2>1, <2>2, <2>3, <2>4, <2>5 DEF Typed, Types
  <1>2. /\ calc = NoCalc /\ \A k \in Callers : call[k] = NoCall
        /\ loop = NoFlush /\ flush["Stop"] = NoFlush
        /\ \A u \in Users, c \in Channels :
             cache[u][c] = None /\ stored[u][c] = None /\ counted[u][c] = 0
    BY DEF Init, loop, Flushers
  <1>3. SaveInv
    <2>1. OneHome
      BY <1>2, Nothing, ConversationAssumption DEF OneHome, Holds
    <2> QED
      BY <1>2, <2>1, Nothing DEF SaveInv, Todo, AddedSince, ChangedSince, UnsavedMarked, Unsaved
  <1>4. CountInv
    BY <1>2, Nothing DEF CountInv, CallsWaive, CalcReads, OldStored, SnapCounted, CalcAbove,
                         CountKept, Unread
  <1> QED
    BY <1>1, <1>3, <1>4 DEF ConvInv

\* is kept by every step,
LEMMA NextConv == ConvInv /\ [Next]_vars => ConvInv'
  <1> SUFFICES ASSUME ConvInv, [Next]_vars PROVE ConvInv'
    OBVIOUS
  <1>1. CASE PushMessage \/ Calc \/ CalcMark
    BY <1>1, PushStep, PopStep, LookupStep, LoadStep, ReadStep, ApplyStep, TakeStep, AddStep,
       CalcMarkStep DEF Calc
  <1>2. CASE \E k \in Callers : CallSet(k) \/ CallDelete(k) \/ CallSync(k) \/ Call(k) \/ CallMark(k)
    BY <1>2, SetStep, DeleteStep, SyncStep, FindStep, WriteStep, FetchStep, TakeCallStep,
       AddCallStep, RemoveStep, DelReadStep, DelWriteStep, SyncWriteStep, CallMarkStep DEF Call
  <1>3. CASE \E f \in Flushers : Flush(f)
    BY <1>3, FlushReadStep, FlushWriteStep, FlushUnmarkStep, FlushExpireStep DEF Flush
  <1>4. CASE Tick \/ OtherMark
    BY <1>4, SelectQuiet
  <1>5. CASE \E u \in Users : ClearExpireConversations(u) \/ \E c \in Channels : Evict(u, c)
    BY <1>5, DropStep
  <1>6. CASE StopBegin \/ SaveloopReturn \/ StopWait \/ StopReturn
    BY <1>6, StopStep
  <1>7. CASE UNCHANGED vars
    <2>1. UNCHANGED <<queue, pushed, calc, call, obj, cache, stored, marked, flush, stop,
                      counted, waived, silent, erased>>
      BY <1>7 DEF vars, inbox, calling, data, saver, history
    <2>2. Typed /\ SaveInv /\ CountInv
      BY DEF ConvInv
    <2>3. Typed'
      BY <2>1, <2>2 DEF Typed, Types, CalcHas, CallHas, FlushHas
    <2>4. Saving' => OneHome' /\ Saving
      BY <2>1, <2>2, HomeKept DEF SaveInv, Holds, loop, Saving
    <2>5. SaveInv'
      BY <2>1, <2>2, <2>4, SaveQuiet DEF MarkComing
    <2>6. CountInv'
      BY <2>1, <2>2, <2>3, <2>4, CountQuiet DEF CountInv, CallsWaive, loop
    <2> QED
      BY <2>3, <2>5, <2>6 DEF ConvInv
  <1> QED
    BY <1>1, <1>2, <1>3, <1>4, <1>5, <1>6, <1>7 DEF Next, Stop, Flushers

\* and so holds always.
LEMMA ConvInvAlways == Spec => []ConvInv
  BY InitConv, NextConv, PTL DEF Spec

\* Until Stop flushes, what is cached and not saved belongs to a user who is
\* marked or about to be (saveloop and FlushConversations, conversation.go:137-168,
\* 280-314), or was changed by a call that marks nobody (api_conversation.go:229-236),
\* for any number of users, channels, goroutines, messages and failures.
THEOREM SavesCorrect == Spec => []UnsavedMarked
  <1>1. ConvInv => UnsavedMarked
    BY DEF ConvInv, SaveInv, UnsavedMarked
  <1> QED
    BY <1>1, ConvInvAlways, PTL

\* Until Stop flushes, the unread count of a conversation is the number of
\* messages counted, unless a call, an eviction of what was not saved or a failing
\* store has changed it (calcConversation, conversation.go:374-434).
THEOREM CountsCorrect == Spec => []CountKept
  <1>1. ConvInv => CountKept
    BY DEF ConvInv, CountInv, CountKept
  <1> QED
    BY <1>1, ConvInvAlways, PTL
=============================================================================
