--------------------------- MODULE TopicLogProofs ---------------------------
(***************************************************************************)
(* FileSorted, AckedStored, SeqIncreasing and ReadsBack of TopicLog, and   *)
(* that it implements MessageLog, proved for every number of goroutines,   *)
(* appends, restarts and evictions and every size of segments and batches. *)
(*                                                                         *)
(* None is inductive: a number is taken in one step and written in         *)
(* another, in between the segment may be evicted or the server end, and a *)
(* topic that starts again counts on from what its first file shows.  The  *)
(* invariant TopicInv says:                                                *)
(*   Lock        there is one append at most, of the live topic object;    *)
(*   Counted     whatever was numbered is within the bound on appends, so  *)
(*               that every base is one, and an open segment is not above  *)
(*               the last number;                                          *)
(*   Numbers     of the appends that are under way: increasing, up to the  *)
(*               last number, for the last segment unless it was closed;   *)
(*   Sorted      while Apart, files increase, and the last number and the  *)
(*               numbers under way are above those in the last file;       *)
(*   Untouched   without a restart, files above the last number are empty; *)
(*   Gapless     without an eviction, a file begins after its base and the *)
(*               numbers under way go on where it ends: what a restart     *)
(*               takes from it is its last number;                         *)
(*   Answered    without a restart, what was returned increases and is     *)
(*               below what is under way.                                  *)
(* A second one, ReadInv, is for ReadsBack: while Apart the listed bases   *)
(* increase and no file goes beyond the next base, and what the topic      *)
(* object acknowledged is in a listed file.  For MessageLog, Begun adds    *)
(* that the numbers of an append follow each other and file 0 is listed.   *)
(***************************************************************************)
EXTENDS TopicLog, FiniteSetTheorems, TLAPS

\* The append of p is under way.
Busy(p) == job[p] # NoJob

\* Every number in s is at most n,
UpTo(s, n) == \A i \in DOMAIN s : s[i] <= n

\* and less than every one in t.
Below(s, t) == \A i \in DOMAIN s, k \in DOMAIN t : s[i] < t[k]

\* The types of the variables.
Typing ==
    /\ disk \in [Bases -> Seq(Nat)]
    /\ live \in BOOLEAN
    /\ gen \in Nat
    /\ segments \in Seq(Bases)
    /\ live => segments # <<>>
    /\ last \in Nat
    /\ open \subseteq Bases
    /\ segLast \in [Bases -> Nat]
    /\ DOMAIN job = Appenders
    /\ \A p \in Appenders : Busy(p) => job[p] \in Jobs
    /\ acks \in Seq(Nat)
    /\ appends \in Nat /\ appends <= MaxAppends
    /\ crashes \in Nat /\ evicts \in Nat

\* At most one append is under way, and it is one of the live topic object.
Lock ==
    /\ \A p \in Appenders : Busy(p) => live /\ job[p].gen = gen
    /\ \A p, q \in Appenders : Busy(p) /\ Busy(q) => p = q

\* The highest number there can be so far.
Limit == appends * MaxBatch

\* Numbers, and with them bases, stay within the bound.
Counted ==
    /\ last <= Limit
    /\ \A b \in Bases : \A i \in DOMAIN disk[b] : b < disk[b][i] /\ disk[b][i] <= Limit
    /\ live => \A b \in open \cup {Last(segments)} : b <= last
    /\ ~live => open = {}
    /\ \A p \in Appenders : Busy(p) => \A i \in DOMAIN job[p].seqs :
          job[p].base < job[p].seqs[i] /\ job[p].seqs[i] <= Limit

\* The numbers of an append are in order and taken; those that can be written are
\* for the last segment.
Numbers ==
    \A p \in Appenders : Busy(p) =>
        /\ job[p].seqs # <<>>
        /\ Increasing(job[p].seqs)
        /\ UpTo(job[p].seqs, last)
        /\ job[p].handle => job[p].base = Last(segments)

\* Files, the last number and the numbers under way.
Sorted ==
    /\ \A b \in Bases : Increasing(disk[b])
    /\ live => UpTo(disk[Last(segments)], last)
    /\ \A p \in Appenders : Busy(p) /\ job[p].handle => Below(disk[job[p].base], job[p].seqs)

\* Without a restart nothing has been written above the last number.
Untouched ==
    /\ ~live => last = 0 /\ acks = <<>> /\ \A b \in Bases : disk[b] = <<>>
    /\ \A b \in Bases : b > last => disk[b] = <<>>

\* Without an eviction nothing fails but the append that rolls.
Writing == \E p \in Appenders : Busy(p) /\ job[p].handle

Gapless ==
    /\ \A b \in Bases : disk[b] # <<>> => disk[b][1] = b + 1
    /\ live /\ ~Writing => last = Recovered(Last(segments))
    /\ \A p \in Appenders : Busy(p) /\ job[p].handle =>
          job[p].seqs[1] = Recovered(job[p].base) + 1 /\ last = Last(job[p].seqs)

\* What was returned to senders.
Answered ==
    /\ Increasing(acks)
    /\ UpTo(acks, last)
    /\ \A p \in Appenders : Busy(p) /\ job[p].handle => Below(acks, job[p].seqs)

TopicInv ==
    /\ Typing /\ Lock /\ Counted /\ Numbers
    /\ Apart => Sorted
    /\ crashes = 0 => Untouched /\ Answered
    /\ evicts = 0 => Gapless

-----------------------------------------------------------------------------
\* The bound grows by a batch with each append,
LEMMA Product ==
  ASSUME NEW a \in Nat, NEW m \in Nat, NEW b \in Nat
  PROVE  a * b \in Nat /\ (a + 1) * b = a * b + b /\ (a <= m => a * b <= m * b)
  <1>1. a * b \in Nat /\ m * b \in Nat /\ (a + 1) * b = a * b + b
    BY SMT
  <1>2. ASSUME a <= m PROVE a * b <= m * b
    <2>1. PICK d \in Nat : m = a + d
      <3>1. m - a \in Nat /\ m = a + (m - a)
        BY <1>2
      <3> QED
        BY <3>1
    <2>2. m * b = a * b + d * b /\ d * b \in Nat
      BY <2>1, SMT
    <2> QED
      BY <1>1, <2>2
  <1> QED
    BY <1>1, <1>2

\* and with it the numbers within the bases.
LEMMA LimitGrows ==
  ASSUME Typing, appends < MaxAppends, appends' = appends + 1
  PROVE  /\ Limit \in Nat /\ Limit' = Limit + MaxBatch
         /\ \A x \in Nat : x <= Limit + MaxBatch => x \in Bases
  <1>0. appends \in Nat /\ MaxAppends \in Nat /\ MaxBatch \in Nat
    BY BoundsAssumption DEF Typing
  <1>1. (appends + 1) * MaxBatch = appends * MaxBatch + MaxBatch /\ appends * MaxBatch \in Nat
    BY <1>0, Product
  <1>2. (appends + 1) * MaxBatch <= MaxAppends * MaxBatch
    <2>1. appends + 1 \in Nat /\ appends + 1 <= MaxAppends
      BY <1>0
    <2> QED
      BY <1>0, <2>1, Product
  <1>3. MaxAppends * MaxBatch \in Nat
    BY <1>0, Product
  <1> HIDE DEF Limit
  <1>4. Limit \in Nat /\ Limit' = Limit + MaxBatch /\ Limit + MaxBatch <= MaxAppends * MaxBatch
    BY <1>1, <1>2 DEF Limit
  <1> QED
    BY <1>0, <1>3, <1>4 DEF Bases

\* The bound while no append begins.
LEMMA LimitStays ==
  ASSUME Typing, appends' = appends
  PROVE  Limit \in Nat /\ Limit' = Limit
  <1>0. appends \in Nat /\ MaxBatch \in Nat
    BY BoundsAssumption DEF Typing
  <1> QED
    BY <1>0, Product DEF Limit

\* 0 is a base, and bases are numbers.
LEMMA BasesNat == 0 \in Bases /\ Bases \subseteq Nat
  <1>1. MaxAppends * MaxBatch \in Nat
    BY BoundsAssumption, Product
  <1> QED
    BY <1>1 DEF Bases

\* Joining two sequences of numbers.
LEMMA Joined ==
  ASSUME NEW s \in Seq(Nat), NEW t \in Seq(Nat)
  PROVE  /\ s \o t \in Seq(Nat) /\ Len(s \o t) = Len(s) + Len(t)
         /\ DOMAIN (s \o t) = 1 .. Len(s) + Len(t)
         /\ \A i \in DOMAIN s : (s \o t)[i] = s[i]
         /\ \A i \in DOMAIN (s \o t) : i > Len(s) => i - Len(s) \in DOMAIN t /\ (s \o t)[i] = t[i - Len(s)]
         /\ \A k \in DOMAIN t : Len(s) + k \in DOMAIN (s \o t) /\ (s \o t)[Len(s) + k] = t[k]
  BY SMTT(30)

\* Increasing numbers and higher ones.
LEMMA JoinedIncreasing ==
  ASSUME NEW s \in Seq(Nat), NEW t \in Seq(Nat), Increasing(s), Increasing(t), Below(s, t)
  PROVE  Increasing(s \o t)
  <1> SUFFICES ASSUME NEW i \in DOMAIN (s \o t), NEW j \in DOMAIN (s \o t), i < j
               PROVE  (s \o t)[i] < (s \o t)[j]
    BY DEF Increasing
  <1>0. i \in Nat /\ j \in Nat /\ i > 0 /\ Len(s) \in Nat
    BY Joined
  <1>1. CASE j <= Len(s)
    <2>1. i \in DOMAIN s /\ j \in DOMAIN s
      BY <1>0, <1>1
    <2> QED
      BY <2>1, Joined DEF Increasing
  <1>2. CASE i <= Len(s) /\ j > Len(s)
    <2>1. i \in DOMAIN s
      BY <1>0, <1>2
    <2> QED
      BY <1>2, <2>1, Joined DEF Below
  <1>3. CASE i > Len(s)
    <2>1. j > Len(s)
      BY <1>0, <1>3
    <2>2. i - Len(s) < j - Len(s)
      BY <1>0
    <2> QED
      BY <1>3, <2>1, <2>2, Joined DEF Increasing
  <1> QED
    BY <1>0, <1>1, <1>2, <1>3, SMTT(30)

\* Numbers up to n and more of them.
LEMMA JoinedUpTo ==
  ASSUME NEW s \in Seq(Nat), NEW t \in Seq(Nat), NEW n, UpTo(s, n), UpTo(t, n)
  PROVE  UpTo(s \o t, n)
  <1> SUFFICES ASSUME NEW i \in DOMAIN (s \o t) PROVE (s \o t)[i] <= n
    BY DEF UpTo
  <1>0. i \in 1 .. Len(s) + Len(t) /\ Len(s) \in Nat
    BY Joined
  <1>1. CASE i <= Len(s)
    <2>1. i \in DOMAIN s
      BY <1>0, <1>1
    <2> QED
      BY <2>1, Joined DEF UpTo
  <1>2. CASE i > Len(s)
    BY <1>2, Joined DEF UpTo
  <1> QED
    BY <1>0, <1>1, <1>2

\* The beginning of a sequence.
LEMMA Begins ==
  ASSUME NEW t \in Seq(Nat), NEW k \in 0 .. Len(t)
  PROVE  LET w == SubSeq(t, 1, k)
         IN  /\ w \in Seq(Nat) /\ Len(w) = k /\ DOMAIN w = 1 .. k
             /\ \A i \in DOMAIN w : i \in DOMAIN t /\ w[i] = t[i]
  OBVIOUS

-----------------------------------------------------------------------------
\* What a segment shows when it is opened: a number from the base up, within the
\* bound if the base is.
LEMMA RecoveredRange ==
  ASSUME Typing, Counted, Limit \in Nat, NEW b \in Bases
  PROVE  /\ Recovered(b) \in Nat /\ Recovered(b) >= b
         /\ Recovered(b) <= Limit \/ Recovered(b) = b
  <1>0. disk[b] \in Seq(Nat) /\ b \in Nat /\ Len(disk[b]) \in Nat
    BY BasesNat DEF Typing
  <1>1. CASE disk[b] = <<>>
    BY <1>0, <1>1 DEF Recovered
  <1>2. CASE disk[b] # <<>>
    <2>1. Len(disk[b]) \in DOMAIN disk[b] /\ 1 \in DOMAIN disk[b] /\ Len(disk[b]) # 0
      BY <1>0, <1>2
    <2>2. \A i \in DOMAIN disk[b] : disk[b][i] \in Nat /\ b < disk[b][i] /\ disk[b][i] <= Limit
      BY <1>0 DEF Counted
    <2>3. Recovered(b) = b + 1 \/ Recovered(b) = disk[b][Len(disk[b])]
      BY <1>2 DEF Recovered, Last
    <2> QED
      BY <1>0, <2>1, <2>2, <2>3
  <1> QED
    BY <1>1, <1>2

\* In a file in order that begins after its base, no number is above that.
LEMMA RecoveredTop ==
  ASSUME Typing, NEW b \in Bases, Increasing(disk[b]), disk[b] # <<>> => disk[b][1] = b + 1
  PROVE  UpTo(disk[b], Recovered(b))
  <1>0. disk[b] \in Seq(Nat) /\ b \in Nat
    BY BasesNat DEF Typing
  <1> SUFFICES ASSUME NEW i \in DOMAIN disk[b] PROVE disk[b][i] <= Recovered(b)
    BY DEF UpTo
  <1>1. disk[b] # <<>> /\ i \in 1 .. Len(disk[b]) /\ Len(disk[b]) \in Nat
    BY <1>0
  <1>2. CASE Len(disk[b]) = 1
    BY <1>0, <1>1, <1>2 DEF Recovered
  <1>3. CASE Len(disk[b]) # 1
    <2>1. Recovered(b) = disk[b][Len(disk[b])]
      BY <1>1, <1>3 DEF Recovered, Last
    <2>2. Len(disk[b]) \in DOMAIN disk[b] /\ disk[b][i] \in Nat
      BY <1>0, <1>1
    <2>3. CASE i = Len(disk[b])
      BY <2>1, <2>2, <2>3
    <2>4. CASE i < Len(disk[b])
      <3>1. disk[b][i] < disk[b][Len(disk[b])]
        BY <2>2, <2>4 DEF Increasing
      <3>2. disk[b][Len(disk[b])] \in Nat
        BY <1>0, <2>2
      <3> QED
        BY <2>1, <2>2, <3>1, <3>2
    <2> QED
      BY <1>1, <2>3, <2>4
  <1> QED
    BY <1>2, <1>3

\* The numbers of a batch.
LEMMA NextSeqsFacts ==
  ASSUME Typing, NEW n \in 1 .. MaxBatch
  PROVE  /\ NextSeqs(n) \in Seq(Nat) /\ NextSeqs(n) # <<>> /\ Increasing(NextSeqs(n))
         /\ DOMAIN NextSeqs(n) = 1 .. n /\ Len(NextSeqs(n)) = n
         /\ \A i \in DOMAIN NextSeqs(n) : last < NextSeqs(n)[i] /\ NextSeqs(n)[i] <= last + n
         /\ NextSeqs(n)[1] = last + 1 /\ Last(NextSeqs(n)) = last + n
  <1>0. last \in Nat /\ n \in Nat /\ n > 0
    BY BoundsAssumption DEF Typing
  <1>1. NextSeqs(n) \in Seq(Nat) /\ DOMAIN NextSeqs(n) = 1 .. n /\ Len(NextSeqs(n)) = n
    BY <1>0 DEF NextSeqs
  <1>2. \A i \in 1 .. n : NextSeqs(n)[i] = last + i
    BY DEF NextSeqs
  <1>3. Increasing(NextSeqs(n))
    BY <1>0, <1>1, <1>2 DEF Increasing
  <1>4. NextSeqs(n) # <<>>
    BY <1>0, <1>1
  <1>5. \A i \in DOMAIN NextSeqs(n) : last < NextSeqs(n)[i] /\ NextSeqs(n)[i] <= last + n
    BY <1>0, <1>1, <1>2
  <1>6. NextSeqs(n)[1] = last + 1 /\ Last(NextSeqs(n)) = last + n
    BY <1>0, <1>1, <1>2 DEF Last
  <1> QED
    BY <1>1, <1>3, <1>4, <1>5, <1>6

\* A list of segments with one more.
LEMMA Appended ==
  ASSUME NEW s \in Seq(Bases), NEW x \in Bases
  PROVE  Last(Append(s, x)) = x /\ Append(s, x) \in Seq(Bases) /\ Append(s, x) # <<>>
  <1>1. Len(Append(s, x)) = Len(s) + 1 /\ Append(s, x)[Len(s) + 1] = x /\ Append(s, x) \in Seq(Bases)
    OBVIOUS
  <1> QED
    BY <1>1 DEF Last

\* The last segment is one.
LEMMA LastSegment ==
  ASSUME Typing, live
  PROVE  Last(segments) \in Bases
  BY DEF Typing, Last

\* With the lock free nothing is under way.
LEMMA Unlocked ==
  ASSUME Lock, AppendLockFree
  PROVE  \A p \in Appenders : ~Busy(p)
  BY DEF Lock, AppendLockFree, Busy

-----------------------------------------------------------------------------
\* The start of an append: its numbers are taken, for file b.
LEMMA StartInv ==
  ASSUME TopicInv, NEW p \in Appenders, NEW n \in 1 .. MaxBatch, AppendStart(p, n)
  PROVE  TopicInv'
  <1> DEFINE b == Last(segments)
             j == [gen |-> gen, base |-> b, handle |-> TRUE, seqs |-> NextSeqs(n)]
  <1>0. /\ Typing /\ Lock /\ Counted /\ Numbers /\ live /\ appends < MaxAppends
        /\ appends' = appends + 1 /\ last' = last + n /\ b \in Bases
        /\ open' = open \cup {b} /\ segLast' = [segLast EXCEPT ![b] = SegmentLast(b)]
        /\ job' = [job EXCEPT ![p] = j]
        /\ UNCHANGED <<disk, live, gen, segments, acks, mine, crashes, evicts>>
    BY LastSegment DEF TopicInv, AppendStart, GetSegment
  <1>1. /\ NextSeqs(n) \in Seq(Nat) /\ NextSeqs(n) # <<>> /\ Increasing(NextSeqs(n))
        /\ \A i \in DOMAIN NextSeqs(n) : last < NextSeqs(n)[i] /\ NextSeqs(n)[i] <= last + n
        /\ NextSeqs(n)[1] = last + 1 /\ Last(NextSeqs(n)) = last + n
    BY <1>0, NextSeqsFacts
  <1>2. /\ Limit \in Nat /\ Limit' = Limit + MaxBatch /\ n \in Nat /\ n > 0 /\ n <= MaxBatch
        /\ MaxBatch \in Nat /\ last \in Nat /\ b \in Nat
    <2>1. Limit \in Nat /\ Limit' = Limit + MaxBatch
      BY <1>0, LimitGrows
    <2>2. n \in Nat /\ n > 0 /\ n <= MaxBatch /\ MaxBatch \in Nat
      BY BoundsAssumption
    <2> QED
      BY <1>0, <2>1, <2>2, BasesNat DEF Typing
  <1>3. /\ j \in Jobs /\ j.gen = gen /\ j.base = b /\ j.handle = TRUE /\ j.seqs = NextSeqs(n)
    BY <1>0, <1>1 DEF Jobs, Typing
  <1>4. \A q \in Appenders : ~Busy(q)
    BY <1>0, Unlocked DEF AppendStart
  <1>5. job'[p] = j /\ DOMAIN job' = Appenders /\ \A q \in Appenders : q # p => job'[q] = NoJob
    BY <1>0, <1>4 DEF Typing, Busy
  <1>6. \A q \in Appenders : Busy(q)' => q = p
    BY <1>5 DEF Busy
  <1> HIDE DEF j, b
  <1>7. Typing'
    <2>1. SegmentLast(b) \in Nat
      BY <1>0, <1>2, RecoveredRange DEF SegmentLast, Typing
    <2> QED
      BY <1>0, <1>2, <1>3, <1>5, <1>6, <2>1, BoundsAssumption, SMTT(30) DEF Typing
  <1>8. Lock'
    BY <1>0, <1>3, <1>5, <1>6 DEF Lock
  <1>9. last <= Limit /\ b <= last
    BY <1>0 DEF Counted, b
  <1>10. Counted'
    <2>1. last' <= Limit'
      BY <1>0, <1>2, <1>9
    <2>2. \A f \in Bases : \A i \in DOMAIN disk'[f] : f < disk'[f][i] /\ disk'[f][i] <= Limit'
      <3> SUFFICES ASSUME NEW f \in Bases, NEW i \in DOMAIN disk[f]
                   PROVE  f < disk[f][i] /\ disk[f][i] <= Limit'
        BY <1>0
      <3>1. f < disk[f][i] /\ disk[f][i] <= Limit /\ disk[f][i] \in Nat
        BY <1>0, SMTT(30) DEF Counted, Typing
      <3> QED
        BY <1>2, <3>1
    <2>3. \A f \in open' \cup {Last(segments')} : f <= last'
      <3>1. \A f \in open \cup {b} : f <= last /\ f \in Nat
        BY <1>0, <1>2, BasesNat DEF Counted, Typing, b
      <3> QED
        BY <1>0, <1>2, <3>1 DEF b
    <2>4. \A i \in DOMAIN j.seqs : j.base < j.seqs[i] /\ j.seqs[i] <= Limit'
      <3> SUFFICES ASSUME NEW i \in DOMAIN NextSeqs(n) PROVE b < NextSeqs(n)[i] /\ NextSeqs(n)[i] <= Limit'
        BY <1>3
      <3>1. last < NextSeqs(n)[i] /\ NextSeqs(n)[i] <= last + n /\ NextSeqs(n)[i] \in Nat
        BY <1>1
      <3> QED
        BY <1>2, <1>9, <3>1
    <2> QED
      BY <1>0, <1>5, <1>6, <2>1, <2>2, <2>3, <2>4 DEF Counted
  <1>11. Numbers'
    BY <1>0, <1>1, <1>3, <1>5, <1>6 DEF Numbers, UpTo, b
  <1>12. ASSUME Sorted PROVE Sorted'
    <2>1. UpTo(disk[b], last) /\ disk[b] \in Seq(Nat)
      BY <1>0, <1>12 DEF Sorted, b, Typing
    <2>2. UpTo(disk[b], last + n)
      BY <1>2, <2>1 DEF UpTo
    <2>3. Below(disk[b], NextSeqs(n))
      BY <1>1, <1>2, <2>1, SMTT(30) DEF UpTo, Below
    <2> QED
      BY <1>0, <1>3, <1>5, <1>6, <1>12, <2>2, <2>3 DEF Sorted, b
  <1>13. ASSUME Untouched, Answered PROVE (Untouched /\ Answered)'
    <2>1. Untouched'
      BY <1>0, <1>2, <1>13, BasesNat DEF Untouched
    <2>2. UpTo(acks, last) /\ acks \in Seq(Nat)
      BY <1>0, <1>13 DEF Answered, Typing
    <2>3. UpTo(acks, last + n)
      BY <1>2, <2>2 DEF UpTo
    <2>4. Below(acks, NextSeqs(n))
      BY <1>1, <1>2, <2>2 DEF UpTo, Below
    <2> QED
      BY <1>0, <1>3, <1>5, <1>6, <1>13, <2>1, <2>3, <2>4 DEF Answered
  <1>14. ASSUME Gapless PROVE Gapless'
    <2>1. last = Recovered(b)
      BY <1>0, <1>4, <1>14 DEF Gapless, Writing, b
    <2>2. \A f \in Bases : Recovered(f)' = Recovered(f)
      BY <1>0 DEF Recovered
    <2>3. Busy(p)' => Writing'
      BY <1>3, <1>5 DEF Writing
    <2>4. Busy(p)'
      BY <1>3, <1>5, NoJobAssumption DEF Busy
    <2> QED
      BY <1>0, <1>1, <1>3, <1>5, <1>6, <1>14, <2>1, <2>2, <2>3, <2>4 DEF Gapless
  <1> QED
    BY <1>0, <1>7, <1>8, <1>10, <1>11, <1>12, <1>13, <1>14 DEF TopicInv, Apart

\* The append that rolls: the new segment is the last, what its file shows is the
\* last number, and the append itself will fail.
LEMMA RollInv ==
  ASSUME TopicInv, NEW p \in Appenders, NEW n \in 1 .. MaxBatch, AppendRoll(p, n)
  PROVE  TopicInv'
  <1> DEFINE b == Last(segments)
             base == last + n
             j == [gen |-> gen, base |-> b, handle |-> FALSE, seqs |-> NextSeqs(n)]
  <1>0. /\ Typing /\ Lock /\ Counted /\ Numbers /\ live /\ appends < MaxAppends
        /\ appends' = appends + 1 /\ b \in Bases
        /\ segments' = Append(segments, base) /\ last' = SegmentLast(base)
        /\ open' = (open \ {b}) \cup {base} /\ segLast' = [segLast EXCEPT ![base] = SegmentLast(base)]
        /\ job' = [Closed(job, {b}) EXCEPT ![p] = j]
        /\ UNCHANGED <<disk, live, gen, acks, mine, crashes, evicts>>
    BY LastSegment DEF TopicInv, AppendRoll, GetSegment
  <1>1. /\ NextSeqs(n) \in Seq(Nat) /\ NextSeqs(n) # <<>> /\ Increasing(NextSeqs(n))
        /\ \A i \in DOMAIN NextSeqs(n) : last < NextSeqs(n)[i] /\ NextSeqs(n)[i] <= last + n
    BY <1>0, NextSeqsFacts
  <1>2. /\ Limit \in Nat /\ Limit' = Limit + MaxBatch /\ n \in Nat /\ n > 0 /\ n <= MaxBatch
        /\ MaxBatch \in Nat /\ last \in Nat /\ b \in Nat /\ base \in Nat /\ base \in Bases
        /\ last <= Limit /\ b <= last
    <2>1. Limit \in Nat /\ Limit' = Limit + MaxBatch /\ \A x \in Nat : x <= Limit + MaxBatch => x \in Bases
      BY <1>0, LimitGrows
    <2>2. n \in Nat /\ n > 0 /\ n <= MaxBatch /\ MaxBatch \in Nat
      BY BoundsAssumption
    <2>3. last \in Nat /\ b \in Nat /\ last <= Limit /\ b <= last
      BY <1>0, BasesNat DEF Typing, Counted
    <2>4. base \in Nat /\ base <= Limit + MaxBatch
      BY <2>1, <2>2, <2>3
    <2> QED
      BY <2>1, <2>2, <2>3, <2>4
  <1>3. j \in Jobs /\ j.gen = gen /\ j.base = b /\ j.handle = FALSE /\ j.seqs = NextSeqs(n)
    BY <1>0, <1>1 DEF Jobs, Typing
  <1>4. \A q \in Appenders : ~Busy(q)
    BY <1>0, Unlocked DEF AppendRoll
  <1>5. job'[p] = j /\ DOMAIN job' = Appenders /\ \A q \in Appenders : q # p => job'[q] = NoJob
    BY <1>0, <1>4 DEF Closed, Busy
  <1>6. \A q \in Appenders : Busy(q)' => q = p
    BY <1>5 DEF Busy
  <1>7. last' = Recovered(base)
    <2>1. base \notin open
      BY <1>0, <1>2 DEF Counted
    <2> QED
      BY <1>0, <2>1 DEF SegmentLast
  <1>8. Last(segments') = base /\ segments' \in Seq(Bases) /\ segments' # <<>>
    <2>1. segments \in Seq(Bases) /\ segments' = Append(segments, base) /\ base \in Bases
      BY <1>0, <1>2 DEF Typing
    <2> QED
      BY <2>1, Appended
  <1>9. last' \in Nat /\ last' >= base /\ last' <= Limit'
    <2>1. Recovered(base) \in Nat /\ Recovered(base) >= base /\ (Recovered(base) <= Limit \/ Recovered(base) = base)
      BY <1>0, <1>2, RecoveredRange
    <2> QED
      BY <1>2, <1>7, <2>1
  <1> HIDE DEF j, b, base
  <1>10. Typing'
    <2>1. SegmentLast(base) \in Nat
      BY <1>0, <1>9
    <2>2. appends + 1 \in Nat /\ appends + 1 <= MaxAppends
      BY <1>0, BoundsAssumption DEF Typing
    <2> QED
      BY <1>0, <1>2, <1>3, <1>5, <1>6, <1>8, <1>9, <2>1, <2>2 DEF Typing
  <1>11. Lock'
    BY <1>0, <1>3, <1>5, <1>6 DEF Lock
  <1>12. \A i \in DOMAIN NextSeqs(n) : /\ NextSeqs(n)[i] \in Nat /\ b < NextSeqs(n)[i]
                                      /\ NextSeqs(n)[i] <= Limit' /\ NextSeqs(n)[i] <= last'
    <2> SUFFICES ASSUME NEW i \in DOMAIN NextSeqs(n)
                 PROVE  /\ NextSeqs(n)[i] \in Nat /\ b < NextSeqs(n)[i]
                        /\ NextSeqs(n)[i] <= Limit' /\ NextSeqs(n)[i] <= last'
      OBVIOUS
    <2>1. last < NextSeqs(n)[i] /\ NextSeqs(n)[i] <= base /\ NextSeqs(n)[i] \in Nat
      BY <1>1 DEF base
    <2> QED
      BY <1>2, <1>9, <2>1
  <1>13. Counted'
    <2>1. \A f \in Bases : \A i \in DOMAIN disk'[f] : f < disk'[f][i] /\ disk'[f][i] <= Limit'
      <3> SUFFICES ASSUME NEW f \in Bases, NEW i \in DOMAIN disk[f]
                   PROVE  f < disk[f][i] /\ disk[f][i] <= Limit'
        BY <1>0
      <3>1. f < disk[f][i] /\ disk[f][i] <= Limit /\ disk[f][i] \in Nat
        <4>1. f < disk[f][i] /\ disk[f][i] <= Limit
          BY <1>0 DEF Counted
        <4>2. disk[f] \in Seq(Nat)
          BY <1>0 DEF Typing
        <4> QED
          BY <4>1, <4>2
      <3> QED
        BY <1>2, <3>1
    <2>2. \A f \in open' \cup {Last(segments')} : f <= last'
      <3> SUFFICES ASSUME NEW f \in open \cup {base} PROVE f <= last'
        BY <1>0, <1>8
      <3>1. f \in Nat /\ (f <= last \/ f = base)
        BY <1>0, <1>2, BasesNat DEF Counted, Typing
      <3>2. last <= base
        BY <1>2 DEF base
      <3> QED
        BY <1>2, <1>9, <3>1, <3>2
    <2> QED
      BY <1>0, <1>3, <1>5, <1>6, <1>9, <1>12, <2>1, <2>2 DEF Counted
  <1>14. Numbers'
    BY <1>1, <1>3, <1>5, <1>6, <1>12 DEF Numbers, UpTo
  <1>15. \A q \in Appenders : ~(Busy(q)' /\ job'[q].handle)
    BY <1>3, <1>5, <1>6
  <1>16. ASSUME crashes = 0, Untouched PROVE Untouched' /\ disk[base] = <<>>
    <2>1. base > last /\ last' > last
      BY <1>2, <1>9 DEF base
    <2>2. \A f \in Bases : f > last' => f > last
      BY <1>2, <1>9, <2>1, BasesNat
    <2> QED
      BY <1>0, <1>2, <1>16, <2>1, <2>2 DEF Untouched
  <1>17. ASSUME Apart PROVE Sorted'
    <2>1. Sorted
      BY <1>17 DEF TopicInv
    <2>2. disk[base] # <<>> => disk[base][1] = base + 1
      <3>1. CASE crashes = 0
        BY <1>16, <3>1 DEF TopicInv
      <3>2. CASE evicts = 0
        BY <1>2, <3>2 DEF TopicInv, Gapless
      <3> QED
        BY <1>17, <3>1, <3>2 DEF Apart
    <2>3. UpTo(disk[base], last')
      BY <1>0, <1>2, <1>7, <2>1, <2>2, RecoveredTop DEF Sorted
    <2> QED
      BY <1>0, <1>8, <1>15, <2>1, <2>3 DEF Sorted
  <1>18. ASSUME Answered PROVE Answered'
    <2>1. acks \in Seq(Nat) /\ UpTo(acks, last)
      BY <1>0, <1>18 DEF Answered, Typing
    <2>2. last <= last'
      BY <1>2, <1>9 DEF base
    <2>3. UpTo(acks, last')
      BY <1>2, <1>9, <2>1, <2>2 DEF UpTo
    <2> QED
      BY <1>0, <1>15, <1>18, <2>3 DEF Answered
  <1>19. ASSUME Gapless PROVE Gapless'
    <2>1. \A f \in Bases : Recovered(f)' = Recovered(f)
      BY <1>0 DEF Recovered
    <2> QED
      BY <1>0, <1>2, <1>7, <1>8, <1>15, <1>19, <2>1 DEF Gapless
  <1> QED
    BY <1>0, <1>10, <1>11, <1>13, <1>14, <1>16, <1>17, <1>18, <1>19 DEF TopicInv, Apart

-----------------------------------------------------------------------------
\* A file takes numbers w.
LEMMA FileGrows ==
  ASSUME Typing, NEW b \in Bases, NEW w \in Seq(Nat), disk' = [disk EXCEPT ![b] = @ \o w]
  PROVE  /\ disk' \in [Bases -> Seq(Nat)] /\ disk'[b] = disk[b] \o w
         /\ \A f \in Bases : f # b => disk'[f] = disk[f]
         /\ disk[b] \in Seq(Nat)
  <1>1. disk[b] \in Seq(Nat) /\ disk \in [Bases -> Seq(Nat)]
    BY DEF Typing
  <1>2. disk[b] \o w \in Seq(Nat)
    BY <1>1, Joined
  <1> QED
    BY <1>1, <1>2

\* What a file has of the numbers of an append, all or the first ones: they are within
\* the bounds,
LEMMA WrittenCounted ==
  ASSUME Typing, Counted, NEW p \in Appenders, Busy(p), NEW w \in Seq(Nat),
         \A i \in DOMAIN w : i \in DOMAIN job[p].seqs /\ w[i] = job[p].seqs[i],
         disk' = [disk EXCEPT ![job[p].base] = @ \o w]
  PROVE  \A b \in Bases : \A i \in DOMAIN disk'[b] : b < disk'[b][i] /\ disk'[b][i] <= Limit
  <1> DEFINE f == job[p].base
  <1>0. f \in Bases
    BY DEF Typing, Jobs
  <1>1. /\ disk'[f] = disk[f] \o w /\ disk[f] \in Seq(Nat)
        /\ \A b \in Bases : b # f => disk'[b] = disk[b]
    BY <1>0, FileGrows
  <1>2. \A i \in DOMAIN w : f < w[i] /\ w[i] <= Limit
    BY DEF Counted
  <1> HIDE DEF f
  <1>3. \A i \in DOMAIN disk'[f] : f < disk'[f][i] /\ disk'[f][i] <= Limit
    <2> SUFFICES ASSUME NEW i \in DOMAIN (disk[f] \o w)
                 PROVE  f < (disk[f] \o w)[i] /\ (disk[f] \o w)[i] <= Limit
      BY <1>1
    <2>1. CASE i <= Len(disk[f])
      <3>1. i \in DOMAIN disk[f]
        BY <1>1, <2>1, Joined
      <3> QED
        BY <1>0, <1>1, <3>1, Joined DEF Counted
    <2>2. CASE i > Len(disk[f])
      BY <1>1, <1>2, <2>2, Joined
    <2>3. i \in Nat /\ Len(disk[f]) \in Nat
      BY <1>1, Joined
    <2> QED
      BY <2>1, <2>2, <2>3
  <1> QED
    BY <1>1, <1>3 DEF Counted

\* the file stays in order,
LEMMA WrittenSorted ==
  ASSUME Typing, Numbers, Sorted, NEW p \in Appenders, Busy(p), job[p].handle, NEW w \in Seq(Nat),
         \A i \in DOMAIN w : i \in DOMAIN job[p].seqs /\ w[i] = job[p].seqs[i],
         disk' = [disk EXCEPT ![job[p].base] = @ \o w]
  PROVE  \A b \in Bases : Increasing(disk'[b])
  <1> DEFINE f == job[p].base
  <1>0. f \in Bases
    BY DEF Typing, Jobs
  <1>1. /\ disk'[f] = disk[f] \o w /\ disk[f] \in Seq(Nat)
        /\ \A b \in Bases : b # f => disk'[b] = disk[b]
    BY <1>0, FileGrows
  <1>2. Increasing(w)
    BY DEF Numbers, Increasing
  <1>3. Below(disk[f], w)
    BY DEF Sorted, Below
  <1>4. Increasing(disk[f])
    BY <1>0 DEF Sorted
  <1> HIDE DEF f
  <1>5. Increasing(disk'[f])
    BY <1>1, <1>2, <1>3, <1>4, JoinedIncreasing
  <1> QED
    BY <1>1, <1>5 DEF Sorted

\* and begins after its base.
LEMMA WrittenFirst ==
  ASSUME Typing, Gapless, NEW p \in Appenders, Busy(p), job[p].handle, NEW w \in Seq(Nat),
         \A i \in DOMAIN w : i \in DOMAIN job[p].seqs /\ w[i] = job[p].seqs[i],
         disk' = [disk EXCEPT ![job[p].base] = @ \o w]
  PROVE  \A b \in Bases : disk'[b] # <<>> => disk'[b][1] = b + 1
  <1> DEFINE f == job[p].base
  <1>0. f \in Bases
    BY DEF Typing, Jobs
  <1>1. /\ disk'[f] = disk[f] \o w /\ disk[f] \in Seq(Nat)
        /\ \A b \in Bases : b # f => disk'[b] = disk[b]
    BY <1>0, FileGrows
  <1>2. job[p].seqs[1] = Recovered(f) + 1
    BY DEF Gapless
  <1> HIDE DEF f
  <1>3. ASSUME disk'[f] # <<>> PROVE disk'[f][1] = f + 1
    <2>1. CASE disk[f] = <<>>
      <3>1. disk'[f] = w
        BY <1>1, <2>1
      <3>2. 1 \in DOMAIN w
        BY <1>3, <3>1
      <3>3. Recovered(f) = f
        BY <2>1 DEF Recovered
      <3> QED
        BY <1>2, <3>1, <3>2, <3>3
    <2>2. CASE disk[f] # <<>>
      <3>1. 1 \in DOMAIN disk[f]
        BY <1>1, <2>2
      <3>2. disk[f][1] = f + 1
        BY <1>0, <2>2 DEF Gapless
      <3> QED
        BY <1>1, <3>1, <3>2, Joined
    <2> QED
      BY <2>1, <2>2
  <1> QED
    BY <1>1, <1>3 DEF Gapless

\* The write of an append that can be written.
LEMMA StoredInv ==
  ASSUME TopicInv, NEW p \in Appenders, AppendStored(p)
  PROVE  TopicInv'
  <1> DEFINE f == job[p].base
             w == job[p].seqs
  <1>0. /\ Typing /\ Lock /\ Counted /\ Numbers /\ Busy(p) /\ job[p].handle
        /\ disk' = [disk EXCEPT ![f] = @ \o w] /\ acks' = acks \o w
        /\ job' = [job EXCEPT ![p] = NoJob]
        /\ UNCHANGED <<live, gen, segments, last, open, segLast, appends, crashes, evicts>>
    BY DEF TopicInv, AppendStored, Busy
  <1>1. /\ f \in Bases /\ w \in Seq(Nat) /\ w # <<>> /\ live /\ f = Last(segments)
        /\ acks \in Seq(Nat) /\ disk[f] \in Seq(Nat) /\ Increasing(w) /\ UpTo(w, last)
    BY <1>0 DEF Typing, Jobs, Numbers, Lock
  <1>2. \A q \in Appenders : ~Busy(q)' /\ job'[q] = NoJob
    BY <1>0 DEF Lock, Busy, Typing
  <1>3. DOMAIN job' = Appenders
    BY <1>0 DEF Typing
  <1>4. Limit' = Limit /\ Limit \in Nat
    BY <1>0, LimitStays
  <1>5. \A i \in DOMAIN w : i \in DOMAIN job[p].seqs /\ w[i] = job[p].seqs[i]
    OBVIOUS
  <1>6. /\ disk' \in [Bases -> Seq(Nat)] /\ disk'[f] = disk[f] \o w
        /\ \A b \in Bases : b # f => disk'[b] = disk[b]
    BY <1>0, <1>1, FileGrows
  <1>7. acks \o w \in Seq(Nat)
    BY <1>1, Joined
  <1>8. Typing'
    BY <1>0, <1>2, <1>3, <1>6, <1>7 DEF Typing
  <1>9. Lock' /\ Numbers'
    BY <1>2 DEF Lock, Numbers
  <1>10. Counted'
    <2>1. \A b \in Bases : \A i \in DOMAIN disk'[b] : b < disk'[b][i] /\ disk'[b][i] <= Limit
      BY <1>0, <1>1, <1>5, WrittenCounted
    <2> QED
      BY <1>0, <1>2, <1>4, <2>1 DEF Counted
  <1>11. ASSUME Sorted PROVE Sorted'
    <2>1. \A b \in Bases : Increasing(disk'[b])
      BY <1>0, <1>1, <1>5, <1>11, WrittenSorted
    <2>2. UpTo(disk[f], last)
      BY <1>1, <1>11 DEF Sorted
    <2>3. UpTo(disk'[f], last)
      BY <1>1, <1>6, <2>2, JoinedUpTo
    <2> QED
      BY <1>0, <1>1, <1>2, <2>1, <2>3 DEF Sorted
  <1>12. ASSUME Untouched, Answered PROVE (Untouched /\ Answered)'
    <2>1. ~(f > last)
      <3>1. f <= last
        BY <1>0, <1>1 DEF Counted
      <3>2. f \in Nat /\ last \in Nat
        BY <1>0, <1>1, BasesNat DEF Typing
      <3> QED
        BY <3>1, <3>2
    <2>2. Untouched'
      BY <1>0, <1>1, <1>6, <1>12, <2>1 DEF Untouched
    <2>3. Increasing(acks) /\ UpTo(acks, last) /\ Below(acks, w)
      BY <1>0, <1>12 DEF Answered
    <2>4. Increasing(acks \o w)
      BY <1>1, <2>3, JoinedIncreasing
    <2>5. UpTo(acks \o w, last)
      BY <1>1, <2>3, JoinedUpTo
    <2> QED
      BY <1>0, <1>2, <2>2, <2>4, <2>5 DEF Answered
  <1>13. ASSUME Gapless PROVE Gapless'
    <2>1. \A b \in Bases : disk'[b] # <<>> => disk'[b][1] = b + 1
      BY <1>0, <1>1, <1>5, <1>13, WrittenFirst
    <2>2. w[1] = Recovered(f) + 1 /\ last = Last(w)
      BY <1>0, <1>13 DEF Gapless
    <2>3. /\ Len(disk'[f]) = Len(disk[f]) + Len(w) /\ Len(disk[f]) \in Nat /\ Len(w) \in Nat /\ Len(w) > 0
          /\ Len(w) \in DOMAIN w
      BY <1>1, <1>6, Joined
    <2>4. Last(disk'[f]) = last
      <3>1. (disk[f] \o w)[Len(disk[f]) + Len(w)] = w[Len(w)]
        BY <1>1, <2>3, Joined
      <3> QED
        BY <1>6, <2>2, <2>3, <3>1 DEF Last
    <2>5. disk'[f] # <<>> /\ disk'[f] \in Seq(Nat)
      BY <1>1, <1>6, <2>3
    <2>6. PICK g \in Bases : g = f
      BY <1>1
    <2>7. Recovered(g)' = last
      <3>1. CASE Len(disk'[g]) = 1
        <4>1. Recovered(g)' = g + 1
          BY <2>5, <2>6, <3>1 DEF Recovered
        <4>2. Last(disk'[g]) = disk'[g][1]
          BY <3>1 DEF Last
        <4> QED
          BY <2>1, <2>4, <2>5, <2>6, <4>1, <4>2
      <3>2. CASE Len(disk'[g]) # 1
        BY <2>4, <2>5, <2>6, <3>2 DEF Recovered
      <3> QED
        BY <3>1, <3>2
    <2>8. Last(segments') = g
      BY <1>0, <1>1, <2>6
    <2>9. Recovered(Last(segments))' = Recovered(g)'
      BY <2>8 DEF Recovered
    <2> QED
      BY <1>0, <1>2, <2>1, <2>7, <2>9 DEF Gapless
  <1> QED
    BY <1>0, <1>8, <1>9, <1>10, <1>11, <1>12, <1>13 DEF TopicInv, Apart

\* The append that cannot be written.
LEMMA FailedInv ==
  ASSUME TopicInv, NEW p \in Appenders, AppendFailed(p)
  PROVE  TopicInv'
  <1>0. /\ Typing /\ Lock /\ Counted /\ Numbers /\ Busy(p) /\ ~job[p].handle
        /\ job' = [job EXCEPT ![p] = NoJob]
        /\ UNCHANGED <<disk, acks, live, gen, segments, last, open, segLast, appends, crashes, evicts>>
    BY DEF TopicInv, AppendFailed, Busy
  <1>1. \A q \in Appenders : ~Busy(q)' /\ job'[q] = NoJob /\ (Busy(q) => q = p)
    BY <1>0 DEF Lock, Busy, Typing
  <1>2. DOMAIN job' = Appenders
    BY <1>0 DEF Typing
  <1>3. Limit' = Limit
    BY <1>0, LimitStays
  <1>4. Typing'
    BY <1>0, <1>1, <1>2 DEF Typing
  <1>5. Lock' /\ Numbers' /\ Counted'
    BY <1>0, <1>1, <1>3 DEF Lock, Numbers, Counted
  <1>6. Sorted => Sorted'
    BY <1>0, <1>1 DEF Sorted
  <1>7. Untouched /\ Answered => Untouched' /\ Answered'
    BY <1>0, <1>1 DEF Untouched, Answered
  <1>8. Gapless => Gapless'
    <2>1. ~Writing
      BY <1>0, <1>1 DEF Writing
    <2>2. \A b \in Bases : Recovered(b)' = Recovered(b)
      BY <1>0 DEF Recovered
    <2>3. live => Last(segments) \in Bases
      BY <1>0, LastSegment
    <2> QED
      BY <1>0, <1>1, <2>1, <2>2, <2>3 DEF Gapless
  <1> QED
    BY <1>0, <1>4, <1>5, <1>6, <1>7, <1>8 DEF TopicInv, Apart

-----------------------------------------------------------------------------
\* A segment is evicted: its appends fail, the others go on.
LEMMA EvictInv ==
  ASSUME TopicInv, NEW b \in Bases, EvictSegment(b)
  PROVE  TopicInv'
  <1>0. /\ Typing /\ Lock /\ Counted /\ Numbers
        /\ open' = open \ {b} /\ job' = Closed(job, {b}) /\ evicts' = evicts + 1
        /\ UNCHANGED <<disk, acks, live, gen, segments, last, segLast, appends, crashes>>
    BY DEF TopicInv, EvictSegment
  <1>1. DOMAIN job' = Appenders
    BY <1>0 DEF Closed
  <1>2. \A q \in Appenders : Busy(q)' => Busy(q)
    BY <1>0 DEF Closed, Busy
  <1>3. ASSUME NEW q \in Appenders, Busy(q)
        PROVE  /\ job'[q] \in Jobs /\ job'[q].gen = job[q].gen /\ job'[q].base = job[q].base
               /\ job'[q].seqs = job[q].seqs /\ (job'[q].handle => job[q].handle)
    <2>1. job[q] \in Jobs
      BY <1>0, <1>3 DEF Typing
    <2>2. job'[q] = job[q] \/ job'[q] = [job[q] EXCEPT !.handle = FALSE]
      BY <1>0 DEF Closed
    <2> QED
      BY <2>1, <2>2 DEF Jobs
  <1>4. Limit' = Limit
    BY <1>0, LimitStays
  <1>5. Typing'
    <2>1. evicts + 1 \in Nat
      BY <1>0 DEF Typing
    <2>2. \A q \in Appenders : Busy(q)' => job'[q] \in Jobs
      BY <1>2, <1>3
    <2> QED
      BY <1>0, <1>1, <2>1, <2>2 DEF Typing
  <1>6. Lock'
    BY <1>0, <1>2, <1>3 DEF Lock
  <1>7. Numbers'
    BY <1>0, <1>2, <1>3 DEF Numbers
  <1>8. Counted'
    BY <1>0, <1>2, <1>3, <1>4 DEF Counted
  <1>9. Sorted => Sorted'
    BY <1>0, <1>2, <1>3 DEF Sorted
  <1>10. Untouched /\ Answered => Untouched' /\ Answered'
    BY <1>0, <1>2, <1>3 DEF Untouched, Answered
  <1>11. evicts' # 0
    BY <1>0 DEF Typing
  <1> QED
    BY <1>0, <1>5, <1>6, <1>7, <1>8, <1>9, <1>10, <1>11 DEF TopicInv, Apart

\* The server ends, and a file may have the first numbers of an append.
LEMMA CrashInv == ASSUME TopicInv, Crash PROVE TopicInv'
  <1>0. /\ Typing /\ Lock /\ Counted /\ Numbers
        /\ live' = FALSE /\ open' = {} /\ job' = [p \in Appenders |-> NoJob] /\ crashes' = crashes + 1
        /\ UNCHANGED <<acks, gen, segments, last, segLast, appends, evicts>>
    BY DEF TopicInv, Crash
  <1>1. \A q \in Appenders : ~Busy(q)'
    BY <1>0 DEF Busy
  <1>2. Limit' = Limit
    BY <1>0, LimitStays
  <1>3. crashes' # 0 /\ crashes' \in Nat
    BY <1>0 DEF Typing
  <1>4. /\ disk' \in [Bases -> Seq(Nat)]
        /\ \A b \in Bases : \A i \in DOMAIN disk'[b] : b < disk'[b][i] /\ disk'[b][i] <= Limit
        /\ Sorted => \A b \in Bases : Increasing(disk'[b])
        /\ Gapless => \A b \in Bases : disk'[b] # <<>> => disk'[b][1] = b + 1
    <2>1. CASE UNCHANGED disk
      BY <1>0, <2>1 DEF Typing, Counted, Sorted, Gapless
    <2>2. ASSUME NEW p \in Appenders, Busy(p), job[p].handle, NEW w \in Written(job[p]),
                 disk' = [disk EXCEPT ![job[p].base] = @ \o w]
          PROVE  /\ disk' \in [Bases -> Seq(Nat)]
                 /\ \A b \in Bases : \A i \in DOMAIN disk'[b] : b < disk'[b][i] /\ disk'[b][i] <= Limit
                 /\ Sorted => \A b \in Bases : Increasing(disk'[b])
                 /\ Gapless => \A b \in Bases : disk'[b] # <<>> => disk'[b][1] = b + 1
      <3>1. job[p].seqs \in Seq(Nat) /\ job[p].base \in Bases
        BY <1>0, <2>2 DEF Typing, Jobs
      <3>2. w \in Seq(Nat) /\ \A i \in DOMAIN w : i \in DOMAIN job[p].seqs /\ w[i] = job[p].seqs[i]
        <4>1. PICK k \in 0 .. Len(job[p].seqs) : w = SubSeq(job[p].seqs, 1, k)
          BY <2>2 DEF Written
        <4> QED
          BY <3>1, <4>1, Begins
      <3>3. disk' \in [Bases -> Seq(Nat)]
        BY <1>0, <2>2, <3>1, <3>2, FileGrows
      <3> QED
        BY <1>0, <2>2, <3>2, <3>3, WrittenCounted, WrittenSorted, WrittenFirst, ZenonT(60)
    <2> QED
      BY <2>1, <2>2 DEF Crash, Busy
  <1>5. Typing'
    BY <1>0, <1>1, <1>3, <1>4 DEF Typing
  <1>6. Lock' /\ Numbers'
    BY <1>1 DEF Lock, Numbers
  <1>7. Counted'
    BY <1>0, <1>1, <1>2, <1>4 DEF Counted
  <1>8. Sorted => Sorted'
    BY <1>0, <1>1, <1>4 DEF Sorted
  <1>9. Gapless => Gapless'
    BY <1>0, <1>1, <1>4 DEF Gapless
  <1>10. Apart' => Apart
    BY <1>0, <1>3 DEF Apart
  <1> QED
    BY <1>0, <1>3, <1>5, <1>6, <1>7, <1>8, <1>9, <1>10 DEF TopicInv

\* A topic object is made: it goes on with the first segment.
LEMMA NewTopicInv == ASSUME TopicInv, NewTopic PROVE TopicInv'
  <1>0. /\ Typing /\ Lock /\ Counted /\ Numbers /\ ~live
        /\ live' = TRUE /\ gen' = gen + 1 /\ segments' = <<0>> /\ Last(segments') = 0
        /\ last' = SegmentLast(0) /\ open' = (open \ {}) \cup {0}
        /\ segLast' = [segLast EXCEPT ![0] = SegmentLast(0)]
        /\ UNCHANGED <<disk, job, acks, appends, crashes, evicts>>
    BY DEF TopicInv, NewTopic, GetSegment, ListedSegments, Last
  <1>1. \A q \in Appenders : ~Busy(q) /\ ~Busy(q)'
    BY <1>0 DEF Lock, Busy
  <1>2. Limit' = Limit /\ Limit \in Nat /\ 0 \in Bases
    BY <1>0, LimitStays, BasesNat
  <1>3. open = {} /\ last' = Recovered(0)
    BY <1>0 DEF Counted, SegmentLast
  <1>4. Recovered(0) \in Nat /\ Recovered(0) <= Limit
    BY <1>0, <1>2, RecoveredRange
  <1>5. Typing'
    BY <1>0, <1>1, <1>2, <1>3, <1>4 DEF Typing
  <1>6. Lock' /\ Numbers'
    BY <1>1 DEF Lock, Numbers
  <1>7. Counted'
    BY <1>0, <1>1, <1>2, <1>3, <1>4 DEF Counted
  <1>8. ASSUME Apart PROVE Sorted'
    <2>1. Sorted
      BY <1>8 DEF TopicInv
    <2>2. disk[0] # <<>> => disk[0][1] = 0 + 1
      <3>1. CASE crashes = 0
        BY <1>0, <1>2, <3>1 DEF TopicInv, Untouched
      <3>2. CASE evicts = 0
        BY <1>2, <3>2 DEF TopicInv, Gapless
      <3> QED
        BY <1>8, <3>1, <3>2 DEF Apart
    <2>3. UpTo(disk[0], last')
      BY <1>0, <1>2, <1>3, <2>1, <2>2, RecoveredTop DEF Sorted
    <2> QED
      BY <1>0, <1>1, <2>1, <2>3 DEF Sorted
  <1>9. ASSUME Untouched, Answered PROVE (Untouched /\ Answered)'
    <2>1. acks = <<>> /\ \A b \in Bases : disk[b] = <<>>
      BY <1>0, <1>9 DEF Untouched
    <2> QED
      BY <1>0, <1>1, <2>1 DEF Untouched, Answered, Increasing, UpTo
  <1>10. Gapless => Gapless'
    <2>1. Recovered(0)' = Recovered(0)
      BY <1>0 DEF Recovered
    <2> QED
      BY <1>0, <1>1, <1>3, <2>1 DEF Gapless
  <1> QED
    BY <1>0, <1>5, <1>6, <1>7, <1>8, <1>9, <1>10 DEF TopicInv, Apart

\* The invariant holds initially,
LEMMA InitInv == Init => TopicInv
  <1> SUFFICES ASSUME Init PROVE TopicInv
    OBVIOUS
  <1>1. \A q \in Appenders : ~Busy(q)
    BY DEF Init, Busy
  <1>2. \A b \in Bases : disk[b] = <<>>
    BY DEF Init
  <1>3. Typing
    <2>1. MaxAppends \in Nat
      BY BoundsAssumption
    <2>2. /\ disk \in [Bases -> Seq(Nat)] /\ segments \in Seq(Bases) /\ acks \in Seq(Nat)
          /\ segLast \in [Bases -> Nat] /\ DOMAIN job = Appenders /\ open \subseteq Bases
      BY DEF Init
    <2>3. live = FALSE /\ gen = 0 /\ last = 0 /\ appends = 0 /\ crashes = 0 /\ evicts = 0
      BY DEF Init
    <2>4. live \in BOOLEAN
      BY <2>3
    <2> QED
      BY <1>1, <2>1, <2>2, <2>3, <2>4 DEF Typing
  <1>4. Limit \in Nat /\ last <= Limit
    <2>1. Limit \in Nat /\ last = 0
      BY <1>3, BoundsAssumption, Product DEF Limit, Typing, Init
    <2> QED
      BY <2>1
  <1>5. Lock /\ Numbers /\ Counted
    BY <1>1, <1>2, <1>4 DEF Lock, Numbers, Counted, Init
  <1>6. Sorted /\ Untouched /\ Answered /\ Gapless
    BY <1>1, <1>2 DEF Sorted, Untouched, Answered, Gapless, Increasing, UpTo, Init
  <1> QED
    BY <1>3, <1>5, <1>6 DEF TopicInv

\* and every step keeps it.
LEMMA NextInv == TopicInv /\ [Next]_vars => TopicInv'
  <1> SUFFICES ASSUME TopicInv, [Next]_vars PROVE TopicInv'
    OBVIOUS
  <1>1. CASE UNCHANGED vars
    <2>1. Limit' = Limit /\ Writing' = Writing /\ \A b \in Bases : Recovered(b)' = Recovered(b)
      BY <1>1 DEF vars, Limit, Writing, Busy, Recovered
    <2>2. live => Last(segments) \in Bases
      BY LastSegment DEF TopicInv
    <2>3. \A p \in Appenders : Busy(p) => job[p].base \in Bases
      BY DEF TopicInv, Typing, Jobs
    <2> QED
      BY <1>1, <2>1, <2>2, <2>3, SMTT(30)
         DEF vars, TopicInv, Typing, Lock, Counted, Numbers, Sorted, Untouched, Answered, Gapless, Apart, Busy
  <1>2. CASE NewTopic \/ Crash
    BY <1>2, NewTopicInv, CrashInv
  <1>3. ASSUME NEW p \in Appenders, NEW n \in 1 .. MaxBatch, AppendStart(p, n) \/ AppendRoll(p, n) PROVE TopicInv'
    BY <1>3, StartInv, RollInv
  <1>4. ASSUME NEW p \in Appenders, AppendStored(p) \/ AppendFailed(p) PROVE TopicInv'
    BY <1>4, StoredInv, FailedInv
  <1>5. ASSUME NEW b \in Bases, EvictSegment(b) PROVE TopicInv'
    BY <1>5, EvictInv
  <1> QED
    BY <1>1, <1>2, <1>3, <1>4, <1>5 DEF Next

\* Each file holds increasing numbers above its base, for any number of
\* goroutines, appends and sizes, through rolls, failed appends and either restarts
\* or evictions (segment.go, topic.go).
THEOREM FilesCorrect == Spec => []FileSorted
  <1>1. TopicInv => FileSorted
    BY DEF TopicInv, FileSorted, Sorted, Counted
  <1> QED
    BY InitInv, NextInv, <1>1, PTL DEF Spec

\* Until a restart, the numbers returned to senders increase, for any number of
\* goroutines, appends, rolls and evictions (topic.go appendMessages).
THEOREM NumbersCorrect == Spec => []SeqIncreasing
  <1>1. TopicInv => SeqIncreasing
    BY DEF TopicInv, SeqIncreasing, Answered
  <1> QED
    BY InitInv, NextInv, <1>1, PTL DEF Spec

-----------------------------------------------------------------------------
\* Copies of what was returned.  A number stands in a file or in none.
LEMMA CopyOf ==
  ASSUME NEW d, NEW x, NEW c
  PROVE  c \in Copies(d, x) <=> \E b \in Bases : \E i \in Places(d[b], x) : c = <<b, i>>
  BY DEF Copies

\* A batch has a number once, so it takes one more place, or none.
LEMMA PlacesGrow ==
  ASSUME NEW s \in Seq(Nat), NEW t \in Seq(Nat), Increasing(t), NEW x
  PROVE  /\ Places(t, x) = {} => Places(s \o t, x) = Places(s, x)
         /\ \A k \in Places(t, x) : /\ Places(s \o t, x) = Places(s, x) \cup {Len(s) + k}
                                    /\ Len(s) + k \notin Places(s, x)
  <1>1. \A i \in DOMAIN (s \o t) : i <= Len(s) => i \in DOMAIN s
    BY Joined
  <1>2. \A i \in DOMAIN s : i \in DOMAIN (s \o t) /\ i <= Len(s) /\ i \in Nat
    BY Joined
  <1>3. Len(s) \in Nat /\ DOMAIN (s \o t) \subseteq Nat /\ DOMAIN t \subseteq Nat \ {0}
    BY Joined
  <1>4. ASSUME NEW i \in DOMAIN (s \o t)
        PROVE  i \in Places(s \o t, x) <=> i \in Places(s, x) \/ \E k \in Places(t, x) : i = Len(s) + k
    <2>1. CASE i <= Len(s)
      BY <1>1, <1>3, <2>1, Joined DEF Places
    <2>2. CASE i > Len(s)
      <3>1. i \notin Places(s, x)
        BY <1>2, <1>3, <2>2 DEF Places
      <3>2. i - Len(s) \in DOMAIN t /\ (s \o t)[i] = t[i - Len(s)] /\ i = Len(s) + (i - Len(s))
        BY <1>3, <2>2, Joined
      <3>3. \A k \in DOMAIN t : i = Len(s) + k => k = i - Len(s)
        BY <1>3
      <3> QED
        BY <3>1, <3>2, <3>3 DEF Places
    <2> QED
      BY <1>3, <2>1, <2>2
  <1>5. Places(s \o t, x) \subseteq DOMAIN (s \o t) /\ Places(s, x) \subseteq DOMAIN (s \o t)
        /\ \A k \in Places(t, x) : Len(s) + k \in DOMAIN (s \o t)
    BY <1>2, Joined DEF Places
  <1>6. ASSUME Places(t, x) = {} PROVE Places(s \o t, x) = Places(s, x)
    BY <1>4, <1>5, <1>6
  <1>7. ASSUME NEW k \in Places(t, x)
        PROVE  /\ Places(s \o t, x) = Places(s, x) \cup {Len(s) + k}
               /\ Len(s) + k \notin Places(s, x)
    <2>1. \A m \in Places(t, x) : m = k
      <3> SUFFICES ASSUME NEW m \in Places(t, x) PROVE m = k
        OBVIOUS
      <3>1. m \in DOMAIN t /\ k \in DOMAIN t /\ t[m] = x /\ t[k] = x /\ m \in Nat /\ k \in Nat /\ x \in Nat
        BY <1>3 DEF Places
      <3>2. ~(m < k) /\ ~(k < m)
        BY <3>1 DEF Increasing
      <3> QED
        BY <3>1, <3>2
    <2>2. k \in Nat /\ k > 0
      BY <1>3 DEF Places
    <2>3. Len(s) + k \notin Places(s, x)
      BY <1>2, <1>3, <2>2 DEF Places
    <2> QED
      BY <1>4, <1>5, <2>1, <2>3
  <1> QED
    BY <1>6, <1>7

\* The same of the files when one of them takes the batch.
LEMMA CopiesGrow ==
  ASSUME NEW d, NEW e, NEW b \in Bases, NEW x, \A f \in Bases : f # b => e[f] = d[f]
  PROVE  /\ Places(e[b], x) = Places(d[b], x) => Copies(e, x) = Copies(d, x)
         /\ \A m : Places(e[b], x) = Places(d[b], x) \cup {m} /\ m \notin Places(d[b], x)
                     => /\ Copies(e, x) = Copies(d, x) \cup {<<b, m>>}
                        /\ <<b, m>> \notin Copies(d, x)
  <1>1. ASSUME Places(e[b], x) = Places(d[b], x) PROVE Copies(e, x) = Copies(d, x)
    <2>1. \A f \in Bases : Places(e[f], x) = Places(d[f], x)
      BY <1>1
    <2> QED
      BY <2>1 DEF Copies
  <1>2. ASSUME NEW m, Places(e[b], x) = Places(d[b], x) \cup {m}, m \notin Places(d[b], x)
        PROVE  /\ Copies(e, x) = Copies(d, x) \cup {<<b, m>>} /\ <<b, m>> \notin Copies(d, x)
    <2>1. \A c : c \in Copies(e, x) <=> c \in Copies(d, x) \cup {<<b, m>>}
      <3> TAKE c
      <3>1. ASSUME c \in Copies(e, x) PROVE c \in Copies(d, x) \cup {<<b, m>>}
        <4>1. PICK f \in Bases : \E i \in Places(e[f], x) : c = <<f, i>>
          BY <3>1, CopyOf
        <4>2. CASE f # b
          BY <4>1, <4>2, CopyOf
        <4>3. CASE f = b
          BY <1>2, <4>1, <4>3, CopyOf
        <4> QED
          BY <4>2, <4>3
      <3>2. ASSUME c \in Copies(d, x) PROVE c \in Copies(e, x)
        <4>1. PICK f \in Bases : \E i \in Places(d[f], x) : c = <<f, i>>
          BY <3>2, CopyOf
        <4>2. CASE f # b
          BY <4>1, <4>2, CopyOf
        <4>3. CASE f = b
          BY <1>2, <4>1, <4>3, CopyOf
        <4> QED
          BY <4>2, <4>3
      <3>3. <<b, m>> \in Copies(e, x)
        BY <1>2, CopyOf
      <3> QED
        BY <3>1, <3>2, <3>3
    <2>2. <<b, m>> \notin Copies(d, x)
      BY <1>2, CopyOf
    <2> QED
      BY <2>1, <2>2
  <1> QED
    BY <1>1, <1>2

\* Number x has at least as many copies in files d as it has places in s.
BackedBy(d, s, x) ==
  /\ IsFiniteSet(Places(s, x)) /\ IsFiniteSet(Copies(d, x))
  /\ Cardinality(Places(s, x)) <= Cardinality(Copies(d, x))

Backed(x) == BackedBy(disk, acks, x)

\* It stays so when a batch is written and returned, or written in part.
LEMMA BackedByMore ==
  ASSUME NEW d \in [Bases -> Seq(Nat)], NEW e, NEW s \in Seq(Nat), NEW z, NEW b \in Bases,
         NEW w \in Seq(Nat), Increasing(w), NEW x, BackedBy(d, s, x),
         e[b] = d[b] \o w, \A f \in Bases : f # b => e[f] = d[f], z = s \o w \/ z = s
  PROVE  BackedBy(e, z, x)
  <1> DEFINE A == Places(s, x)
             C == Copies(d, x)
             F == Places(d[b], x)
  <1>1. IsFiniteSet(A) /\ IsFiniteSet(C) /\ Cardinality(A) <= Cardinality(C)
        /\ Cardinality(A) \in Nat /\ Cardinality(C) \in Nat
    BY FS_CardinalityType DEF BackedBy
  <1>2. /\ Places(e[b], x) = F => Copies(e, x) = C
        /\ \A m : Places(e[b], x) = F \cup {m} /\ m \notin F
                     => Copies(e, x) = C \cup {<<b, m>>} /\ <<b, m>> \notin C
    BY CopiesGrow
  <1>3. /\ Places(w, x) = {} => Places(s \o w, x) = A
        /\ \A k \in Places(w, x) : Places(s \o w, x) = A \cup {Len(s) + k} /\ Len(s) + k \notin A
    BY PlacesGrow
  <1>4. /\ Places(w, x) = {} => Places(d[b] \o w, x) = F
        /\ \A k \in Places(w, x) : /\ Places(d[b] \o w, x) = F \cup {Len(d[b]) + k}
                                   /\ Len(d[b]) + k \notin F
    <2>1. d[b] \in Seq(Nat)
      OBVIOUS
    <2> QED
      BY <2>1, PlacesGrow
  <1> HIDE DEF A, C, F
  <1>5. CASE Places(w, x) = {}
    <2>1. Places(z, x) = A
      BY <1>3, <1>5 DEF A
    <2>2. Copies(e, x) = C
      BY <1>2, <1>4, <1>5
    <2> QED
      BY <1>1, <2>1, <2>2 DEF BackedBy
  <1>6. ASSUME NEW k \in Places(w, x) PROVE BackedBy(e, z, x)
    <2>1. Places(z, x) = A \/ (Places(z, x) = A \cup {Len(s) + k} /\ Len(s) + k \notin A)
      BY <1>3 DEF A
    <2>2. PICK c : Copies(e, x) = C \cup {c} /\ c \notin C
      <3>1. Places(e[b], x) = F \cup {Len(d[b]) + k} /\ Len(d[b]) + k \notin F
        BY <1>4
      <3> QED
        BY <1>2, <3>1
    <2>3. IsFiniteSet(Copies(e, x)) /\ Cardinality(Copies(e, x)) = Cardinality(C) + 1
      <3>1. IsFiniteSet(C \cup {c}) /\ Cardinality(C \cup {c}) = Cardinality(C) + 1
        BY <1>1, <2>2, FS_AddElement
      <3> QED
        BY <2>2, <3>1
    <2>4. IsFiniteSet(Places(z, x)) /\ Cardinality(Places(z, x)) \in {Cardinality(A), Cardinality(A) + 1}
      BY <1>1, <2>1, FS_AddElement
    <2> QED
      BY <1>1, <2>3, <2>4 DEF BackedBy
  <1> QED
    BY <1>5, <1>6

\* The same of a step.
LEMMA BackedGrows ==
  ASSUME Typing, NEW b \in Bases, NEW w \in Seq(Nat), Increasing(w), NEW x, Backed(x),
         disk' = [disk EXCEPT ![b] = @ \o w], acks' = acks \o w \/ acks' = acks
  PROVE  Backed(x)'
  <1>1. /\ disk'[b] = disk[b] \o w /\ disk \in [Bases -> Seq(Nat)] /\ acks \in Seq(Nat)
        /\ \A f \in Bases : f # b => disk'[f] = disk[f]
    BY FileGrows DEF Typing
  <1>2. PICK e, z : e = disk' /\ z = acks'
    OBVIOUS
  <1>3. BackedBy(e, z, x)
    BY <1>1, <1>2, BackedByMore DEF Backed
  <1> QED
    BY <1>2, <1>3 DEF Backed

\* Initially nothing was returned and nothing is stored.
LEMMA BackedInit == Init => \A x : Backed(x)
  <1> SUFFICES ASSUME Init, NEW x PROVE Backed(x)
    OBVIOUS
  <1>1. Places(acks, x) = {}
    BY DEF Init, Places
  <1>2. \A b \in Bases : Places(disk[b], x) = {}
    BY DEF Init, Places
  <1>3. Copies(disk, x) = {}
    BY <1>2, CopyOf
  <1>4. IsFiniteSet({}) /\ Cardinality({}) = 0
    BY FS_EmptySet
  <1> QED
    BY <1>1, <1>3, <1>4 DEF Backed, BackedBy

\* Only a write adds to the files, and only one that succeeds to what was returned.
LEMMA BackedNext ==
  ASSUME TopicInv, \A x : Backed(x), [Next]_vars
  PROVE  \A x : Backed(x)'
  <1> SUFFICES ASSUME NEW x PROVE Backed(x)'
    OBVIOUS
  <1>0. Typing /\ Numbers /\ Backed(x)
    BY DEF TopicInv
  <1>1. CASE disk' = disk /\ acks' = acks
    BY <1>0, <1>1 DEF Backed
  <1>2. ASSUME NEW p \in Appenders, AppendStored(p) PROVE Backed(x)'
    <2>1. Busy(p) /\ disk' = [disk EXCEPT ![job[p].base] = @ \o job[p].seqs] /\ acks' = acks \o job[p].seqs
      BY <1>2 DEF AppendStored, Busy
    <2>2. job[p].base \in Bases /\ job[p].seqs \in Seq(Nat) /\ Increasing(job[p].seqs)
      BY <1>0, <2>1 DEF Typing, Jobs, Numbers
    <2> QED
      BY <1>0, <2>1, <2>2, BackedGrows
  <1>3. ASSUME Crash, NEW p \in Appenders, Busy(p), NEW w \in Written(job[p]),
               disk' = [disk EXCEPT ![job[p].base] = @ \o w]
        PROVE  Backed(x)'
    <2>1. job[p].base \in Bases /\ job[p].seqs \in Seq(Nat) /\ Increasing(job[p].seqs)
      BY <1>0, <1>3 DEF Typing, Jobs, Numbers
    <2>2. PICK k \in 0 .. Len(job[p].seqs) : w = SubSeq(job[p].seqs, 1, k)
      BY <1>3 DEF Written
    <2>3. w \in Seq(Nat) /\ \A i \in DOMAIN w : i \in DOMAIN job[p].seqs /\ w[i] = job[p].seqs[i]
      BY <2>1, <2>2, Begins
    <2>4. Increasing(w)
      BY <2>1, <2>3, SMTT(60) DEF Increasing
    <2>5. acks' = acks
      BY <1>3 DEF Crash
    <2> QED
      BY <1>0, <1>3, <2>1, <2>3, <2>4, <2>5, BackedGrows
  <1>4. CASE Crash
    BY <1>1, <1>3, <1>4 DEF Crash, Busy
  <1>5. ASSUME NEW p \in Appenders, NEW n \in 1 .. MaxBatch, AppendStart(p, n) \/ AppendRoll(p, n)
        PROVE  disk' = disk /\ acks' = acks
    BY <1>5 DEF AppendStart, AppendRoll
  <1>6. ASSUME NEW p \in Appenders, AppendFailed(p) PROVE disk' = disk /\ acks' = acks
    BY <1>6 DEF AppendFailed
  <1>7. ASSUME NEW b \in Bases, EvictSegment(b) PROVE disk' = disk /\ acks' = acks
    BY <1>7 DEF EvictSegment
  <1>8. NewTopic \/ UNCHANGED vars => disk' = disk /\ acks' = acks
    BY DEF NewTopic, vars
  <1> QED
    BY <1>1, <1>2, <1>4, <1>5, <1>6, <1>7, <1>8 DEF Next

\* An append that succeeded is stored, however many goroutines append and however
\* rolls, evictions under an append and restarts fall between its steps (topic.go, segment.go).
THEOREM AcksCorrect == Spec => []AckedStored
  <1> DEFINE I == TopicInv /\ \A x : Backed(x)
  <1>1. Init => I
    BY InitInv, BackedInit
  <1>2. I /\ [Next]_vars => I'
    <2>1. (\A x : Backed(x))' <=> \A x : Backed(x)'
      OBVIOUS
    <2> QED
      BY <2>1, NextInv, BackedNext
  <1>3. I => AckedStored
    BY DEF Backed, BackedBy, AckedStored
  <1> QED
    BY <1>1, <1>2, <1>3, PTL DEF Spec

-----------------------------------------------------------------------------
(* ReadsBack.  Every nonempty set of natural numbers has a least member.     *)
LEMMA LeastMember ==
  ASSUME NEW T, T \subseteq Nat, T # {}
  PROVE  Min(T) \in T /\ \A m \in T : Min(T) <= m
  <1> DEFINE R == OpToRel(<, Nat)
  <1>1. IsWellFoundedOn(R, Nat)
    BY NatLessThanWellFounded
  <1>2. \A x, y \in Nat : <<y, x>> \in R <=> y < x
    BY DEF OpToRel
  <1> HIDE DEF R
  <1>3. PICK x \in T : \A y \in T : ~ (<<y, x>> \in R)
    BY <1>1, WFMin
  <1>4. \A y \in T : ~ (y < x)
    BY <1>2, <1>3
  <1>5. \E m : m \in T /\ \A y \in T : m <= y
    BY <1>3, <1>4
  <1>6. Min(T) = CHOOSE m : m \in T /\ \A y \in T : m <= y
    BY DEF Min
  <1> QED
    BY <1>5, <1>6

\* Induction over a set needs no operator as a parameter.
LEMMA Induction ==
  ASSUME NEW T, 0 \in T, \A n \in Nat : n \in T => n + 1 \in T
  PROVE  \A n \in Nat : n \in T
  <1> DEFINE U == {n \in Nat : n \notin T}
  <1>1. CASE U = {}
    BY <1>1
  <1>2. CASE U # {}
    <2>1. PICK n \in U : \A m \in U : n <= m
      <3>1. U \subseteq Nat
        OBVIOUS
      <3> HIDE DEF U
      <3> QED
        BY <1>2, <3>1, LeastMember
    <2>2. n # 0 /\ n - 1 \in Nat /\ n - 1 \notin U
      BY <2>1
    <2> QED
      BY <2>1, <2>2
  <1> QED
    BY <1>1, <1>2

\* The members of two sequences joined.
LEMMA JoinedSet ==
  ASSUME NEW s \in Seq(Nat), NEW t \in Seq(Nat)
  PROVE  ToSet(s \o t) = ToSet(s) \cup ToSet(t)
  <1>1. /\ DOMAIN s = 1 .. Len(s) /\ DOMAIN t = 1 .. Len(t) /\ Len(s) \in Nat /\ Len(t) \in Nat
        /\ DOMAIN (s \o t) = 1 .. Len(s) + Len(t)
    BY Joined
  <1>2. ASSUME NEW i \in DOMAIN (s \o t) PROVE (s \o t)[i] \in ToSet(s) \cup ToSet(t)
    <2>1. CASE i <= Len(s)
      <3>1. i \in DOMAIN s
        BY <1>1, <2>1
      <3> QED
        BY <3>1, Joined DEF ToSet
    <2>2. CASE i > Len(s)
      BY <2>2, Joined DEF ToSet
    <2> QED
      BY <1>1, <2>1, <2>2
  <1>3. \A i \in DOMAIN s : i \in DOMAIN (s \o t) /\ (s \o t)[i] = s[i]
    BY <1>1, Joined
  <1>4. \A k \in DOMAIN t : \E i \in DOMAIN (s \o t) : (s \o t)[i] = t[k]
    BY Joined, ZenonT(60)
  <1> QED
    BY <1>2, <1>3, <1>4 DEF ToSet

\* The function that FlattenSeq defines by recursion, on the first n sequences of ss.
Flat(f, ss, n) == f = [i \in 1 .. n |-> IF i = 1 THEN ss[i] ELSE f[i - 1] \o ss[i]]

\* There is such a function.
LEMMA FlatExists ==
  ASSUME NEW ss
  PROVE  \A n \in Nat : \E f : Flat(f, ss, n)
  <1> DEFINE T == {n \in Nat : \E f : Flat(f, ss, n)}
  <1>1. 0 \in T
    <2>1. Flat(<<>>, ss, 0)
      BY DEF Flat
    <2> QED
      BY <2>1
  <1>2. ASSUME NEW n \in Nat, n \in T PROVE n + 1 \in T
    <2>1. PICK f : Flat(f, ss, n)
      BY <1>2
    <2> DEFINE g == [i \in 1 .. n + 1 |-> IF i <= n THEN f[i] ELSE IF i = 1 THEN ss[i] ELSE f[n] \o ss[i]]
    <2>2. \A i \in 1 .. n : f[i] = IF i = 1 THEN ss[i] ELSE f[i - 1] \o ss[i]
      BY <2>1 DEF Flat
    <2>3. \A i \in 1 .. n : g[i] = f[i]
      OBVIOUS
    <2>4. g[n + 1] = IF n + 1 = 1 THEN ss[n + 1] ELSE f[n] \o ss[n + 1]
      OBVIOUS
    <2>5. g = [i \in 1 .. n + 1 |-> g[i]]
      OBVIOUS
    <2> HIDE DEF g
    <2>6. \A i \in 1 .. n + 1 : g[i] = IF i = 1 THEN ss[i] ELSE g[i - 1] \o ss[i]
      <3> TAKE i \in 1 .. n + 1
      <3>1. CASE i = n + 1
        <4>1. n # 0 => g[n] = f[n]
          BY <2>3
        <4> QED
          BY <2>4, <3>1, <4>1
      <3>2. CASE i \in 1 .. n
        <4>1. i # 1 => i - 1 \in 1 .. n
          BY <3>2
        <4> QED
          BY <2>2, <2>3, <3>2, <4>1
      <3> QED
        BY <3>1, <3>2
    <2>7. Flat(g, ss, n + 1)
      BY <2>5, <2>6 DEF Flat
    <2> QED
      BY <2>7
  <1> HIDE DEF T
  <1>3. \A n \in Nat : n \in T
    BY <1>1, <1>2, Induction
  <1> QED
    BY <1>3 DEF T

\* Sequences of increasing numbers, each above the ones before, flattened: their
\* numbers, in order.
Ascending(ss) ==
    /\ Len(ss) \in Nat /\ DOMAIN ss = 1 .. Len(ss)
    /\ \A k \in DOMAIN ss : ss[k] \in Seq(Nat) /\ Increasing(ss[k])
    /\ \A k, l \in DOMAIN ss : k < l => Below(ss[k], ss[l])

LEMMA Flattened ==
  ASSUME NEW ss, Ascending(ss)
  PROVE  /\ FlattenSeq(ss) \in Seq(Nat)
         /\ Increasing(FlattenSeq(ss))
         /\ \A x : x \in ToSet(FlattenSeq(ss)) <=> \E k \in DOMAIN ss : x \in ToSet(ss[k])
  <1>0. Len(ss) \in Nat /\ DOMAIN ss = 1 .. Len(ss)
    BY DEF Ascending
  <1>1. CASE Len(ss) = 0
    <2>1. FlattenSeq(ss) = <<>>
      BY <1>0, <1>1 DEF FlattenSeq
    <2> QED
      BY <1>0, <1>1, <2>1 DEF Increasing, ToSet
  <1>2. CASE Len(ss) # 0
    <2> DEFINE f == CHOOSE f : f = [i \in 1 .. Len(ss) |-> IF i = 1 THEN ss[i] ELSE f[i - 1] \o ss[i]]
    <2>1. Flat(f, ss, Len(ss))
      <3>1. \E g : Flat(g, ss, Len(ss))
        BY <1>0, FlatExists
      <3> QED
        BY <3>1 DEF Flat
    <2>2. FlattenSeq(ss) = f[Len(ss)]
      BY <1>2 DEF FlattenSeq
    <2> HIDE DEF f
    <2>3. \A i \in 1 .. Len(ss) : f[i] = IF i = 1 THEN ss[i] ELSE f[i - 1] \o ss[i]
      BY <2>1 DEF Flat
    <2> DEFINE Good(n) == /\ f[n] \in Seq(Nat)
                          /\ Increasing(f[n])
                          /\ \A x : x \in ToSet(f[n]) <=> \E k \in 1 .. n : x \in ToSet(ss[k])
               T == {n \in Nat : n \in 1 .. Len(ss) => Good(n)}
    <2>4. 0 \in T
      OBVIOUS
    <2>5. ASSUME NEW n \in Nat, n \in T PROVE n + 1 \in T
      <3> SUFFICES ASSUME n + 1 \in 1 .. Len(ss) PROVE Good(n + 1)
        OBVIOUS
      <3>0. n + 1 \in DOMAIN ss
        BY <1>0
      <3>1. ss[n + 1] \in Seq(Nat) /\ Increasing(ss[n + 1])
        BY <1>0, <3>0 DEF Ascending
      <3>2. CASE n = 0
        <4>1. f[n + 1] = ss[n + 1] /\ n + 1 = 1
          BY <2>3, <3>2
        <4> QED
          BY <3>1, <4>1
      <3>3. CASE n # 0
        <4>1. n \in 1 .. Len(ss) /\ n + 1 # 1 /\ n + 1 - 1 = n
          BY <1>0, <3>3
        <4>2. Good(n)
          <5> HIDE DEF Good
          <5> QED
            BY <2>5, <4>1
        <4>3. f[n + 1] = f[n] \o ss[n + 1]
          <5>1. f[n + 1] = IF n + 1 = 1 THEN ss[n + 1] ELSE f[n + 1 - 1] \o ss[n + 1]
            BY <2>3
          <5> QED
            BY <4>1, <5>1
        <4>4. PICK e, t : e = f[n] /\ t = ss[n + 1]
          OBVIOUS
        <4>5. e \in Seq(Nat) /\ Increasing(e) /\ t \in Seq(Nat) /\ Increasing(t) /\ f[n + 1] = e \o t
              /\ \A x : x \in ToSet(e) <=> \E k \in 1 .. n : x \in ToSet(ss[k])
          BY <3>1, <4>2, <4>3, <4>4
        <4>6. Below(e, t)
          <5>0. \A i \in DOMAIN e : e[i] \in ToSet(e)
            BY DEF ToSet
          <5> SUFFICES ASSUME NEW i \in DOMAIN e, NEW j \in DOMAIN t PROVE e[i] < t[j]
            BY DEF Below
          <5>1. PICK k \in 1 .. n : e[i] \in ToSet(ss[k])
            BY <4>5, <5>0
          <5>2. k \in DOMAIN ss /\ n + 1 \in DOMAIN ss /\ k < n + 1
            BY <1>0
          <5>3. Below(ss[k], t)
            BY <4>4, <5>2 DEF Ascending
          <5>4. PICK m \in DOMAIN ss[k] : ss[k][m] = e[i]
            BY <5>1 DEF ToSet
          <5> QED
            BY <5>3, <5>4 DEF Below
        <4>7. e \o t \in Seq(Nat) /\ Increasing(e \o t)
          BY <4>5, <4>6, Joined, JoinedIncreasing
        <4>8. ToSet(e \o t) = ToSet(e) \cup ToSet(t)
          BY <4>5, JoinedSet
        <4>9. \A x : (\E k \in 1 .. n + 1 : x \in ToSet(ss[k]))
                     <=> x \in ToSet(t) \/ \E k \in 1 .. n : x \in ToSet(ss[k])
          <5>1. \A k : k \in 1 .. n + 1 <=> k = n + 1 \/ k \in 1 .. n
            OBVIOUS
          <5> QED
            BY <4>4, <5>1
        <4>10. \A x : x \in ToSet(f[n + 1]) <=> \E k \in 1 .. n + 1 : x \in ToSet(ss[k])
          BY <4>5, <4>8, <4>9
        <4> QED
          BY <4>5, <4>7, <4>10
      <3> QED
        BY <3>2, <3>3
    <2>6. Len(ss) \in T
      <3> HIDE DEF T
      <3> QED
        BY <1>0, <2>4, <2>5, Induction
    <2>7. Good(Len(ss))
      <3>1. Len(ss) \in 1 .. Len(ss)
        BY <1>0, <1>2
      <3> HIDE DEF Good
      <3> QED
        BY <2>6, <3>1
    <2> QED
      BY <1>0, <2>2, <2>7
  <1> QED
    BY <1>1, <1>2

\* Increasing numbers are all different.
LEMMA SetOf ==
  ASSUME NEW s \in Seq(Nat), Increasing(s)
  PROVE  IsFiniteSet(ToSet(s)) /\ Cardinality(ToSet(s)) = Len(s)
  <1>1. Len(s) \in Nat /\ DOMAIN s = 1 .. Len(s)
    OBVIOUS
  <1>2. IsFiniteSet(1 .. Len(s)) /\ Cardinality(1 .. Len(s)) = Len(s)
    <2>1. PICK n \in Nat : n = Len(s)
      BY <1>1
    <2>2. IsFiniteSet(1 .. n) /\ Cardinality(1 .. n) = IF 1 > n THEN 0 ELSE n - 1 + 1
      <3>1. 1 \in Int /\ n \in Int
        OBVIOUS
      <3> QED
        BY <3>1, FS_Interval, Zenon
    <2> QED
      BY <2>1, <2>2, SMTT(60)
  <1>3. s \in [1 .. Len(s) -> ToSet(s)]
    <2>1. \A i \in 1 .. Len(s) : s[i] \in ToSet(s)
      BY <1>1 DEF ToSet
    <2>2. s = [i \in 1 .. Len(s) |-> s[i]]
      BY <1>1
    <2> QED
      BY <2>1, <2>2
  <1>4. IsInjective(s)
    <2> SUFFICES ASSUME NEW i \in DOMAIN s, NEW j \in DOMAIN s, s[i] = s[j] PROVE i = j
      BY DEF IsInjective
    <2>1. i \in Nat /\ j \in Nat /\ s[i] \in Nat
      BY <1>1
    <2>2. ~(i < j) /\ ~(j < i)
      BY <2>1 DEF Increasing
    <2> QED
      BY <2>1, <2>2
  <1>5. \A x \in ToSet(s) : \E i \in 1 .. Len(s) : s[i] = x
    BY <1>1 DEF ToSet
  <1>6. ExistsBijection(1 .. Len(s), ToSet(s))
    BY <1>3, <1>4, <1>5 DEF ExistsBijection, Bijection, Injection, Surjection
  <1> QED
    BY <1>2, <1>6, FS_Bijection

\* From a number on,
LEMMA Rest ==
  ASSUME NEW t \in Seq(Nat), Increasing(t), NEW m \in DOMAIN t
  PROVE  LET w == SubSeq(t, m, Len(t))
         IN  /\ w \in Seq(Nat) /\ Increasing(w)
             /\ \A x : x \in ToSet(w) <=> x \in ToSet(t) /\ x >= t[m]
  <1> DEFINE w == SubSeq(t, m, Len(t))
             d == m - 1
  <1>1. /\ m \in Nat /\ m > 0 /\ Len(t) \in Nat /\ m <= Len(t) /\ DOMAIN t = 1 .. Len(t)
        /\ \A i \in DOMAIN t : t[i] \in Nat
    OBVIOUS
  <1>2. /\ w \in Seq(Nat) /\ DOMAIN w = 1 .. Len(t) - d
        /\ \A i \in DOMAIN w : w[i] = t[i + d] /\ i + d \in DOMAIN t
    BY <1>1, SMTT(30)
  <1>3. d \in Nat /\ d + 1 = m
    BY <1>1
  <1> HIDE DEF w, d
  <1>4. Increasing(w)
    <2> SUFFICES ASSUME NEW i \in DOMAIN w, NEW j \in DOMAIN w, i < j PROVE w[i] < w[j]
      BY DEF Increasing
    <2>1. i + d < j + d /\ i + d \in DOMAIN t /\ j + d \in DOMAIN t
      BY <1>1, <1>2, <1>3
    <2> QED
      BY <1>2, <2>1 DEF Increasing
  <1>5. ASSUME NEW i \in DOMAIN w PROVE w[i] \in ToSet(t) /\ w[i] >= t[m]
    <2>1. w[i] = t[i + d] /\ i + d \in DOMAIN t /\ i + d >= m
      BY <1>1, <1>2, <1>3
    <2>2. t[i + d] >= t[m]
      <3>1. i + d > m => t[m] < t[i + d]
        BY <2>1 DEF Increasing
      <3> QED
        BY <1>1, <2>1, <3>1
    <2> QED
      BY <2>1, <2>2 DEF ToSet
  <1>6. ASSUME NEW k \in DOMAIN t, t[k] >= t[m] PROVE \E i \in DOMAIN w : w[i] = t[k]
    <2>1. ~(k < m)
      BY <1>1, <1>6 DEF Increasing
    <2>2. k - d \in DOMAIN w /\ k - d + d = k
      BY <1>1, <1>2, <1>3, <2>1, SMTT(30)
    <2>3. w[k - d] = t[k - d + d]
      BY <1>2, <2>2
    <2> QED
      BY <2>2, <2>3
  <1>7. \A x : x \in ToSet(w) <=> x \in ToSet(t) /\ x >= t[m]
    BY <1>5, <1>6 DEF ToSet
  <1> QED
    BY <1>2, <1>4, <1>7 DEF w

\* and the first of them.
LEMMA FirstOf ==
  ASSUME NEW t \in Seq(Nat), Increasing(t), NEW n \in 0 .. Len(t)
  PROVE  LET w == SubSeq(t, 1, n)
         IN  /\ Increasing(w) /\ ToSet(w) \subseteq ToSet(t) /\ Len(w) = n
             /\ \A i \in DOMAIN w, x \in ToSet(t) \ ToSet(w) : w[i] < x
  <1> DEFINE w == SubSeq(t, 1, n)
  <1>1. /\ w \in Seq(Nat) /\ Len(w) = n /\ DOMAIN w = 1 .. n
        /\ \A i \in DOMAIN w : i \in DOMAIN t /\ w[i] = t[i]
    BY Begins
  <1>2. n \in Nat /\ Len(t) \in Nat /\ DOMAIN t = 1 .. Len(t)
    OBVIOUS
  <1> HIDE DEF w
  <1>3. Increasing(w)
    BY <1>1 DEF Increasing
  <1>4. ToSet(w) \subseteq ToSet(t)
    BY <1>1 DEF ToSet
  <1>5. ASSUME NEW i \in DOMAIN w, NEW x \in ToSet(t) \ ToSet(w) PROVE w[i] < x
    <2>1. PICK k \in DOMAIN t : t[k] = x
      BY DEF ToSet
    <2>2. k \notin DOMAIN w
      BY <1>1, <2>1 DEF ToSet
    <2>3. i < k /\ i \in DOMAIN t /\ w[i] = t[i]
      BY <1>1, <1>2, <2>2
    <2> QED
      BY <2>1, <2>3 DEF Increasing
  <1> QED
    BY <1>1, <1>3, <1>4, <1>5 DEF w

\* The smaller of two numbers.
LEMMA Lesser ==
  ASSUME NEW a \in Nat, NEW b \in Nat
  PROVE  Min({a, b}) \in Nat /\ Min({a, b}) <= a /\ Min({a, b}) <= b
  <1>1. {a, b} \subseteq Nat /\ {a, b} # {}
    OBVIOUS
  <1>2. Min({a, b}) \in {a, b} /\ \A m \in {a, b} : Min({a, b}) <= m
    BY <1>1, LeastMember
  <1> QED
    BY <1>2

-----------------------------------------------------------------------------
(* What readers rely on besides TopicInv.                                  *)

\* The bases increase, and a file has nothing above the next base.
Chained ==
    /\ Increasing(segments)
    /\ \A i \in DOMAIN segments : i < Len(segments) => UpTo(disk[segments[i]], segments[i + 1])

ReadInv == live => (Apart => Chained) /\ mine \subseteq Listed

\* While no segment is added and files only grow, what is listed stays.
LEMMA ListedGrows ==
  ASSUME segments' = segments, \A i \in DOMAIN segments : ToSet(disk[segments[i]]) \subseteq ToSet(disk'[segments[i]])
  PROVE  Listed \subseteq Listed'
  <1> SUFFICES ASSUME NEW x \in Listed PROVE x \in Listed'
    OBVIOUS
  <1>1. PICK i \in DOMAIN segments : x \in ToSet(disk[segments[i]])
    BY DEF Listed
  <1> QED
    BY <1>1 DEF Listed

\* Every message of the file of the i-th segment is above the bases up to the i-th,
\* and not above the others.
LEMMA Between ==
  ASSUME TopicInv, Chained, NEW k \in DOMAIN segments, NEW x \in ToSet(disk[segments[k]]),
         NEW l \in DOMAIN segments
  PROVE  x \in Nat /\ segments[l] \in Nat /\ (l <= k => segments[l] < x) /\ (l > k => x <= segments[l])
  <1>1. /\ Typing /\ Counted /\ Len(segments) \in Nat /\ DOMAIN segments = 1 .. Len(segments)
        /\ \A i \in DOMAIN segments : segments[i] \in Bases
    BY SMTT(30) DEF TopicInv, Typing
  <1>2. \A i \in DOMAIN segments : segments[i] \in Nat
    BY <1>1, BasesNat
  <1>3. PICK m \in DOMAIN disk[segments[k]] : disk[segments[k]][m] = x
    BY DEF ToSet
  <1>4. x \in Nat /\ segments[k] < x
    <2>1. disk[segments[k]] \in Seq(Nat)
      BY <1>1 DEF Typing
    <2> QED
      BY <1>1, <1>3, <2>1 DEF Counted
  <1>5. ASSUME l <= k PROVE segments[l] < x
    <2>1. l < k => segments[l] < segments[k]
      BY DEF Chained, Increasing
    <2> QED
      BY <1>1, <1>2, <1>4, <1>5, <2>1
  <1>6. ASSUME l > k PROVE x <= segments[l]
    <2>1. k < Len(segments) /\ k + 1 \in DOMAIN segments /\ (k + 1 < l \/ k + 1 = l)
      BY <1>1, <1>6
    <2>2. UpTo(disk[segments[k]], segments[k + 1])
      BY <2>1 DEF Chained
    <2>3. x <= segments[k + 1]
      BY <1>3, <2>2 DEF UpTo
    <2>4. k + 1 < l => segments[k + 1] < segments[l]
      BY <2>1 DEF Chained, Increasing
    <2> QED
      BY <1>2, <1>4, <2>1, <2>3, <2>4
  <1> QED
    BY <1>2, <1>4, <1>5, <1>6

\* The segment that calcBaseMessageSeq finds for a stored message is the one that has it.
LEMMA FoundBase ==
  ASSUME TopicInv, Chained, NEW k \in DOMAIN segments, NEW s \in ToSet(disk[segments[k]])
  PROVE  CalcBase(s) = k
  <1> DEFINE C == {i \in DOMAIN segments : segments[i] <= s /\ (i < Len(segments) => s <= segments[i + 1])}
  <1>1. Len(segments) \in Nat /\ DOMAIN segments = 1 .. Len(segments)
    BY DEF TopicInv, Typing
  <1>2. /\ s \in Nat
        /\ \A l \in DOMAIN segments : /\ segments[l] \in Nat
                                      /\ l <= k => segments[l] < s
                                      /\ l > k => s <= segments[l]
    BY Between
  <1>3. k \in C
    <2>1. segments[k] <= s
      BY <1>1, <1>2
    <2>2. k < Len(segments) => s <= segments[k + 1]
      <3> SUFFICES ASSUME k < Len(segments) PROVE s <= segments[k + 1]
        OBVIOUS
      <3>1. k + 1 \in DOMAIN segments /\ k + 1 > k
        BY <1>1
      <3> QED
        BY <1>2, <3>1
    <2> QED
      BY <2>1, <2>2
  <1>4. C \subseteq Nat /\ C # {}
    BY <1>1, <1>3
  <1>5. CalcBase(s) = Min(C)
    BY DEF CalcBase
  <1>6. Min(C) \in C /\ Min(C) <= k
    <2> HIDE DEF C
    <2> QED
      BY <1>3, <1>4, LeastMember
  <1>7. PICK i \in C : i = Min(C)
    BY <1>6
  <1>8. i \in DOMAIN segments /\ i <= k /\ (i < Len(segments) => s <= segments[i + 1])
    BY <1>6, <1>7
  <1>9. ~(i < k)
    <2> SUFFICES ASSUME i < k PROVE FALSE
      OBVIOUS
    <2>1. i < Len(segments) /\ i + 1 \in DOMAIN segments /\ i + 1 <= k
      BY <1>1, <1>8
    <2>2. segments[i + 1] < s /\ s <= segments[i + 1] /\ segments[i + 1] \in Nat
      BY <1>2, <1>8, <2>1
    <2> QED
      BY <1>2, <2>2
  <1> QED
    BY <1>1, <1>5, <1>7, <1>8, <1>9

\* The files after the k-th segment's.
Later(k) == [m \in 1 .. Len(segments) - k |-> disk[segments[k + m]]]

\* They follow on each other, and hold what is listed after the k-th segment.
LEMMA LaterFiles ==
  ASSUME TopicInv, Apart, Chained, NEW k \in DOMAIN segments
  PROVE  /\ Ascending(Later(k))
         /\ \A m \in DOMAIN Later(k) : k + m \in DOMAIN segments /\ Later(k)[m] = disk[segments[k + m]]
         /\ \A l \in DOMAIN segments : l > k => l - k \in DOMAIN Later(k) /\ Later(k)[l - k] = disk[segments[l]]
  <1>1. /\ Sorted /\ Typing /\ Len(segments) \in Nat /\ DOMAIN segments = 1 .. Len(segments)
        /\ \A i \in DOMAIN segments : segments[i] \in Bases
    BY DEF TopicInv, Typing
  <1>2. k \in Nat /\ k <= Len(segments) /\ k > 0 /\ Len(segments) - k \in Nat
    BY <1>1
  <1>3. DOMAIN Later(k) = 1 .. Len(segments) - k /\ Len(Later(k)) = Len(segments) - k
    BY <1>2 DEF Later
  <1>4. \A m \in DOMAIN Later(k) : k + m \in DOMAIN segments /\ Later(k)[m] = disk[segments[k + m]]
    BY <1>1, <1>2, <1>3 DEF Later
  <1>5. \A l \in DOMAIN segments : l > k => l - k \in DOMAIN Later(k) /\ Later(k)[l - k] = disk[segments[l]]
    <2> SUFFICES ASSUME NEW l \in DOMAIN segments, l > k
                 PROVE  l - k \in DOMAIN Later(k) /\ Later(k)[l - k] = disk[segments[l]]
      OBVIOUS
    <2>1. l - k \in 1 .. Len(segments) - k /\ k + (l - k) = l
      BY <1>1, <1>2
    <2> QED
      BY <1>3, <1>4, <2>1
  <1>6. \A m \in DOMAIN Later(k) : Later(k)[m] \in Seq(Nat) /\ Increasing(Later(k)[m])
    BY <1>1, <1>4 DEF Typing, Sorted
  <1>7. ASSUME NEW m \in DOMAIN Later(k), NEW n \in DOMAIN Later(k), m < n
        PROVE  Below(Later(k)[m], Later(k)[n])
    <2>1. PICK a, b : a = k + m /\ b = k + n
      OBVIOUS
    <2>2. a \in DOMAIN segments /\ b \in DOMAIN segments /\ b > a
          /\ Later(k)[m] = disk[segments[a]] /\ Later(k)[n] = disk[segments[b]]
      BY <1>2, <1>3, <1>4, <1>7, <2>1, SMTT(30)
    <2> SUFFICES ASSUME NEW i \in DOMAIN disk[segments[a]], NEW j \in DOMAIN disk[segments[b]]
                 PROVE  disk[segments[a]][i] < disk[segments[b]][j]
      BY <2>2 DEF Below
    <2>3. PICK x \in ToSet(disk[segments[a]]), y \in ToSet(disk[segments[b]]) :
            x = disk[segments[a]][i] /\ y = disk[segments[b]][j]
      BY DEF ToSet
    <2>4. x \in Nat /\ segments[b] \in Nat /\ x <= segments[b]
      BY <2>2, Between
    <2>5. y \in Nat /\ segments[b] < y
      BY <1>1, <2>2, Between
    <2> QED
      BY <2>3, <2>4, <2>5
  <1> QED
    BY <1>2, <1>3, <1>4, <1>5, <1>6, <1>7 DEF Ascending

\* What readMessages collects before it stops at the limit: all listed messages
\* from the first one on.
LEMMA Collected ==
  ASSUME TopicInv, Apart, Chained, NEW k \in DOMAIN segments, NEW s \in ToSet(disk[segments[k]])
  PROVE  LET all == FromSeq(segments[k], s) \o FlattenSeq(Later(k))
         IN  all \in Seq(Nat) /\ Increasing(all) /\ ToSet(all) = {x \in Listed : x >= s}
  <1> DEFINE d == disk[segments[k]]
             from == FromSeq(segments[k], s)
             rest == FlattenSeq(Later(k))
             at == {i \in DOMAIN d : d[i] = s}
  <1>1. /\ Sorted /\ Typing /\ Len(segments) \in Nat /\ DOMAIN segments = 1 .. Len(segments)
        /\ segments[k] \in Bases
    BY DEF TopicInv, Typing
  <1>2. d \in Seq(Nat) /\ Increasing(d)
    BY <1>1 DEF Typing, Sorted
  <1>3. s \in Nat /\ segments[k] \in Nat /\ segments[k] < s
    BY <1>1, Between
  <1>4. PICK m \in DOMAIN d : m = Min(at) /\ d[m] = s
    <2>1. at \subseteq Nat /\ at # {}
      BY <1>2 DEF ToSet
    <2>2. Min(at) \in at
      <3> HIDE DEF at
      <3> QED
        BY <2>1, LeastMember
    <2> QED
      BY <2>2
  <1>5. from = SubSeq(d, m, Len(d))
    <2>1. at # {} /\ s # segments[k]
      BY <1>3, <1>4
    <2> QED
      BY <1>4, <2>1 DEF FromSeq
  <1> HIDE DEF d, from, rest, at
  <1>6. /\ from \in Seq(Nat) /\ Increasing(from)
        /\ \A x : x \in ToSet(from) <=> x \in ToSet(d) /\ x >= s
    BY <1>2, <1>4, <1>5, Rest
  <1>7. /\ rest \in Seq(Nat) /\ Increasing(rest)
        /\ \A x : x \in ToSet(rest) <=> \E n \in DOMAIN Later(k) : x \in ToSet(Later(k)[n])
    BY LaterFiles, Flattened DEF rest
  <1>8. \A x : x \in ToSet(rest) <=> \E l \in DOMAIN segments : l > k /\ x \in ToSet(disk[segments[l]])
    <2> TAKE x
    <2>1. ASSUME NEW n \in DOMAIN Later(k), x \in ToSet(Later(k)[n])
          PROVE  \E l \in DOMAIN segments : l > k /\ x \in ToSet(disk[segments[l]])
      <3>1. k + n \in DOMAIN segments /\ Later(k)[n] = disk[segments[k + n]]
        BY LaterFiles
      <3>2. k + n > k
        <4>1. DOMAIN Later(k) \subseteq Nat \ {0}
          BY <1>1 DEF Later
        <4> QED
          BY <1>1, <4>1
      <3> QED
        BY <2>1, <3>1, <3>2
    <2>2. ASSUME NEW l \in DOMAIN segments, l > k, x \in ToSet(disk[segments[l]])
          PROVE  \E n \in DOMAIN Later(k) : x \in ToSet(Later(k)[n])
      BY <2>2, LaterFiles
    <2> QED
      BY <1>7, <2>1, <2>2
  <1>9. Below(from, rest)
    <2>1. ASSUME NEW x \in ToSet(from), NEW y \in ToSet(rest) PROVE x < y
      <3>1. PICK l \in DOMAIN segments : l > k /\ y \in ToSet(disk[segments[l]])
        BY <1>8
      <3>2. x \in Nat /\ segments[l] \in Nat /\ x <= segments[l]
        BY <1>6, <3>1, Between DEF d
      <3>3. y \in Nat /\ segments[l] < y
        BY <1>1, <3>1, Between
      <3> QED
        BY <3>2, <3>3
    <2>2. (\A i \in DOMAIN from : from[i] \in ToSet(from)) /\ \A i \in DOMAIN rest : rest[i] \in ToSet(rest)
      BY DEF ToSet
    <2> QED
      BY <2>1, <2>2 DEF Below
  <1>10. from \o rest \in Seq(Nat) /\ Increasing(from \o rest) /\ ToSet(from \o rest) = ToSet(from) \cup ToSet(rest)
    BY <1>6, <1>7, <1>9, Joined, JoinedIncreasing, JoinedSet
  <1>11. ASSUME NEW x \in ToSet(from) \cup ToSet(rest) PROVE x \in Listed /\ x >= s
    <2>1. CASE x \in ToSet(from)
      BY <1>6, <2>1 DEF Listed, d
    <2>2. CASE x \in ToSet(rest)
      <3>1. PICK l \in DOMAIN segments : l > k /\ x \in ToSet(disk[segments[l]])
        BY <1>8, <2>2
      <3>2. s <= segments[l] /\ segments[l] \in Nat
        BY <3>1, Between
      <3>3. segments[l] < x /\ x \in Nat
        BY <1>1, <3>1, Between
      <3> QED
        BY <1>3, <3>1, <3>2, <3>3 DEF Listed
    <2> QED
      BY <2>1, <2>2
  <1>12. ASSUME NEW x \in Listed, x >= s PROVE x \in ToSet(from) \cup ToSet(rest)
    <2>1. PICK l \in DOMAIN segments : x \in ToSet(disk[segments[l]])
      BY DEF Listed
    <2>2. ~(l < k)
      <3> SUFFICES ASSUME l < k PROVE FALSE
        OBVIOUS
      <3>1. x \in Nat /\ x <= segments[k]
        BY <2>1, Between
      <3> QED
        BY <1>3, <1>12, <3>1
    <2>3. CASE l = k
      BY <1>6, <1>12, <2>1, <2>3 DEF d
    <2>4. CASE l > k
      BY <1>8, <2>1, <2>4
    <2> QED
      BY <1>1, <2>2, <2>3, <2>4
  <1>13. ToSet(from \o rest) = {x \in Listed : x >= s}
    BY <1>10, <1>11, <1>12
  <1> QED
    BY <1>10, <1>13 DEF from, rest

\* A read of at most limit messages from a stored one.
LEMMA Reading ==
  ASSUME TopicInv, Apart, Chained, NEW s \in Listed, NEW limit \in Nat
  PROVE  LET got  == ReadMessages(s, limit)
             want == {x \in Listed : x >= s}
         IN  /\ Increasing(got)
             /\ ToSet(got) \subseteq want
             /\ Len(got) = Min({limit, Cardinality(want)})
             /\ \A i \in DOMAIN got, x \in want \ ToSet(got) : got[i] < x
  <1>1. PICK k \in DOMAIN segments : s \in ToSet(disk[segments[k]])
    BY DEF Listed
  <1> DEFINE all == FromSeq(segments[k], s) \o FlattenSeq(Later(k))
             want == {x \in Listed : x >= s}
  <1>2. CalcBase(s) = k
    BY <1>1, FoundBase
  <1>3. ReadMessages(s, limit) = SubSeq(all, 1, Min({limit, Len(all)}))
    BY <1>2 DEF ReadMessages, Later
  <1>4. all \in Seq(Nat) /\ Increasing(all) /\ ToSet(all) = want
    BY <1>1, Collected
  <1> HIDE DEF all, want
  <1>5. Cardinality(want) = Len(all) /\ Len(all) \in Nat
    BY <1>4, SetOf
  <1>6. Min({limit, Len(all)}) \in 0 .. Len(all)
    BY <1>5, Lesser
  <1>7. PICK n \in 0 .. Len(all) : n = Min({limit, Len(all)})
    BY <1>6
  <1>8. LET w == SubSeq(all, 1, n)
        IN  /\ Increasing(w) /\ ToSet(w) \subseteq ToSet(all) /\ Len(w) = n
            /\ \A i \in DOMAIN w, x \in ToSet(all) \ ToSet(w) : w[i] < x
    BY <1>4, FirstOf
  <1>9. PICK got : got = ReadMessages(s, limit)
    OBVIOUS
  <1>10. /\ Increasing(got) /\ ToSet(got) \subseteq want /\ Len(got) = Min({limit, Cardinality(want)})
         /\ \A i \in DOMAIN got, x \in want \ ToSet(got) : got[i] < x
    BY <1>3, <1>4, <1>5, <1>7, <1>8, <1>9
  <1> QED
    BY <1>9, <1>10 DEF want

-----------------------------------------------------------------------------
\* A roll: the new base is above all there is in the last file.
LEMMA RollReads ==
  ASSUME TopicInv, ReadInv, NEW p \in Appenders, NEW n \in 1 .. MaxBatch, AppendRoll(p, n)
  PROVE  ReadInv'
  <1> DEFINE base == last + n
             len == Len(segments)
  <1>0. /\ Typing /\ Counted /\ live /\ segments' = Append(segments, base)
        /\ UNCHANGED <<disk, mine, crashes, evicts>> /\ mine \subseteq Listed
    BY DEF TopicInv, ReadInv, AppendRoll
  <1>1. /\ segments \in Seq(Bases) /\ len \in Nat \ {0} /\ DOMAIN segments = 1 .. len
        /\ Last(segments) = segments[len] /\ \A i \in DOMAIN segments : segments[i] \in Nat
    <2>1. segments \in Seq(Bases) /\ segments # <<>>
      BY <1>0 DEF Typing
    <2>2. len \in Nat \ {0} /\ DOMAIN segments = 1 .. len /\ \A i \in DOMAIN segments : segments[i] \in Bases
      BY <2>1
    <2> QED
      BY <2>1, <2>2, BasesNat DEF Last
  <1>2. last \in Nat /\ n \in Nat /\ n > 0 /\ base \in Nat /\ last < base /\ segments[len] <= last
    <2>1. last \in Nat /\ n \in Nat /\ n > 0
      BY <1>0, BoundsAssumption DEF Typing
    <2>2. segments[len] <= last
      BY <1>0, <1>1 DEF Counted
    <2> QED
      BY <2>1, <2>2
  <1> HIDE DEF base, len
  <1>3. /\ DOMAIN segments' = 1 .. len + 1 /\ Len(segments') = len + 1 /\ segments'[len + 1] = base
        /\ \A i \in DOMAIN segments : segments'[i] = segments[i]
    BY <1>0, <1>1 DEF len
  <1>4. mine' \subseteq Listed'
    <2>1. \A i \in DOMAIN segments : i \in DOMAIN segments' /\ disk'[segments'[i]] = disk[segments[i]]
      BY <1>0, <1>1, <1>3
    <2>2. Listed \subseteq Listed'
      <3> SUFFICES ASSUME NEW x \in Listed PROVE x \in Listed'
        OBVIOUS
      <3>1. PICK i \in DOMAIN segments : x \in ToSet(disk[segments[i]])
        BY DEF Listed
      <3> QED
        BY <2>1, <3>1 DEF Listed
    <2> QED
      BY <1>0, <2>2
  <1>5. ASSUME Apart' PROVE Chained'
    <2>1. Chained /\ UpTo(disk[segments[len]], last)
      <3>1. Apart
        BY <1>0, <1>5 DEF Apart
      <3> QED
        BY <1>0, <1>1, <3>1 DEF TopicInv, Sorted, ReadInv
    <2>2. \A i \in 1 .. len : segments[i] <= segments[len]
      <3> SUFFICES ASSUME NEW i \in 1 .. len PROVE segments[i] <= segments[len]
        OBVIOUS
      <3>1. i < len => segments[i] < segments[len]
        BY <1>1, <2>1 DEF Chained, Increasing
      <3> QED
        BY <1>1, <3>1
    <2>3. \A i \in 1 .. len : segments[i] < base
      BY <1>1, <1>2, <2>2
    <2>4. ASSUME NEW i \in DOMAIN segments', NEW j \in DOMAIN segments', i < j
          PROVE  segments'[i] < segments'[j]
      <3>1. i \in 1 .. len /\ (j \in 1 .. len \/ j = len + 1)
        BY <1>1, <1>3, <2>4
      <3>2. CASE j = len + 1
        BY <1>1, <1>3, <2>3, <3>1, <3>2
      <3>3. CASE j \in 1 .. len
        BY <1>1, <1>3, <2>1, <2>4, <3>1, <3>3 DEF Chained, Increasing
      <3> QED
        BY <3>1, <3>2, <3>3
    <2>5. ASSUME NEW i \in DOMAIN segments', i < Len(segments')
          PROVE  UpTo(disk'[segments'[i]], segments'[i + 1])
      <3>1. i \in 1 .. len /\ i \in DOMAIN segments /\ disk'[segments'[i]] = disk[segments[i]]
        BY <1>0, <1>1, <1>3, <2>5
      <3>2. CASE i < len
        <4>1. i + 1 \in DOMAIN segments /\ segments'[i + 1] = segments[i + 1]
          BY <1>1, <1>3, <3>1, <3>2
        <4>2. UpTo(disk[segments[i]], segments[i + 1])
          BY <2>1, <3>1, <3>2 DEF Chained, len
        <4> QED
          BY <3>1, <4>1, <4>2
      <3>3. CASE i = len
        <4>1. segments[i] \in Bases
          BY <1>1, <3>1
        <4>2. disk[segments[i]] \in Seq(Nat)
          BY <1>0, <4>1 DEF Typing
        <4>3. UpTo(disk[segments[i]], base)
          <5> SUFFICES ASSUME NEW m \in DOMAIN disk[segments[i]] PROVE disk[segments[i]][m] <= base
            BY DEF UpTo
          <5>1. disk[segments[i]][m] \in Nat
            BY <4>2
          <5>2. disk[segments[i]][m] <= last
            BY <2>1, <3>3 DEF UpTo
          <5> QED
            BY <1>2, <5>1, <5>2
        <4> QED
          BY <1>3, <3>1, <3>3, <4>3
      <3> QED
        BY <1>1, <3>1, <3>2, <3>3
    <2> QED
      BY <2>4, <2>5 DEF Chained, Increasing
  <1> QED
    BY <1>4, <1>5 DEF ReadInv

\* A write goes to the last file.
LEMMA StoredReads ==
  ASSUME TopicInv, ReadInv, NEW p \in Appenders, AppendStored(p)
  PROVE  ReadInv'
  <1> DEFINE f == job[p].base
             w == job[p].seqs
             len == Len(segments)
  <1>0. /\ Typing /\ Lock /\ Numbers /\ Busy(p) /\ job[p].handle
        /\ disk' = [disk EXCEPT ![f] = @ \o w]
        /\ mine' \subseteq mine \cup ToSet(w)
        /\ UNCHANGED <<live, segments, crashes, evicts>>
    BY DEF TopicInv, AppendStored, Busy
  <1>1. /\ f \in Bases /\ w \in Seq(Nat) /\ live /\ f = Last(segments) /\ disk[f] \in Seq(Nat)
        /\ segments \in Seq(Bases) /\ segments # <<>>
    BY <1>0 DEF Typing, Jobs, Numbers, Lock
  <1>2. len \in Nat \ {0} /\ DOMAIN segments = 1 .. len /\ f = segments[len]
    BY <1>1 DEF Last
  <1>3. disk'[f] = disk[f] \o w /\ \A b \in Bases : b # f => disk'[b] = disk[b]
    BY <1>0, <1>1, FileGrows
  <1>4. ToSet(disk'[f]) = ToSet(disk[f]) \cup ToSet(w)
    BY <1>1, <1>3, JoinedSet
  <1>5. \A i \in DOMAIN segments : segments[i] \in Bases
    BY <1>1
  <1> HIDE DEF f, w, len
  <1>6. mine' \subseteq Listed'
    <2>1. Listed \subseteq Listed'
      <3>1. \A i \in DOMAIN segments : ToSet(disk[segments[i]]) \subseteq ToSet(disk'[segments[i]])
        BY <1>3, <1>4, <1>5
      <3> QED
        BY <1>0, <3>1, ListedGrows
    <2>2. ToSet(w) \subseteq Listed'
      <3> SUFFICES ASSUME NEW x \in ToSet(w) PROVE x \in Listed'
        OBVIOUS
      <3>1. len \in DOMAIN segments' /\ x \in ToSet(disk'[segments'[len]])
        BY <1>0, <1>2, <1>4
      <3> QED
        BY <3>1 DEF Listed
    <2>3. mine \subseteq Listed
      BY <1>1 DEF ReadInv
    <2> QED
      BY <1>0, <2>1, <2>2, <2>3
  <1>7. ASSUME Apart' PROVE Chained'
    <2>1. Chained
      BY <1>0, <1>1, <1>7 DEF Apart, ReadInv
    <2>2. ASSUME NEW i \in DOMAIN segments, i < len
          PROVE  UpTo(disk'[segments[i]], segments[i + 1])
      <3>1. segments[i] < f
        BY <1>2, <2>1, <2>2 DEF Chained, Increasing
      <3>2. segments[i] # f /\ segments[i] \in Bases
        <4>1. segments[i] \in Nat /\ segments[i] \in Bases
          BY <1>5, BasesNat
        <4> QED
          BY <3>1, <4>1
      <3>3. UpTo(disk[segments[i]], segments[i + 1])
        BY <2>1, <2>2 DEF Chained, len
      <3> QED
        BY <1>3, <3>2, <3>3
    <2> QED
      BY <1>0, <2>1, <2>2 DEF Chained, len
  <1> QED
    BY <1>6, <1>7 DEF ReadInv

\* Every step keeps the invariant.
LEMMA ReadNext == TopicInv /\ ReadInv /\ [Next]_vars => ReadInv'
  <1> SUFFICES ASSUME TopicInv, ReadInv, [Next]_vars PROVE ReadInv'
    OBVIOUS
  <1>1. ASSUME UNCHANGED <<live, segments, disk, mine>>, Apart' => Apart PROVE ReadInv'
    BY <1>1 DEF ReadInv, Chained, Listed
  <1>2. ASSUME crashes' = crashes, evicts' = evicts \/ evicts' = evicts + 1 PROVE Apart' => Apart
    BY <1>2 DEF Apart, TopicInv, Typing
  <1>3. CASE UNCHANGED vars
    BY <1>1, <1>2, <1>3 DEF vars
  <1>4. CASE NewTopic
    <2>1. segments' = <<0>> /\ mine' = {}
      BY <1>4 DEF NewTopic, ListedSegments
    <2>2. Len(segments') = 1 /\ DOMAIN segments' = 1 .. 1
      BY <2>1
    <2>3. Chained'
      BY <2>2 DEF Chained, Increasing
    <2> QED
      BY <2>1, <2>3 DEF ReadInv
  <1>5. CASE Crash
    BY <1>5 DEF Crash, ReadInv
  <1>6. ASSUME NEW p \in Appenders, NEW n \in 1 .. MaxBatch, AppendStart(p, n) \/ AppendRoll(p, n) PROVE ReadInv'
    <2>1. CASE AppendStart(p, n)
      BY <1>1, <1>2, <2>1 DEF AppendStart
    <2>2. CASE AppendRoll(p, n)
      BY <2>2, RollReads
    <2> QED
      BY <1>6, <2>1, <2>2
  <1>7. ASSUME NEW p \in Appenders, AppendStored(p) \/ AppendFailed(p) PROVE ReadInv'
    <2>1. CASE AppendStored(p)
      BY <2>1, StoredReads
    <2>2. CASE AppendFailed(p)
      BY <1>1, <1>2, <2>2 DEF AppendFailed
    <2> QED
      BY <1>7, <2>1, <2>2
  <1>8. ASSUME NEW b \in Bases, EvictSegment(b) PROVE ReadInv'
    BY <1>1, <1>2, <1>8 DEF EvictSegment
  <1> QED
    BY <1>3, <1>4, <1>5, <1>6, <1>7, <1>8 DEF Next

\* A read from any stored message on, with any limit, returns the next messages in
\* order and none but them, across segments and the gaps of failed appends, and the
\* messages this topic object acknowledged are among those that are read, for any
\* number of goroutines, appends and sizes (topic.go readMessages, segment.go).
THEOREM ReadsCorrect == Spec => []ReadsBack
  <1>1. Init => TopicInv /\ ReadInv
    BY InitInv DEF Init, ReadInv
  <1>2. TopicInv /\ ReadInv /\ [Next]_vars => (TopicInv /\ ReadInv)'
    BY NextInv, ReadNext
  <1>3. TopicInv /\ ReadInv => ReadsBack
    <2> SUFFICES ASSUME TopicInv, ReadInv, live, Apart
                 PROVE  /\ mine \subseteq Listed
                        /\ \A s \in Listed, limit \in 1 .. MaxAppends :
                              LET got  == ReadMessages(s, limit)
                                  want == {x \in Listed : x >= s}
                              IN  /\ Increasing(got)
                                  /\ ToSet(got) \subseteq want
                                  /\ Len(got) = Min({limit, Cardinality(want)})
                                  /\ \A i \in DOMAIN got, x \in want \ ToSet(got) : got[i] < x
      BY DEF ReadsBack
    <2>1. mine \subseteq Listed /\ Chained
      BY DEF ReadInv
    <2>2. 1 .. MaxAppends \subseteq Nat
      BY BoundsAssumption
    <2> QED
      BY <2>1, <2>2, Reading
  <1> QED
    BY <1>1, <1>2, <1>3, PTL DEF Spec

-----------------------------------------------------------------------------
(* The log that the segments implement.                                    *)

\* The numbers of an append follow each other, the topic begins with file 0, and there
\* is nothing in any file before that.
Begun ==
    /\ \A p \in Appenders : Busy(p) =>
          \E x \in Bases, n \in 1 .. MaxBatch : job[p].seqs = [i \in 1 .. n |-> x + i]
    /\ segments = <<>> => \A b \in Bases : disk[b] = <<>>
    /\ segments # <<>> => segments[1] = 0

\* The last number is a base, or could be.
LEMMA LastInBases ==
  ASSUME Typing, Counted, appends <= MaxAppends
  PROVE  last \in Bases
  <1>0. appends \in Nat /\ MaxAppends \in Nat /\ MaxBatch \in Nat /\ last \in Nat
    BY BoundsAssumption DEF Typing
  <1>1. appends * MaxBatch <= MaxAppends * MaxBatch
    BY <1>0, Product
  <1>2. appends * MaxBatch \in Nat /\ MaxAppends * MaxBatch \in Nat
    BY <1>0, Product
  <1>3. last <= appends * MaxBatch
    BY DEF Counted, Limit
  <1> QED
    BY <1>0, <1>1, <1>2, <1>3 DEF Bases

\* Nothing has begun at first.
LEMMA BegunInit == Init => Begun
  BY DEF Init, Begun, Busy

\* A step begins one append at most, and adds to the segments at their end.
LEMMA BegunNext == TopicInv /\ Begun /\ [Next]_vars => Begun'
  <1> SUFFICES ASSUME TopicInv, Begun, [Next]_vars PROVE Begun'
    OBVIOUS
  <1>1. ASSUME \A p \in Appenders : Busy(p)' => Busy(p) /\ job'[p].seqs = job[p].seqs
        PROVE  \A p \in Appenders : Busy(p)' =>
                  \E x \in Bases, n \in 1 .. MaxBatch : job'[p].seqs = [i \in 1 .. n |-> x + i]
    BY <1>1 DEF Begun
  <1>2. ASSUME NEW gone, job' = Closed(job, gone)
        PROVE  \A p \in Appenders : Busy(p)' => Busy(p) /\ job'[p].seqs = job[p].seqs
    <2> SUFFICES ASSUME NEW p \in Appenders, Busy(p)' PROVE Busy(p) /\ job'[p].seqs = job[p].seqs
      OBVIOUS
    <2>1. Busy(p)
      BY <1>2 DEF Closed, Busy
    <2>2. job[p] \in Jobs
      BY <2>1 DEF TopicInv, Typing
    <2>3. job'[p] = job[p] \/ job'[p] = [job[p] EXCEPT !.handle = FALSE]
      BY <1>2 DEF Closed
    <2> QED
      BY <2>1, <2>2, <2>3 DEF Jobs
  <1>3. CASE UNCHANGED vars
    BY <1>1, <1>3 DEF vars, Begun, Busy
  <1>4. CASE NewTopic
    <2>1. segments' = <<0>> /\ job' = job
      BY <1>4 DEF NewTopic, ListedSegments
    <2>2. segments' # <<>> /\ segments'[1] = 0
      BY <2>1
    <2> QED
      BY <1>1, <2>1, <2>2 DEF Begun, Busy
  <1>5. CASE Crash
    <2>1. segments' = segments /\ live /\ \A p \in Appenders : ~Busy(p)'
      BY <1>5 DEF Crash, Busy
    <2>2. segments # <<>>
      BY <2>1 DEF TopicInv, Typing
    <2> QED
      BY <2>1, <2>2 DEF Begun
  <1>6. ASSUME NEW p \in Appenders, NEW n \in 1 .. MaxBatch, AppendStart(p, n) \/ AppendRoll(p, n) PROVE Begun'
    <2>1. /\ live /\ segments \in Seq(Bases) /\ segments # <<>> /\ job[p] = NoJob /\ DOMAIN job = Appenders
          /\ segments' = segments \/ segments' = Append(segments, last + n)
      BY <1>6 DEF AppendStart, AppendRoll, TopicInv, Typing
    <2>2. segments' # <<>> /\ segments'[1] = segments[1]
      BY <2>1
    <2>3. \A q \in Appenders : q # p => ~Busy(q)
      BY <1>6, Unlocked DEF AppendStart, AppendRoll, TopicInv
    <2>4. PICK b, h : \/ job' = [job EXCEPT ![p] = [gen |-> gen, base |-> b, handle |-> h, seqs |-> NextSeqs(n)]]
                      \/ job' = [Closed(job, {b}) EXCEPT
                                   ![p] = [gen |-> gen, base |-> b, handle |-> h, seqs |-> NextSeqs(n)]]
      BY <1>6 DEF AppendStart, AppendRoll
    <2>5. \A q \in Appenders : Busy(q)' => q = p /\ job'[q].seqs = NextSeqs(n)
      <3>1. PICK r : /\ r = [gen |-> gen, base |-> b, handle |-> h, seqs |-> NextSeqs(n)]
                     /\ job' = [job EXCEPT ![p] = r] \/ job' = [Closed(job, {b}) EXCEPT ![p] = r]
        BY <2>4
      <3>2. r.seqs = NextSeqs(n)
        BY <3>1
      <3>3. DOMAIN Closed(job, {b}) = Appenders /\ \A q \in Appenders : q # p => Closed(job, {b})[q] = NoJob
        BY <2>3 DEF Closed, Busy
      <3>4. DOMAIN job = Appenders /\ \A q \in Appenders : q # p => job[q] = NoJob
        BY <2>1, <2>3 DEF Busy
      <3>5. job'[p] = r /\ \A q \in Appenders : q # p => job'[q] = NoJob
        BY <3>1, <3>3, <3>4
      <3> QED
        BY <3>2, <3>5 DEF Busy
    <2>6. last \in Bases
      BY LastInBases DEF TopicInv, Typing
    <2> QED
      BY <2>1, <2>2, <2>5, <2>6 DEF Begun, NextSeqs
  <1>7. ASSUME NEW p \in Appenders, AppendStored(p) \/ AppendFailed(p) PROVE Begun'
    <2>1. job' = [job EXCEPT ![p] = NoJob] /\ segments' = segments
      BY <1>7 DEF AppendStored, AppendFailed
    <2>2. \A q \in Appenders : Busy(q)' => Busy(q) /\ job'[q].seqs = job[q].seqs
      BY <2>1 DEF Busy, TopicInv, Typing
    <2>3. Busy(p)
      BY <1>7 DEF AppendStored, AppendFailed, Busy
    <2>4. segments # <<>>
      BY <2>3 DEF TopicInv, Typing, Lock
    <2> QED
      BY <1>1, <2>1, <2>2, <2>4 DEF Begun
  <1>8. ASSUME NEW b \in Bases, EvictSegment(b) PROVE Begun'
    <2>1. job' = Closed(job, {b}) /\ UNCHANGED <<segments, disk>>
      BY <1>8 DEF EvictSegment
    <2>2. \A p \in Appenders : Busy(p)' => Busy(p) /\ job'[p].seqs = job[p].seqs
      BY <1>2, <2>1
    <2> QED
      BY <1>1, <2>1, <2>2 DEF Begun
  <1> QED
    BY <1>3, <1>4, <1>5, <1>6, <1>7, <1>8 DEF Next

\* What is written to the last file is stored and listed.
LEMMA WriteShows ==
  ASSUME Typing, live, NEW w \in Seq(Nat), disk' = [disk EXCEPT ![Last(segments)] = @ \o w], segments' = segments
  PROVE  Stored' = Stored \cup ToSet(w) /\ Listed' = Listed \cup ToSet(w)
  <1>1. PICK f : f = Last(segments)
    OBVIOUS
  <1>2. f \in Bases /\ disk' = [disk EXCEPT ![f] = @ \o w]
    BY <1>1, LastSegment
  <1>3. /\ disk'[f] = disk[f] \o w /\ disk[f] \in Seq(Nat)
        /\ \A b \in Bases : b # f => disk'[b] = disk[b]
    BY <1>2, FileGrows
  <1>4. ToSet(disk'[f]) = ToSet(disk[f]) \cup ToSet(w)
    BY <1>3, JoinedSet
  <1>5. \A b \in Bases : /\ ToSet(disk[b]) \subseteq ToSet(disk'[b])
                          /\ ToSet(disk'[b]) \subseteq ToSet(disk[b]) \cup ToSet(w)
    BY <1>3, <1>4
  <1>6. Stored' = Stored \cup ToSet(w)
    <2>1. ASSUME NEW y \in Stored' PROVE y \in Stored \cup ToSet(w)
      <3>1. PICK b \in Bases : y \in ToSet(disk'[b])
        BY DEF Stored
      <3>2. y \in ToSet(disk[b]) \/ y \in ToSet(w)
        BY <1>5, <3>1
      <3> QED
        BY <3>2 DEF Stored
    <2>2. ASSUME NEW y \in Stored PROVE y \in Stored'
      <3>1. PICK b \in Bases : y \in ToSet(disk[b])
        BY DEF Stored
      <3> QED
        BY <1>5, <3>1 DEF Stored
    <2>3. ASSUME NEW y \in ToSet(w) PROVE y \in Stored'
      BY <1>2, <1>4, <2>3 DEF Stored
    <2> QED
      BY <2>1, <2>2, <2>3
  <1>7. /\ \A i \in DOMAIN segments : segments[i] \in Bases
        /\ \E i \in DOMAIN segments : segments[i] = f
    <2>1. segments \in Seq(Bases) /\ segments # <<>>
      BY DEF Typing
    <2>2. Len(segments) \in DOMAIN segments /\ segments[Len(segments)] = f
      BY <1>1, <2>1 DEF Last
    <2> QED
      BY <2>1, <2>2
  <1>8. Listed' = Listed \cup ToSet(w)
    <2>1. ASSUME NEW y \in Listed' PROVE y \in Listed \cup ToSet(w)
      <3>1. PICK i \in DOMAIN segments : y \in ToSet(disk'[segments[i]])
        BY DEF Listed
      <3>2. y \in ToSet(disk[segments[i]]) \/ y \in ToSet(w)
        BY <1>5, <1>7, <3>1
      <3> QED
        BY <3>2 DEF Listed
    <2>2. ASSUME NEW y \in Listed PROVE y \in Listed'
      <3>1. \A i \in DOMAIN segments : ToSet(disk[segments[i]]) \subseteq ToSet(disk'[segments[i]])
        BY <1>5, <1>7
      <3> QED
        BY <3>1, ListedGrows
    <2>3. ASSUME NEW y \in ToSet(w) PROVE y \in Listed'
      <3>1. PICK i \in DOMAIN segments : segments[i] = f
        BY <1>7
      <3>2. y \in ToSet(disk'[segments'[i]]) /\ i \in DOMAIN segments'
        BY <1>4, <2>3, <3>1
      <3> QED
        BY <3>2 DEF Listed
    <2> QED
      BY <2>1, <2>2, <2>3
  <1> QED
    BY <1>6, <1>8

\* While Apart, nothing listed is above the last number, and what an append can still
\* write is above everything listed.
LEMMA ListedTop ==
  ASSUME TopicInv, ReadInv, live, Apart, NEW x \in Listed
  PROVE  /\ x \in Nat /\ x <= last
         /\ \A p \in Appenders : Busy(p) /\ job[p].handle => \A i \in DOMAIN job[p].seqs : x < job[p].seqs[i]
  <1>1. Typing /\ Sorted /\ Counted /\ Numbers /\ Chained
    BY DEF TopicInv, ReadInv
  <1>2. PICK k \in DOMAIN segments : x \in ToSet(disk[segments[k]])
    BY DEF Listed
  <1>3. PICK l : l = Len(segments)
    OBVIOUS
  <1>4. /\ l \in DOMAIN segments /\ Last(segments) = segments[l] /\ (k < l \/ k = l) /\ last \in Nat
        /\ Last(segments) \in Bases /\ Last(segments) <= last
    <2>1. segments \in Seq(Bases) /\ segments # <<>> /\ last \in Nat
      BY <1>1 DEF Typing
    <2>2. Last(segments) <= last
      BY <1>1 DEF Counted
    <2> QED
      BY <1>3, <2>1, <2>2, LastSegment, <1>1 DEF Last
  <1>5. /\ x \in Nat /\ segments[l] \in Nat
        /\ k < l => x <= segments[l]
    BY <1>1, <1>2, <1>4, Between
  <1>6. \A m \in DOMAIN disk[segments[l]] : disk[segments[l]][m] <= last
    BY <1>1, <1>4 DEF Sorted, UpTo
  <1>7. x <= last
    <2>1. CASE k < l
      BY <1>4, <1>5, <2>1
    <2>2. CASE k = l
      BY <1>2, <1>6, <2>2 DEF ToSet
    <2> QED
      BY <1>4, <2>1, <2>2
  <1>8. ASSUME NEW p \in Appenders, Busy(p), job[p].handle, NEW i \in DOMAIN job[p].seqs
        PROVE  x < job[p].seqs[i]
    <2>1. job[p].base = segments[l] /\ job[p].seqs[i] \in Nat
      <3>1. job[p] \in Jobs /\ job[p].base = Last(segments)
        BY <1>1, <1>8 DEF Numbers, Typing
      <3>2. job[p].seqs \in Seq(Nat)
        BY <3>1 DEF Jobs
      <3> QED
        BY <1>4, <1>8, <3>1, <3>2
    <2>2. segments[l] < job[p].seqs[i]
      BY <1>1, <1>8, <2>1 DEF Counted
    <2>3. CASE k < l
      BY <1>5, <2>1, <2>2, <2>3
    <2>4. CASE k = l
      <3>1. Below(disk[job[p].base], job[p].seqs)
        BY <1>1, <1>8 DEF Sorted
      <3>2. PICK m \in DOMAIN disk[segments[l]] : disk[segments[l]][m] = x
        BY <1>2, <2>4 DEF ToSet
      <3> QED
        BY <1>8, <2>1, <3>1, <3>2 DEF Below
    <2> QED
      BY <1>4, <2>3, <2>4
  <1> QED
    BY <1>5, <1>7, <1>8

\* Writing to the log,
LEMMA WriteImplemented ==
  ASSUME TopicInv, ReadInv, live, NEW p \in Appenders, Busy(p), job[p].handle,
         NEW x \in Nat, NEW n \in Nat,
         NEW w \in Seq(Nat), Len(w) = n, \A i \in 1 .. n : w[i] = x + i,
         \A i \in DOMAIN w : i \in DOMAIN job[p].seqs /\ w[i] = job[p].seqs[i],
         disk' = [disk EXCEPT ![job[p].base] = @ \o w], segments' = segments
  PROVE  ImplementsLog!Write(x, n)
  <1>1. w \in Seq(Nat) /\ DOMAIN w = 1 .. n /\ ToSet(w) = x + 1 .. x + n
    <2>1. w \in Seq(Nat) /\ DOMAIN w = 1 .. n
      OBVIOUS
    <2>2. ASSUME NEW y \in x + 1 .. x + n PROVE y \in ToSet(w)
      <3>1. y - x \in 1 .. n /\ w[y - x] = y
        OBVIOUS
      <3> QED
        BY <2>1, <3>1 DEF ToSet
    <2>3. ASSUME NEW y \in ToSet(w) PROVE y \in x + 1 .. x + n
      <3>1. PICK i \in 1 .. n : w[i] = y
        BY <2>1 DEF ToSet
      <3> QED
        BY <3>1
    <2> QED
      BY <2>1, <2>2, <2>3
  <1>2. job[p].base = Last(segments) /\ Typing
    BY DEF TopicInv, Numbers
  <1>3. Stored' = Stored \cup ToSet(w) /\ Listed' = Listed \cup ToSet(w)
    BY <1>1, <1>2, WriteShows
  <1>4. ASSUME Apart, NEW old \in Listed, NEW y \in x + 1 .. x + n
        PROVE  old < y
    <2>1. PICK i \in DOMAIN w : w[i] = y
      BY <1>1, <1>4 DEF ToSet
    <2> QED
      BY <1>4, <2>1, ListedTop
  <1> QED
    BY <1>1, <1>3, <1>4
       DEF ImplementsLog!Write, ImplementsLog!Behind, ImplementsLog!Numbers

\* an append that succeeds,
LEMMA StoreImplemented ==
  ASSUME TopicInv, ReadInv, Begun, NEW p \in Appenders, AppendStored(p)
  PROVE  ImplementsLog!LogNext
  <1>1. /\ Busy(p) /\ job[p].handle /\ live
        /\ disk' = [disk EXCEPT ![job[p].base] = @ \o job[p].seqs] /\ acks' = acks \o job[p].seqs
        /\ UNCHANGED <<segments, crashes, evicts>>
    BY DEF AppendStored, Busy, TopicInv, Lock
  <1>2. PICK x \in Bases, n \in 1 .. MaxBatch : job[p].seqs = [i \in 1 .. n |-> x + i]
    BY <1>1 DEF Begun
  <1>3. x \in Nat /\ n \in Nat /\ n > 0 /\ x \in 0 .. MaxAppends * MaxBatch
    BY BasesNat, BoundsAssumption DEF Bases
  <1>4. ImplementsLog!Write(x, n)
    <2>1. PICK s : s = job[p].seqs
      OBVIOUS
    <2>2. s \in Seq(Nat) /\ Len(s) = n /\ \A i \in 1 .. n : s[i] = x + i
      BY <1>2, <1>3, <2>1
    <2>3. \A i \in DOMAIN s : i \in DOMAIN job[p].seqs /\ s[i] = job[p].seqs[i]
      BY <2>1
    <2>4. disk' = [disk EXCEPT ![job[p].base] = @ \o s]
      BY <1>1, <2>1
    <2>5. Busy(p) /\ job[p].handle /\ live /\ segments' = segments
      BY <1>1
    <2>6. x \in Nat /\ n \in Nat
      BY <1>3
    <2> QED
      BY <2>2, <2>3, <2>4, <2>5, <2>6, WriteImplemented, ZenonT(60)
  <1>5. ASSUME ~(crashes > 0), NEW i \in DOMAIN acks PROVE acks[i] <= x
    <2>1. crashes = 0 /\ acks \in Seq(Nat)
      BY <1>5 DEF TopicInv, Typing
    <2>2. Below(acks, job[p].seqs)
      BY <1>1, <2>1 DEF TopicInv, Answered
    <2>3. 1 \in DOMAIN job[p].seqs /\ job[p].seqs[1] = x + 1
      BY <1>2, <1>3
    <2>4. acks[i] < x + 1 /\ acks[i] \in Nat
      BY <1>5, <2>1, <2>2, <2>3 DEF Below
    <2> QED
      BY <1>3, <2>4
  <1>6. Apart' = Apart /\ (crashes > 0)' = (crashes > 0)
    BY <1>1 DEF Apart
  <1>7. ImplementsLog!Store(x, n)
    BY <1>1, <1>2, <1>4, <1>5, <1>6 DEF ImplementsLog!Store, ImplementsLog!Batch
  <1> QED
    BY <1>3, <1>7 DEF ImplementsLog!LogNext

\* the end of the server,
LEMMA EndImplemented ==
  ASSUME TopicInv, ReadInv, Begun, Crash
  PROVE  ImplementsLog!LogNext
  <1>1. /\ live /\ crashes' = crashes + 1 /\ crashes \in Nat /\ UNCHANGED <<segments, acks, evicts>>
    BY DEF Crash, TopicInv, Typing
  <1>2. crashes' > 0 /\ (Apart' => Apart)
    BY <1>1 DEF Apart
  <1>3. \E x \in 0 .. MaxAppends * MaxBatch, n \in 0 .. MaxBatch : ImplementsLog!Write(x, n)
    <2>1. CASE UNCHANGED disk
      <3>1. Stored' = Stored /\ Listed' = Listed
        BY <1>1, <2>1 DEF Stored, Listed
      <3>2. 0 + 1 .. 0 + 0 = {}
        OBVIOUS
      <3>3. ImplementsLog!Write(0, 0)
        BY <3>1, <3>2 DEF ImplementsLog!Write, ImplementsLog!Behind, ImplementsLog!Numbers
      <3>4. 0 \in 0 .. MaxAppends * MaxBatch /\ 0 \in 0 .. MaxBatch
        BY BasesNat, BoundsAssumption DEF Bases
      <3> QED
        BY <3>3, <3>4
    <2>2. ASSUME NEW p \in Appenders, Busy(p), job[p].handle, NEW w \in Written(job[p]),
                 disk' = [disk EXCEPT ![job[p].base] = @ \o w]
          PROVE  \E x \in 0 .. MaxAppends * MaxBatch, n \in 0 .. MaxBatch : ImplementsLog!Write(x, n)
      <3>1. PICK x \in Bases, n \in 1 .. MaxBatch : job[p].seqs = [i \in 1 .. n |-> x + i]
        BY <2>2 DEF Begun
      <3>2. PICK s : s = job[p].seqs
        OBVIOUS
      <3>3. x \in Nat /\ n \in Nat /\ n <= MaxBatch /\ MaxBatch \in Nat /\ x \in 0 .. MaxAppends * MaxBatch
        BY BasesNat, BoundsAssumption DEF Bases
      <3>4. s \in Seq(Nat) /\ Len(s) = n /\ \A i \in 1 .. n : s[i] = x + i
        BY <3>1, <3>2, <3>3
      <3>5. PICK k \in 0 .. n : w = SubSeq(s, 1, k)
        BY <2>2, <3>2, <3>4 DEF Written
      <3>6. w = [i \in 1 .. k |-> x + i] /\ \A i \in DOMAIN w : i \in DOMAIN s /\ w[i] = s[i]
        BY <3>3, <3>4, <3>5
      <3>7. k \in Nat /\ k \in 0 .. MaxBatch
        BY <3>3
      <3>8. \A i \in DOMAIN w : i \in DOMAIN job[p].seqs /\ w[i] = job[p].seqs[i]
        BY <3>2, <3>6
      <3>9. w \in Seq(Nat) /\ Len(w) = k /\ \A i \in 1 .. k : w[i] = x + i
        BY <3>3, <3>6, <3>7
      <3>10. ImplementsLog!Write(x, k)
        BY <1>1, <2>2, <3>3, <3>7, <3>8, <3>9, WriteImplemented, ZenonT(60)
      <3> QED
        BY <3>3, <3>7, <3>10
    <2> QED
      BY <2>1, <2>2 DEF Crash, Busy
  <1>4. PICK x \in 0 .. MaxAppends * MaxBatch, n \in 0 .. MaxBatch : ImplementsLog!Write(x, n)
    BY <1>3
  <1>5. ImplementsLog!End(x, n)
    BY <1>1, <1>2, <1>4 DEF ImplementsLog!End
  <1> QED
    BY <1>4, <1>5 DEF ImplementsLog!LogNext

\* and the start of a topic object.
LEMMA NewTopicImplemented ==
  ASSUME TopicInv, Begun, NewTopic
  PROVE  ImplementsLog!LogNext
  <1>1. segments' = <<0>> /\ UNCHANGED <<disk, acks, crashes, evicts>> /\ ~live
    BY DEF NewTopic, ListedSegments
  <1>2. Stored' = Stored /\ Apart' = Apart
    BY <1>1 DEF Stored, Apart
  <1>3. 0 \in Bases
    BY BasesNat
  <1>4. Listed' = ToSet(disk[0])
    <2>1. DOMAIN segments' = {1} /\ segments'[1] = 0
      BY <1>1
    <2> QED
      BY <1>1, <2>1 DEF Listed
  <1>5. Listed' \subseteq Listed
    <2>1. CASE segments = <<>>
      <3>1. disk[0] = <<>>
        BY <1>3, <2>1 DEF Begun
      <3>2. ToSet(disk[0]) = {}
        BY <3>1 DEF ToSet
      <3> QED
        BY <1>4, <3>2
    <2>2. CASE segments # <<>>
      <3>1. 1 \in DOMAIN segments /\ segments[1] = 0
        BY <2>2 DEF Begun, TopicInv, Typing
      <3> QED
        BY <1>4, <3>1 DEF Listed
    <2> QED
      BY <2>1, <2>2
  <1>6. CASE crashes > 0
    BY <1>1, <1>2, <1>5, <1>6 DEF ImplementsLog!LogNext, ImplementsLog!Restart
  <1>7. CASE ~(crashes > 0)
    <2>1. crashes = 0 /\ \A b \in Bases : disk[b] = <<>>
      BY <1>1, <1>7 DEF TopicInv, Typing, Untouched
    <2>2. \A b \in Bases : ToSet(disk[b]) = {}
      BY <2>1 DEF ToSet
    <2>3. Listed = {}
      <3>1. \A i \in DOMAIN segments : segments[i] \in Bases
        BY DEF TopicInv, Typing
      <3> QED
        BY <2>2, <3>1 DEF Listed
    <2>4. Listed' = Listed
      BY <1>5, <2>3
    <2> QED
      BY <1>1, <1>2, <2>4 DEF ImplementsLog!LogNext, ImplementsLog!Disturb
  <1> QED
    BY <1>6, <1>7

\* A roll to a file that an earlier topic object has left shows what is in it.
LEMMA RollImplemented ==
  ASSUME TopicInv, ReadInv, NEW p \in Appenders, NEW n \in 1 .. MaxBatch, AppendRoll(p, n)
  PROVE  ImplementsLog!LogNext
  <1>1. PICK b : b = last + n
    OBVIOUS
  <1>2. /\ segments' = Append(segments, b) /\ UNCHANGED <<disk, acks, crashes, evicts>> /\ live
        /\ appends < MaxAppends
    BY <1>1 DEF AppendRoll
  <1>3. /\ Typing /\ Counted /\ last \in Nat /\ n \in Nat /\ n > 0 /\ b \in Nat /\ last < b
        /\ segments \in Seq(Bases)
    BY <1>1, BoundsAssumption DEF TopicInv, Typing
  <1>4. b \in Bases
    <2>1. appends' = appends + 1 /\ n <= MaxBatch /\ MaxBatch \in Nat
      BY BoundsAssumption DEF AppendRoll
    <2>2. Limit \in Nat /\ \A y \in Nat : y <= Limit + MaxBatch => y \in Bases
      BY <1>2, <1>3, <2>1, LimitGrows
    <2>3. last <= Limit
      BY <1>3 DEF Counted
    <2> QED
      BY <1>1, <1>3, <2>1, <2>2, <2>3
  <1>5. Stored' = Stored /\ Apart' = Apart
    BY <1>2 DEF Stored, Apart
  <1>6. Listed' = Listed \cup ToSet(disk[b])
    <2>1. PICK l : l = Len(segments)
      OBVIOUS
    <2>2. /\ l \in Nat /\ DOMAIN segments = 1 .. l /\ DOMAIN segments' = 1 .. l + 1 /\ segments'[l + 1] = b
          /\ \A i \in 1 .. l : segments'[i] = segments[i]
      BY <1>2, <1>3, <1>4, <2>1
    <2>3. ASSUME NEW y \in Listed' PROVE y \in Listed \cup ToSet(disk[b])
      <3>1. PICK i \in DOMAIN segments' : y \in ToSet(disk[segments'[i]])
        BY <1>2 DEF Listed
      <3>2. (i \in DOMAIN segments /\ segments'[i] = segments[i]) \/ segments'[i] = b
        BY <2>2
      <3> QED
        BY <3>1, <3>2 DEF Listed
    <2>4. ASSUME NEW y \in Listed PROVE y \in Listed'
      <3>1. PICK i \in DOMAIN segments : y \in ToSet(disk[segments[i]])
        BY DEF Listed
      <3>2. i \in DOMAIN segments' /\ y \in ToSet(disk'[segments'[i]])
        BY <1>2, <2>2, <3>1
      <3> QED
        BY <3>2 DEF Listed
    <2>5. ASSUME NEW y \in ToSet(disk[b]) PROVE y \in Listed'
      <3>1. l + 1 \in DOMAIN segments' /\ y \in ToSet(disk'[segments'[l + 1]])
        BY <1>2, <2>2, <2>5
      <3> QED
        BY <3>1 DEF Listed
    <2> QED
      BY <2>3, <2>4, <2>5
  <1>7. CASE crashes > 0
    <2>1. Listed' \subseteq Stored
      <3>1. Listed \subseteq Stored
        <4>1. \A i \in DOMAIN segments : segments[i] \in Bases
          BY <1>3
        <4> QED
          BY <4>1 DEF Listed, Stored
      <3>2. ToSet(disk[b]) \subseteq Stored
        BY <1>4 DEF Stored
      <3> QED
        BY <1>6, <3>1, <3>2
    <2>2. ASSUME Apart, NEW old \in Listed, NEW y \in Listed' \ Listed
          PROVE  old < y
      <3>1. PICK m \in DOMAIN disk[b] : disk[b][m] = y
        BY <1>6, <2>2 DEF ToSet
      <3>2. y \in Nat /\ b < y
        <4>1. disk[b] \in Seq(Nat)
          BY <1>3, <1>4 DEF Typing
        <4> QED
          BY <1>3, <1>4, <3>1, <4>1 DEF Counted
      <3>3. old \in Nat /\ old <= last
        BY <1>2, <2>2, ListedTop
      <3> QED
        BY <1>3, <3>2, <3>3
    <2>3. Listed \subseteq Listed'
      BY <1>6
    <2> QED
      BY <1>2, <1>5, <1>7, <2>1, <2>2, <2>3
         DEF ImplementsLog!LogNext, ImplementsLog!Find, ImplementsLog!Behind
  <1>8. CASE ~(crashes > 0)
    <2>1. disk[b] = <<>>
      BY <1>3, <1>4, <1>8 DEF TopicInv, Typing, Untouched
    <2>2. ToSet(disk[b]) = {}
      BY <2>1 DEF ToSet
    <2>3. Listed' = Listed
      BY <1>6, <2>2
    <2> QED
      BY <1>2, <1>5, <2>3 DEF ImplementsLog!LogNext, ImplementsLog!Disturb
  <1> QED
    BY <1>7, <1>8

\* The segments of a topic implement the log that senders and readers know: a batch comes
\* behind all that is read and is returned only if it is stored, nothing is lost until a
\* restart, and whatever a roll brings back is above the rest; for any number of
\* goroutines, appends, restarts and evictions (topic.go, segment.go).
THEOREM LogImplemented == Spec => RefinesLog
  <1>1. Init => TopicInv /\ ReadInv /\ Begun
    BY InitInv, BegunInit DEF Init, ReadInv
  <1>2. TopicInv /\ ReadInv /\ Begun /\ [Next]_vars => (TopicInv /\ ReadInv /\ Begun)'
    BY NextInv, ReadNext, BegunNext
  <1>3. Init => ImplementsLog!LogInit
    <2> SUFFICES ASSUME Init PROVE ImplementsLog!LogInit
      OBVIOUS
    <2>1. /\ segments = <<>> /\ acks = <<>> /\ crashes = 0
          /\ \A b \in Bases : disk[b] = <<>>
      BY DEF Init
    <2>2. \A b \in Bases : ToSet(disk[b]) = {}
      BY <2>1 DEF ToSet
    <2>3. Stored = {} /\ Listed = {}
      BY <2>1, <2>2 DEF Stored, Listed
    <2>4. Apart /\ ~(crashes > 0)
      BY <2>1 DEF Apart
    <2> QED
      BY <2>1, <2>3, <2>4 DEF ImplementsLog!LogInit
  <1>4. TopicInv /\ ReadInv /\ Begun /\ [Next]_vars => [ImplementsLog!LogNext]_(ImplementsLog!logVars)
    <2> SUFFICES ASSUME TopicInv, ReadInv, Begun, [Next]_vars
                 PROVE  [ImplementsLog!LogNext]_(ImplementsLog!logVars)
      OBVIOUS
    <2>1. ASSUME UNCHANGED <<disk, segments, acks, crashes>>, Apart' => Apart
          PROVE  ImplementsLog!LogNext
      <3>1. Stored' = Stored /\ Listed' = Listed
        BY <2>1 DEF Stored, Listed
      <3> QED
        BY <2>1, <3>1 DEF ImplementsLog!LogNext, ImplementsLog!Disturb
    <2>2. ASSUME crashes' = crashes, evicts' = evicts \/ evicts' = evicts + 1 PROVE Apart' => Apart
      BY <2>2 DEF Apart, TopicInv, Typing
    <2>3. CASE UNCHANGED vars
      BY <2>1, <2>2, <2>3 DEF vars
    <2>4. CASE NewTopic \/ Crash
      BY <2>4, NewTopicImplemented, EndImplemented
    <2>5. ASSUME NEW p \in Appenders, NEW n \in 1 .. MaxBatch, AppendStart(p, n) \/ AppendRoll(p, n)
          PROVE  ImplementsLog!LogNext
      <3>1. CASE AppendStart(p, n)
        BY <2>1, <2>2, <3>1 DEF AppendStart
      <3> QED
        BY <2>5, <3>1, RollImplemented
    <2>6. ASSUME NEW p \in Appenders, AppendStored(p) \/ AppendFailed(p)
          PROVE  ImplementsLog!LogNext
      <3>1. CASE AppendFailed(p)
        BY <2>1, <2>2, <3>1 DEF AppendFailed
      <3> QED
        BY <2>6, <3>1, StoreImplemented
    <2>7. ASSUME NEW b \in Bases, EvictSegment(b)
          PROVE  ImplementsLog!LogNext
      BY <2>1, <2>2, <2>7 DEF EvictSegment
    <2> QED
      BY <2>3, <2>4, <2>5, <2>6, <2>7 DEF Next
  <1> QED
    BY <1>1, <1>2, <1>3, <1>4, PTL DEF Spec, RefinesLog, ImplementsLog!LogSpec
=============================================================================
