------------------------------ MODULE TopicLog ------------------------------
(***************************************************************************)
(* The message log of one topic, a channel or a user queue                  *)
(* (pkg/okstore: topic.go, segment.go, slot.go, filestore_msg.go).  A topic *)
(* is a list of segment files, each named after a base sequence number.     *)
(* The topic object counts the message sequence numbers, appends to the     *)
(* last segment and rolls to a new one when that is full.  Segments are     *)
(* open while they are in a cache shared by all topics; the topic object    *)
(* itself lives in the cache of its slot.                                   *)
(*                                                                         *)
(* Abstractions.  A stored message is its sequence number.  Positions and   *)
(* sizes count messages.  The sparse index only tells where a search may    *)
(* begin and is left out, with the bytes that a torn write leaves: check    *)
(* cuts them off before the segment is used.  The server crashes, the       *)
(* machine does not: what was written stays.                                *)
(***************************************************************************)
EXTENDS Naturals, Sequences, SequencesExt, FiniteSetsExt

CONSTANTS
    Appenders,   \* goroutines that append to this topic
    MaxPos,      \* cfg.SegmentMaxBytes: a longer segment is full
    MaxBatch,    \* messages per append
    MaxAppends,  \* bound: appends
    MaxCrashes,  \* bound: crashes of the server
    MaxEvicts,   \* bound: evictions of segments
    NoJob

ASSUME BoundsAssumption ==
    /\ MaxPos \in Nat
    /\ MaxBatch \in Nat \ {0}
    /\ {MaxAppends, MaxCrashes, MaxEvicts} \subseteq Nat

VARIABLES
    disk,      \* the content of each segment file
    live,      \* the topic object is in its slot's cache
    gen,       \* which topic object that is
    segments,  \* topic.segments
    last,      \* topic.lastMsgSeq
    open,      \* the segments in segmentCache
    segLast,   \* segment.lastMsgSeq, set when the segment was opened
    job,       \* the append each goroutine is in
    acks,      \* history: the sequence numbers returned to senders, in order
    mine,      \* history: those that this topic object returned
    appends, crashes, evicts

vars == <<disk, live, gen, segments, last, open, segLast, job, acks, mine,
          appends, crashes, evicts>>

\* Every base is 0 or a sequence number.
Bases == 0 .. MaxAppends * MaxBatch

\* handle: the held segment is still open.
Jobs == [gen : Nat, base : Bases, handle : BOOLEAN, seqs : Seq(Nat)]

ASSUME NoJobAssumption == NoJob \notin Jobs

TypeOK ==
    /\ disk \in [Bases -> Seq(Nat)]
    /\ live \in BOOLEAN
    /\ gen \in Nat
    /\ segments \in Seq(Bases)
    /\ last \in Nat
    /\ open \subseteq Bases
    /\ segLast \in [Bases -> Nat]
    /\ \A p \in Appenders : job[p] \in Jobs \/ job[p] = NoJob
    /\ acks \in Seq(Nat)
    /\ mine \subseteq Nat

Init ==
    /\ disk = [b \in Bases |-> <<>>]
    /\ live = FALSE
    /\ gen = 0
    /\ segments = <<>>
    /\ last = 0
    /\ open = {}
    /\ segLast = [b \in Bases |-> 0]
    /\ job = [p \in Appenders |-> NoJob]
    /\ acks = <<>>
    /\ mine = {}
    /\ appends = 0 /\ crashes = 0 /\ evicts = 0

-----------------------------------------------------------------------------
(* Segments.                                                               *)

\* Faulty variant: a single message is overlooked.
RecoveredNoSingle(b) == IF Len(disk[b]) <= 1 THEN b ELSE Last(disk[b])

\* segment.init: the last sequence number, as the file shows it.  A single
\* message is taken to be the one after the base.
Recovered(b) ==
    CASE disk[b] = <<>>    -> b
      [] Len(disk[b]) = 1  -> b + 1
      [] OTHER             -> Last(disk[b])

\* getSegment(b).lastMsgSeq: a segment in the cache is not looked at again.
SegmentLast(b) == IF b \in open THEN segLast[b] ELSE Recovered(b)

\* The cache after segment `gone` (if any) was removed and b was got.
GetSegment(b, gone) ==
    /\ open' = (open \ gone) \cup {b}
    /\ segLast' = [segLast EXCEPT ![b] = SegmentLast(b)]

\* Jobs whose segment has left the cache hold a closed file.
Closed(jobs, gone) ==
    [p \in Appenders |->
        IF jobs[p] # NoJob /\ jobs[p].base \in gone
        THEN [jobs[p] EXCEPT !.handle = FALSE] ELSE jobs[p]]

-----------------------------------------------------------------------------
(* The topic.                                                              *)

\* The segment files are in the subdirectory logs; the listing of topicDir
\* finds none of them.
ListedSegments == {}

\* getTopic makes a topic object: newTopic, initSegments, resetActiveSegment.
NewTopic ==
    LET segs == IF ListedSegments = {} THEN <<0>> ELSE SetToSortSeq(ListedSegments, <)
    IN  /\ ~live
        /\ live' = TRUE
        /\ gen' = gen + 1
        /\ segments' = segs
        /\ last' = SegmentLast(Last(segs))
        /\ GetSegment(Last(segs), {})
        /\ mine' = {}
        /\ UNCHANGED <<disk, job, acks, appends, crashes, evicts>>

\* Faulty variant: appends do not exclude each other.
NoAppendLock == TRUE

\* appendLock is a lock of the topic object.
AppendLockFree == \A q \in Appenders : job[q] # NoJob => job[q].gen # gen

NextSeqs(n) == [i \in 1 .. n |-> last + i]

\* appendMessages to a segment with room, up to the write: the numbers are
\* taken.
AppendStart(p, n) ==
    LET b == Last(segments)
    IN  /\ live
        /\ job[p] = NoJob
        /\ AppendLockFree
        /\ appends < MaxAppends
        /\ Len(disk[b]) <= MaxPos
        /\ job' = [job EXCEPT ![p] = [gen |-> gen, base |-> b, handle |-> TRUE,
                                      seqs |-> NextSeqs(n)]]
        /\ last' = last + n
        /\ GetSegment(b, {})
        /\ appends' = appends + 1
        /\ UNCHANGED <<disk, live, gen, segments, acks, mine, crashes, evicts>>

\* appendMessages to a full segment: roll takes the old segment off the cache,
\* which closes it, and makes the last number of the batch the new base; the
\* goroutine goes on with the segment it had.
AppendRoll(p, n) ==
    LET b == Last(segments)
        base == last + n
    IN  /\ live
        /\ job[p] = NoJob
        /\ AppendLockFree
        /\ appends < MaxAppends
        /\ Len(disk[b]) > MaxPos
        /\ segments' = Append(segments, base)
        /\ last' = SegmentLast(base)
        /\ GetSegment(base, {b})
        /\ job' = [Closed(job, {b}) EXCEPT
                     ![p] = [gen |-> gen, base |-> b, handle |-> FALSE,
                             seqs |-> NextSeqs(n)]]
        /\ appends' = appends + 1
        /\ UNCHANGED <<disk, live, gen, acks, mine, crashes, evicts>>

\* Faulty variant: the error of the write is dropped.
AppendErrorDropped(p) ==
    LET j == job[p]
    IN  /\ j # NoJob
        /\ disk' = IF j.handle THEN [disk EXCEPT ![j.base] = @ \o j.seqs] ELSE disk
        /\ acks' = acks \o j.seqs
        /\ mine' = IF j.gen = gen THEN mine \cup ToSet(j.seqs) ELSE mine
        /\ job' = [job EXCEPT ![p] = NoJob]
        /\ UNCHANGED <<live, gen, segments, last, open, segLast, appends,
                       crashes, evicts>>

\* segment.appendMessages writes the batch and the append returns its numbers.
AppendStored(p) ==
    LET j == job[p]
    IN  /\ j # NoJob
        /\ j.handle
        /\ disk' = [disk EXCEPT ![j.base] = @ \o j.seqs]
        /\ acks' = acks \o j.seqs
        /\ mine' = IF j.gen = gen THEN mine \cup ToSet(j.seqs) ELSE mine
        /\ job' = [job EXCEPT ![p] = NoJob]
        /\ UNCHANGED <<live, gen, segments, last, open, segLast, appends,
                       crashes, evicts>>

\* Writing to a closed file fails and so does the append.
AppendFailed(p) ==
    /\ job[p] # NoJob
    /\ ~job[p].handle
    /\ job' = [job EXCEPT ![p] = NoJob]
    /\ UNCHANGED <<disk, live, gen, segments, last, open, segLast, acks, mine,
                   appends, crashes, evicts>>

-----------------------------------------------------------------------------
(* The environment.                                                        *)

\* Other topics push a segment out of segmentCache, which closes it.
EvictSegment(b) ==
    /\ b \in open
    /\ evicts < MaxEvicts
    /\ open' = open \ {b}
    /\ job' = Closed(job, {b})
    /\ evicts' = evicts + 1
    /\ UNCHANGED <<disk, live, gen, segments, last, segLast, acks, mine,
                   appends, crashes>>

\* What an append may have written of its batch when the server ends.
Written(j) == {SubSeq(j.seqs, 1, k) : k \in 0 .. Len(j.seqs)}

\* The server ends, perhaps within a write, and starts again.
Crash ==
    /\ crashes < MaxCrashes
    /\ live
    /\ \/ UNCHANGED disk
       \/ \E p \in Appenders :
             /\ job[p] # NoJob
             /\ job[p].handle
             /\ \E w \in Written(job[p]) :
                   disk' = [disk EXCEPT ![job[p].base] = @ \o w]
    /\ live' = FALSE
    /\ open' = {}
    /\ job' = [p \in Appenders |-> NoJob]
    /\ mine' = {}
    /\ crashes' = crashes + 1
    /\ UNCHANGED <<gen, segments, last, segLast, acks, appends, evicts>>

Next ==
    \/ NewTopic
    \/ \E p \in Appenders : \E n \in 1 .. MaxBatch :
          AppendStart(p, n) \/ AppendRoll(p, n)
    \/ \E p \in Appenders : AppendStored(p) \/ AppendFailed(p)
    \/ \E b \in Bases : EvictSegment(b)
    \/ Crash

Spec == Init /\ [][Next]_vars

-----------------------------------------------------------------------------
(* Reading.                                                                *)

\* Faulty variant: the upper end of a segment is not tested.
CalcBaseLowOnly(s) == Min({i \in DOMAIN segments : segments[i] <= s})

\* calcBaseMessageSeq: the first segment that may hold s.
CalcBase(s) ==
    Min({i \in DOMAIN segments :
            /\ segments[i] <= s
            /\ i < Len(segments) => s <= segments[i + 1]})

\* segment.readMessages(s): from the message numbered s on; nothing if there
\* is none, except that the base stands for the start of the file.
FromSeq(b, s) ==
    LET at == {i \in DOMAIN disk[b] : disk[b][i] = s}
    IN  IF s = b THEN disk[b]
        ELSE IF at = {} THEN <<>>
        ELSE SubSeq(disk[b], Min(at), Len(disk[b]))

\* topic.readMessages(s, limit)
ReadMessages(s, limit) ==
    LET i    == CalcBase(s)
        rest == FlattenSeq([k \in 1 .. Len(segments) - i |->
                               disk[segments[i + k]]])
        all  == FromSeq(segments[i], s) \o rest
    IN  SubSeq(all, 1, Min({limit, Len(all)}))

-----------------------------------------------------------------------------
(* Properties.                                                             *)

Increasing(s) == \A i, j \in DOMAIN s : i < j => s[i] < s[j]

\* Where a number stands in a sequence, and in the files.
Places(s, x) == {i \in DOMAIN s : s[i] = x}
Copies(files, x) == UNION {{b} \X Places(files[b], x) : b \in Bases}

\* Either segments have been evicted, or the server has restarted, not both.  With both,
\* an append that failed may leave a single message above the number after its
\* base, and a restart gives that number again (Recovered).
Apart == crashes = 0 \/ evicts = 0

\* Each file holds increasing numbers above its base, also after rolls,
\* failed appends and restarts.  Searching a segment and finding its last
\* number on opening rely on it (segment.go:155-224, topic.go:65-100).
FileSorted ==
    Apart => \A b \in Bases : /\ Increasing(disk[b])
                              /\ \A i \in DOMAIN disk[b] : disk[b][i] > b

\* A number that was returned to a sender has a message in some file, as many
\* as it was returned times: rolling, eviction of the segment under an append
\* and restarts lose no append that succeeded (topic.go:65-100, 242-251).
AckedStored ==
    \A x \in ToSet(acks) : Cardinality(Places(acks, x)) <= Cardinality(Copies(disk, x))

\* All messages, and those of the listed segments.
Stored == UNION {ToSet(disk[b]) : b \in Bases}
Listed == UNION {ToSet(disk[segments[i]]) : i \in DOMAIN segments}

\* A read that begins at a stored message returns the next messages in order
\* with none left out, across segments and the gaps that failed appends
\* leave, and finds all that this topic object acknowledged
\* (topic.go:185-230, 266-280).
ReadsBack ==
    live /\ Apart =>
      /\ mine \subseteq Listed
      /\ \A s \in Listed, limit \in 1 .. MaxAppends :
            LET got  == ReadMessages(s, limit)
                want == {x \in Listed : x >= s}
            IN  /\ Increasing(got)
                /\ ToSet(got) \subseteq want
                /\ Len(got) = Min({limit, Cardinality(want)})
                /\ \A i \in DOMAIN got, x \in want \ ToSet(got) : got[i] < x

\* Until the server restarts, the numbers returned to senders are unique and
\* increasing in the order they are given, as the protocol says of MessageSeq
\* (pkg/proto/recv.go:24), through rolls and evictions under an append.  A
\* restarted topic begins again with its first segment, ListedSegments.
SeqIncreasing == crashes = 0 => Increasing(acks)

\* The segments implement one log: each batch comes behind everything that readers
\* find and is returned only if stored, none is lost until a restart, and a restart
\* brings no message into view but those above all others (topic.go:65-100, 242-251).
ImplementsLog ==
    INSTANCE MessageLog WITH
        MaxSeq    <- MaxAppends * MaxBatch,
        stored    <- Stored,
        log       <- Listed,
        returned  <- acks,
        restarted <- crashes > 0,
        calm      <- Apart

RefinesLog == ImplementsLog!LogSpec
=============================================================================
