------------------------------ MODULE Streams ------------------------------
(***************************************************************************)
(* Message streams in the store (pkg/okstore/stream.go, the stream part of *)
(* topic.go, filestore_msg.go and model.go): a message whose content comes *)
(* in items, kept in a file next to the topic's log, with a second file    *)
(* that tells whether the stream has ended.                                *)
(*                                                                         *)
(* Every topic caches Stream objects.  Nothing is held between the look up *)
(* in the cache, the insertion of a new object and its use, so two objects *)
(* of one stream may be at work, each with a lock and a counter of its own.*)
(*                                                                         *)
(* One stream number is followed.  The same number may name a stream in    *)
(* several topics: callers choose the topic.  An item is the message that  *)
(* brought it; how items are laid out in the file is left out, because it  *)
(* is opened for appending and each item is one write.                     *)
(***************************************************************************)
EXTENDS Naturals, Sequences, SequencesExt, FiniteSets

CONSTANTS
  Procs,      \* goroutines that call the store
  Topics,     \* names of topics
  Objs,       \* Stream objects
  MaxTrouble, \* bound: failed steps and evictions
  None

ASSUME StreamConstants ==
  /\ MaxTrouble \in Nat
  \* An object for each goroutine and each topic, and one to allocate.
  /\ IsFiniteSet(Objs) /\ IsFiniteSet(Procs) /\ IsFiniteSet(Topics)
  /\ Cardinality(Objs) > Cardinality(Procs) + Cardinality(Topics)
  /\ None \notin Nat

VARIABLES
  file,     \* items of the stream in each topic
  meta,     \* content of its meta file: "none" (empty), "start" or "end"
  cached,   \* topic.streamCache: the object in each topic
  stream,   \* Stream objects, None where there is none
  call,     \* the call each goroutine makes
  trouble   \* failed steps and evictions so far

streamVars == <<file, meta, cached, stream, call, trouble>>

\* val: the flag to save; once the call is done, "ok", "error" or the flag read.
NoCall == [pc |-> "none", op |-> "none", topic |-> <<>>, item |-> 0, val |-> "none", obj |-> None, seq |-> 0]

\* max: maxStreamSeq, None until loaded; io, metaIO: "nil", "open" or "closed".
NewStream == [max |-> None, io |-> "nil", metaIO |-> "nil"]

StreamInit ==
  /\ file = [t \in Topics |-> <<>>]
  /\ meta = [t \in Topics |-> "none"]
  /\ cached = [t \in Topics |-> None]
  /\ stream = [o \in Objs |-> None]
  /\ call = [p \in Procs |-> NoCall]
  /\ trouble = 0

\* A step may fail when the machine does: a bounded number of times.
Fails == trouble < MaxTrouble /\ trouble' = trouble + 1
Works == trouble' = trouble

Fresh == CHOOSE o \in Objs : o \notin Range(cached) /\ \A p \in Procs : call[p].obj # o
\* Objects that neither the cache nor a goroutine holds are collected.
Collect(ss, ca, cs) ==
  [o \in Objs |-> IF o \in Range(ca) \/ \E p \in Procs : cs[p].obj = o THEN ss[o] ELSE None]

\* Goroutine p asks the store for op ("append", "save" or "read") on a stream of topic t.
getStream(p, op, t, item, val) ==
  /\ call[p].pc \in {"none", "done"}
  /\ LET hit == cached[t] # None
         o == IF hit THEN cached[t] ELSE Fresh
     IN /\ call' = [call EXCEPT ![p] = [NoCall EXCEPT !.pc = IF hit THEN "held" ELSE "made",
                                                      !.op = op, !.topic = t, !.item = item,
                                                      !.val = val, !.obj = o]]
        /\ stream' = IF hit THEN stream ELSE [stream EXCEPT ![o] = NewStream]
  /\ UNCHANGED <<file, meta, cached, trouble>>

\* The call ends with r.
Finish(p, r, ss, ca) ==
  /\ call' = [call EXCEPT ![p] = [NoCall EXCEPT !.pc = "done", !.op = call[p].op, !.val = r]]
  /\ cached' = ca
  /\ stream' = Collect(ss, ca, call')

\* A new object goes into the cache, over any other that got there first.
Added(p) == IF call[p].pc = "made" THEN [cached EXCEPT ![call[p].topic] = call[p].obj] ELSE cached
\* getStreamIO and getMetaIO open a file the object has not opened yet.
Opened(io) == IF io = "nil" THEN "open" ELSE io
\* close closes what is open; the object does not learn of it.
Closed(io) == IF io = "open" THEN "closed" ELSE io

\* An item as it is written.
StreamItem(id, seq) == [id |-> id, seq |-> seq]

\* An item as it is read back, at its place in the file.
currentStreamItem(t, k) == file[t][k]

\* readMaxStreamSeqNoLock: the number of the last item, not the greatest.
readMaxStreamSeq(t) == IF file[t] = <<>> THEN 0 ELSE currentStreamItem(t, Len(file[t])).seq

\* appendItem, under the object's lock: the next number ...
nextStreamSeq(p) ==
  LET c == call[p]
      s == stream[c.obj]
      n == IF s.max = None THEN readMaxStreamSeq(c.topic) ELSE s.max
  IN /\ c.pc \in {"made", "held"} /\ c.op = "append"
     /\ \A q \in Procs : ~(call[q].pc = "write" /\ call[q].obj = c.obj)
     /\ cached' = Added(p)
     /\ call' = [call EXCEPT ![p].pc = "write", ![p].seq = n + 1]
     /\ stream' = Collect([stream EXCEPT ![c.obj] = [s EXCEPT !.max = n, !.io = Opened(@)]],
                          cached', call')
     /\ UNCHANGED <<file, meta, trouble>>

\* ... and the write, which fails on a file that was closed: close takes the lock of
\* the meta file before it closes the items.
appendItem(p) ==
  LET c == call[p]
  IN /\ c.pc = "write"
     /\ IF stream[c.obj].io = "closed"
        THEN Works /\ file' = file /\ Finish(p, "error", stream, cached)
        ELSE \/ /\ Works
                /\ file' = [file EXCEPT ![c.topic] = Append(@, StreamItem(c.item, c.seq))]
                /\ Finish(p, "ok", [stream EXCEPT ![c.obj].max = c.seq], cached)
             \/ Fails /\ file' = file /\ Finish(p, "error", stream, cached)
     /\ UNCHANGED meta

\* The object's meta file is opened with O_TRUNC, the first time it is used.
getMetaIO(p) == IF stream[call[p].obj].metaIO = "open" THEN meta ELSE [meta EXCEPT ![call[p].topic] = "none"]

saveMeta(p) ==
  LET c == call[p]
  IN /\ c.pc \in {"made", "held"} /\ c.op = "save"
     /\ IF stream[c.obj].metaIO = "closed"
        THEN meta' = meta /\ Finish(p, "error", stream, Added(p))
        ELSE /\ meta' = [meta EXCEPT ![c.topic] = c.val]
             /\ Finish(p, "ok", [stream EXCEPT ![c.obj].metaIO = "open"], Added(p))
     /\ UNCHANGED <<file, trouble>>

readMeta(p) ==
  LET c == call[p]
  IN /\ c.pc \in {"made", "held"} /\ c.op = "read"
     /\ IF stream[c.obj].metaIO = "closed"
        THEN meta' = meta /\ Finish(p, "error", stream, Added(p))
        ELSE /\ meta' = getMetaIO(p)
             /\ Finish(p, getMetaIO(p)[c.topic], [stream EXCEPT ![c.obj].metaIO = "open"], Added(p))
     /\ UNCHANGED <<file, trouble>>

\* An object leaves its topic's cache and is closed, or goes with the topic, unclosed.
Evict(t, closed) ==
  /\ Fails
  /\ cached[t] # None
  /\ cached' = [cached EXCEPT ![t] = None]
  /\ LET s == stream[cached[t]]
     IN stream' = Collect(IF ~closed THEN stream
                          ELSE [stream EXCEPT ![cached[t]] =
                                  [s EXCEPT !.io = Closed(@), !.metaIO = Closed(@)]],
                          cached', call)
  /\ UNCHANGED <<file, meta, call>>

\* readItems sorts by number; items with the same number come in any order.
readItems(t) ==
  LET items == [k \in DOMAIN file[t] |-> currentStreamItem(t, k)]
      order == CHOOSE f \in Bijection(DOMAIN items, DOMAIN items) :
                 \A k, l \in DOMAIN items : k < l => items[f[k]].seq <= items[f[l]].seq
  IN [k \in DOMAIN items |-> items[order[k]]]

StreamStep ==
  \/ \E p \in Procs : nextStreamSeq(p) \/ appendItem(p) \/ saveMeta(p) \/ readMeta(p)
  \/ \E t \in Topics, closed \in BOOLEAN : Evict(t, closed)
=============================================================================
