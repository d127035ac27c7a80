----------------------------- MODULE MCMessages -----------------------------
EXTENDS Messages, TLC

CONSTANTS a, b, g

\* b < g < a: the order of the hashes is not the order of the pairs.
MCHash == a :> 3 @@ b :> 1 @@ g :> 2
MCTopics == {t \in {a, b, g} \X {a, b, g} : t[1] # t[2]} \cup {<<a>>, <<b>>, <<g>>}

Kinds(ms) == {ms[k].kind : k \in DOMAIN ms}

\* Up to two messages of any kind, the first of them from a; of three, the packets of
\* a's connections, or a stream and its items.
MCMixed(ms) ==
  /\ ms[1].from = a
  /\ \/ Len(ms) <= 2
     \/ \A k \in DOMAIN ms : ~ms[k].api /\ ms[k].from = a /\ ms[k].kind # "noPersist"
     \/ Kinds(ms) \subseteq {"start", "ing", "end"}

\* A goroutine takes the steps that touch no one else's data at once: they commute
\* with all others, and what the invariants look for is never taken back.
Local(p) ==
  \/ job[p].pc \in {"split", "notify"}
  \/ job[p].pc = "put" /\ (job[p].subs = {} \/ \A i \in ToSet(job[p].msgs) : msg[i].kind # "syncOnce")
  \/ call[p].pc = "done"
Urgent == \A p \in Procs : Local(p) => <<job[p], call[p]>>' # <<job[p], call[p]>>

Alike == Permutations(Frames) \cup Permutations(Handlers)
=============================================================================
