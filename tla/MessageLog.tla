----------------------------- MODULE MessageLog -----------------------------
(***************************************************************************)
(* What the log of a topic promises to senders and readers: a batch gets   *)
(* numbers that follow each other and comes behind everything readers      *)
(* find, and senders are told its numbers only if it is stored.            *)
(*                                                                         *)
(* A restart may hide messages from readers, because the topic begins with *)
(* its first segment again; hidden messages come back when a roll reaches  *)
(* their segment.  Numbers may then be given twice.                        *)
(***************************************************************************)
EXTENDS Naturals, Sequences

CONSTANTS MaxSeq, MaxBatch

VARIABLES
    stored,     \* the messages in the files
    log,        \* those that readers find
    returned,   \* the numbers returned to senders, in order
    restarted,  \* the server has restarted
    calm        \* numbers go on from the log's last

logVars == <<stored, log, returned, restarted, calm>>

LogInit ==
    /\ stored = {} /\ log = {} /\ returned = <<>>
    /\ restarted = FALSE
    /\ calm = TRUE

\* The numbers of a batch of n messages after number x.
Batch(x, n) == [i \in 1 .. n |-> x + i]
Numbers(x, n) == x + 1 .. x + n

\* What comes behind the log.
Behind(new) == calm => \A old \in log, y \in new : old < y

Write(x, n) ==
    /\ Behind(Numbers(x, n))
    /\ stored' = stored \cup Numbers(x, n)
    /\ log' = log \cup Numbers(x, n)

\* A batch is stored, and its numbers are returned; until a restart, they are new.
Store(x, n) ==
    /\ Write(x, n)
    /\ ~restarted => \A i \in DOMAIN returned : returned[i] <= x
    /\ returned' = returned \o Batch(x, n)
    /\ UNCHANGED <<restarted, calm>>

\* The server ends; it may have written some of a batch.
End(x, n) ==
    /\ Write(x, n)
    /\ restarted' = TRUE
    /\ calm' => calm
    /\ UNCHANGED returned

\* The topic begins again with some of the log,
Restart ==
    /\ restarted
    /\ log' \subseteq log
    /\ UNCHANGED <<stored, returned, restarted, calm>>

\* and a roll leads to messages that were hidden.
Find ==
    /\ restarted
    /\ log \subseteq log' /\ log' \subseteq stored
    /\ Behind(log' \ log)
    /\ UNCHANGED <<stored, returned, restarted, calm>>

\* An eviction may disturb the count.
Disturb ==
    /\ calm' => calm
    /\ UNCHANGED <<stored, log, returned, restarted>>

LogNext ==
    \/ \E x \in 0 .. MaxSeq, n \in 1 .. MaxBatch : Store(x, n)
    \/ \E x \in 0 .. MaxSeq, n \in 0 .. MaxBatch : End(x, n)
    \/ Restart \/ Find \/ Disturb

LogSpec == LogInit /\ [][LogNext]_logVars
=============================================================================
