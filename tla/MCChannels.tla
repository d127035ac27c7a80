----------------------------- MODULE MCChannels -----------------------------
(***************************************************************************)
(* One channel of any type for TLC: a data channel (DataChannels), or      *)
(* another (Channels), whose variables then change alone.                  *)
(***************************************************************************)
EXTENDS Channels, DataChannels, TLC

CONSTANTS c1, c2, c3, v1, v2

\* What is explored: a data channel, two requests in another channel about any users,
\* or two and a message in a group channel about one user, who is no system account.
VARIABLE scope

MCInit ==
  /\ Init /\ DataInit
  /\ scope \in {"data", "two"} \cup Uids
  /\ scope # "two" => kind = "group"

MCNext ==
  \/ scope # "data" /\ Next /\ UNCHANGED <<dataVars, scope>>
  \/ scope = "data" /\ DataNext /\ UNCHANGED <<vars, scope>>

MCSpec == MCInit /\ [][MCNext]_<<vars, dataVars, scope>>

\* One user has two connections, another one.
TheirOwner == [c \in Conns |-> IF c = c3 THEN v2 ELSE v1]

InScope ==
  /\ scope = "two" => begun <= 2
  /\ scope \in Uids =>
       /\ system.cached = {} /\ \A t \in Threads : req[t].uids \subseteq {scope}
       /\ begun = 3 => \E t \in Threads : req[t].op = "send"

\* Users are alike, and so are goroutines, and connections of one user.
Alike == Permutations(Uids) \cup Permutations(Threads) \cup Permutations({c1, c2})
=============================================================================
