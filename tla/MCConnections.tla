--------------------------- MODULE MCConnections ---------------------------
EXTENDS Connections, TLC

\* Two devices of one user share a flag: one logs in as a master, the other as a slave.
MCLogins == {[uid |-> "u1", flag |-> "app", dev |-> "d1", master |-> TRUE],
             [uid |-> "u1", flag |-> "app", dev |-> "d2", master |-> FALSE]}
MCReactorOf == [fd \in Fds |-> "r1"]

ObjSymmetry == Permutations(Objs)

\* What follows two closes of one object is not explored: the properties say nothing of it.
ClosedOnce == "close" \notin faults
=============================================================================
