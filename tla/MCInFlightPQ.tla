---------------------------- MODULE MCInFlightPQ ----------------------------
(* InFlightPQ for TLC: the messages are interchangeable. *)
EXTENDS InFlightPQ

Symmetry == Permutations(Items)
=============================================================================
