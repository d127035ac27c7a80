------------------------------- MODULE Filter -------------------------------
(***************************************************************************)
(* Filtering a sequence, as loops that append what they keep do, with a    *)
(* function in place of SelectSeq, which the prover does not know.         *)
(***************************************************************************)
EXTENDS Naturals, Sequences

\* The elements of s that are in S, in their order.
Only(s, S) ==
  LET kept[n \in 0 .. Len(s)] ==
        IF n = 0 THEN <<>> ELSE IF s[n] \in S THEN Append(kept[n - 1], s[n]) ELSE kept[n - 1]
  IN kept[Len(s)]
=============================================================================
