--------------------------- MODULE MCRetryQueue ---------------------------
(***************************************************************************)
(* RetryQueue for TLC: two connections of two devices (distinct keys), or   *)
(* two connections that use the same device id (shared key).                *)
(***************************************************************************)
EXTENDS RetryQueue, TLC

CONSTANTS c1, c2, k1, k2, d1, d2

DistinctKey == c1 :> k1 @@ c2 :> k2
SharedKey == c1 :> k1 @@ c2 :> k1

KeyDevice == k1 :> d1 @@ k2 :> d2
OneDevice == k1 :> d1
=============================================================================
