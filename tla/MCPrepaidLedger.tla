--------------------------- MODULE MCPrepaidLedger ---------------------------
(* Small instances of PrepaidLedger for TLC.                               *)
EXTENDS PrepaidLedger, TLC

CONSTANTS k1, k2, k3, w1, w2

TwoWallets == (k1 :> w1) @@ (k2 :> w1) @@ (k3 :> w2)

KeyLimits == (k1 :> 2) @@ (k2 :> 9) @@ (k3 :> 9)

Rename ==
  Permutations(Requests) \cup Permutations(Idems) \cup Permutations(Refs)
=============================================================================
