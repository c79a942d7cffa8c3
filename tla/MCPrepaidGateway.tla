--------------------------- MODULE MCPrepaidGateway ---------------------------
(* Small instances of PrepaidGateway for TLC.                              *)
EXTENDS PrepaidGateway, TLC

CONSTANTS r1, r2, k1, w1, i1, i2

OneWallet == k1 :> w1

Limits == k1 :> 9

OneKey == (r1 :> k1) @@ (r2 :> k1)

Apart == (r1 :> i1) @@ (r2 :> i2)

OneEach == (r1 :> 1) @@ (r2 :> 1)
=============================================================================
