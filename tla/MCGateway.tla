------------------------------ MODULE MCGateway ------------------------------
(* Small instances of Gateway for TLC.                                     *)
EXTENDS Gateway, TLC

CONSTANTS r1, r2, k1, w1, i1, i2

OneWallet == k1 :> w1

SameKey == (r1 :> k1) @@ (r2 :> k1)

(* r2 retries r1. *)
Retry == (r1 :> i1) @@ (r2 :> i1)

Apart == (r1 :> i1) @@ (r2 :> i2)

Same(n) == (r1 :> n) @@ (r2 :> n)

OneToken == Same(1)

TwoTokens == Same(2)

Limit(conc) ==
  [walletDaily |-> 9, globalDaily |-> 9, rate |-> 1, rpm |-> 9,
   globalRpm |-> 9, concurrency |-> conc, globalConcurrency |-> 2]

OneLimit == {Limit(2)}

TwoLimits == {Limit(1), Limit(2)}

(* For the two balance findings: no operator settlement, and the provider   *)
(* has charged a request before it answers for its cost.                   *)
PromptBilling ==
  /\ cli = NoValue
  /\ \A r \in Requests : usage[r].state = "settled" => bill[r] # NoValue
=============================================================================
