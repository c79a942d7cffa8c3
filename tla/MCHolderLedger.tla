--------------------------- MODULE MCHolderLedger ---------------------------
(* Small instances of HolderLedger for TLC.  A behaviour studies the funds, *)
(* within one day and with many prices, or the limits, across midnight and  *)
(* with requests of one size that cost nothing.                            *)
EXTENDS HolderLedger, FiniteSetsExt, TLC

CONSTANTS k1, k2, w1, w2

VARIABLE part

OwnWallets == (k1 :> w1) @@ (k2 :> w2)

OneLimit ==
  {[walletDaily |-> 3, globalDaily |-> 6, rate |-> 1, rpm |-> 3, globalRpm |-> 9,
    concurrency |-> 2, globalConcurrency |-> 3]}

SumsAreFolds == \A f \in [1 .. 3 -> 0 .. 2] :
  SumOf(f) = FoldSet(LAMBDA x, acc : f[x] + acc, 0, 1 .. 3)

ASSUME SumsAreFolds

FundsStep ==
  /\ part = "funds"
  /\ policy' = policy /\ now' = now /\ k2 \notin revoked'
  /\ totals'.allocated <= 5
  /\ \A r \in Requests : /\ usage'[r].tokens < 3 /\ usage'[r].used < 2
                         /\ usage'[r].key # k2

LimitsStep ==
  /\ part = "limits"
  /\ revoked' = {} /\ startup' = {} /\ \A w \in Wallets : ~policy'[w].disabled
  /\ totals'.allocated \in {0, 9} /\ totals'.spent = 0
  /\ \A r \in Requests : usage'[r].tokens \in {0, 3}

MCInit == Init /\ part \in {"funds", "limits"}

MCNext == Next /\ (FundsStep \/ LimitsStep) /\ UNCHANGED part

MCSpec == MCInit /\ [][MCNext]_<<vars, part>>

Rename == Permutations(Requests) \cup Permutations(Idems)
=============================================================================
