-------------------------- MODULE AllowanceAccount --------------------------
(***************************************************************************)
(* What the holder ledger promises, without rows, projections or triggers: *)
(* an account with funds, in which every request opens at most once, its   *)
(* charge fits into the funds when it opens, a doubtful request stops all  *)
(* openings, and a request closes once, at whatever it really cost.        *)
(***************************************************************************)
EXTENDS Sums

CONSTANT Requests

VARIABLES funds, phase, charge

account == <<funds, phase, charge>>

Init ==
  /\ funds = 0
  /\ phase = [r \in Requests |-> "none"]
  /\ charge = [r \in Requests |-> 0]

Fund ==
  /\ funds' \in Nat /\ funds' > funds
  /\ UNCHANGED <<phase, charge>>

Open(r) ==
  /\ phase[r] = "none"
  /\ \A q \in Requests : phase[q] # "doubtful"
  /\ phase' = [phase EXCEPT ![r] = "open"]
  /\ charge'[r] \in Nat \ {0}
  /\ charge' = [charge EXCEPT ![r] = charge'[r]]
  /\ SumOf(charge') <= funds
  /\ UNCHANGED funds

(* One request becomes uncertain, or a crash makes all open ones so.       *)
Doubt(S) ==
  /\ \A r \in S : phase[r] = "open"
  /\ phase' = [r \in Requests |-> IF r \in S THEN "doubtful" ELSE phase[r]]
  /\ UNCHANGED <<funds, charge>>

Close(r) ==
  /\ phase[r] \in {"open", "doubtful"}
  /\ phase' = [phase EXCEPT ![r] = "closed"]
  /\ charge'[r] \in Nat
  /\ charge' = [charge EXCEPT ![r] = charge'[r]]
  /\ UNCHANGED funds

Next ==
  \/ Fund
  \/ \E r \in Requests : Open(r) \/ Close(r)
  \/ \E S \in SUBSET Requests : Doubt(S)

Spec == Init /\ [][Next]_account
=============================================================================
