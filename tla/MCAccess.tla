------------------------------- MODULE MCAccess -------------------------------
(* What a request passes on its way to a ledger, one part per behaviour:   *)
(* sign-in, API keys, the body scan, the limits of the model, and the      *)
(* frames of the streamed answer.                                          *)
EXTENDS ApiKeys, BodyGuard, StreamFrames, ModelPolicy, TLC

CONSTANTS w1, w2

VARIABLE part

MCLimit == [e \in Endpoints |-> IF e \in {"challenge", "verify"} THEN 2 ELSE 1]

Names == Permutations(Ids) \cup Permutations(Tokens) \cup Permutations(Keys)

Usage(p, c, t) ==
  [prompt |-> p, completion |-> c, total |-> t, cached |-> Blank, reasoning |-> Blank]

Plain == [broken |-> FALSE, id |-> "a", choices |-> <<0>>, usage |-> Blank]

Ending == [Plain EXCEPT !.choices = <<>>]

OddUsages ==
  {Usage(1, 2, Blank), Usage(1, 1, 1), Usage(2, 0, 2)}
  \cup {[Usage(1, 1, 2) EXCEPT !.cached = n] : n \in {1, 2}}
  \cup {[u EXCEPT !.reasoning = 1] : u \in {Usage(1, 1, 2), Usage(2, 0, 2)}}

(* Text frames, frames that break a rule, and reports with and without text*)
MCFrames ==
  {Plain, [Plain EXCEPT !.broken = TRUE]}
  \cup {[Plain EXCEPT !.id = i] : i \in {"b", Blank}}
  \cup {[Plain EXCEPT !.choices = cs] : cs \in {<<1, 0>>, <<0, 0>>, <<2>>}}
  \cup {[f EXCEPT !.usage = Usage(1, 1, t)] : f \in {Plain, Ending}, t \in {2, Blank}}
  \cup {[Ending EXCEPT !.id = Blank, !.usage = u] : u \in OddUsages}

MCReviewed == {Unknown, [context |-> 4, output |-> 3]}

MCOverrides == {Unknown, [context |-> 3, output |-> 2], [context |-> 6, output |-> 4]}

MCSettings ==
  {[cap |-> c, default |-> 1] : c \in {1, 2, 5}} \cup {[cap |-> 5, default |-> 4]}

MCReports == [context : 0..6, outputs : SUBSET {0, 1, 4}]

Parts == {"signin", "keys", "body", "policy", "frames"}

AccessInit ==
  /\ part \in Parts
  /\ KeysInit /\ holders \subseteq IF part = "keys" THEN {w1} ELSE {}
  /\ GuardInit /\ FramesInit
  /\ IF part = "policy" THEN PolicyInit
     ELSE reviewed = Unknown /\ override = Unknown /\ request = NoRequest
          /\ limits = [cap |-> 1, default |-> 1] /\ reserve = 0

(* Bounds of the parts about keys: one wallet signs in, once.              *)
KeysBound ==
  /\ now <= 2
  /\ Cardinality(grants) <= 1
  /\ \A e \in {"challenge", "verify"} : Cardinality({h \in hits : h.endpoint = e}) <= 1
  /\ \A a \in asked : a.wallet = w1
  /\ holders \cup disabled \subseteq {w1}

(* Bound of the part about sign-in: no more challenge hits than ids.       *)
SignInBound == Cardinality({h \in hits : h.endpoint = "challenge"}) <= Cardinality(Ids)

AccessNext ==
  /\ \/ /\ part = "signin" /\ SignInNext /\ SignInBound'
        /\ UNCHANGED <<keyVars, guardVars, frameVars, policyVars>>
     \/ /\ part = "keys" /\ KeysNext /\ KeysBound'
        /\ UNCHANGED <<guardVars, frameVars, policyVars>>
     \/ /\ part = "body" /\ GuardNext
        /\ UNCHANGED <<accessVars, frameVars, policyVars>>
     \/ /\ part = "frames" /\ FramesNext
        /\ UNCHANGED <<accessVars, guardVars, policyVars>>
     \/ /\ part = "policy" /\ PolicyNext
        /\ UNCHANGED <<accessVars, guardVars, frameVars>>
  /\ UNCHANGED part

AccessSpec ==
  AccessInit /\ [][AccessNext]_<<accessVars, guardVars, frameVars, policyVars, part>>
===============================================================================
