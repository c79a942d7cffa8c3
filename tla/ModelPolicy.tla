----------------------------- MODULE ModelPolicy ------------------------------
(***************************************************************************)
(* The limits a completion is admitted under: gridraft/model_policy.py,    *)
(* broker.model_metadata, and the catalogue, normalisation and estimate of *)
(* gridraft/app.py, for one request and one model of the live catalogue.   *)
(* The operator may save other limits at any await.                        *)
(***************************************************************************)
EXTENDS Integers, FiniteSetsExt

CONSTANTS
  Reviewed,    \* what MODEL_POLICIES may say: [context, output], or Unknown
  Overrides,   \* what MODEL_LIMIT_OVERRIDES may say: the same
  Settings,    \* the pairs [cap, default] that PolicyInput accepts
  Reports,     \* rows of the metadata service: [context, outputs]
  ReportMax,   \* 10^7
  Asks,        \* max_completion_tokens or max_tokens of the request, or Unknown
  Inputs,      \* input_budget of the request
  Copies,      \* n of the request
  Unknown      \* None

ASSUME PolicyAssumption ==
  /\ \A s \in Settings : s.cap \in Nat /\ s.default \in 1..s.cap
  /\ \A p \in Reviewed \ {Unknown} : p.context \in Nat \ {0} /\ p.output \in Nat \ {0}
  /\ \A p \in Overrides \ {Unknown} : p.context \in Nat /\ p.output \in 1..(p.context - 1)
  /\ Asks \ {Unknown} \subseteq Nat \ {0} /\ Inputs \subseteq Nat \ {0}
  /\ Copies \in Nat \ {0} /\ ReportMax \in Nat
  /\ Unknown \notin Nat

VARIABLES
  reviewed, override,   \* of the request's model; fixed while the process runs
  limits,    \* runtime(): max_output_tokens and default_output_tokens
  request,   \* the request and what the handler has found so far
  reserve    \* reserve_tokens, once the request is dispatched

policyVars == <<reviewed, override, limits, request, reserve>>

NoRequest == [at |-> "new", cap |-> 0, found |-> Unknown, row |-> Unknown,
              ask |-> Unknown, input |-> 0, normCap |-> 0, max |-> 0]

(* Only a reviewed model can have an override.                             *)
PolicyInit ==
  /\ reviewed \in Reviewed
  /\ override \in IF reviewed = Unknown THEN {Unknown} ELSE Overrides
  /\ limits \in Settings
  /\ request = NoRequest
  /\ reserve = 0

-------------------------------------------------------------------------------
(* The catalogue row.                                                      *)

Least(S) == IF S = {} THEN Unknown ELSE Min(S)

(* A row of the metadata service: zero and absurd numbers say nothing.     *)
Discovered(report) ==
  [context |-> Least({report.context} \cap 1..ReportMax),
   output |-> Least(report.outputs \cap 1..ReportMax)]

Nowhere == [context |-> Unknown, output |-> Unknown]

Tightened(found, cap) ==
  LET context == Min({reviewed.context} \cup ({found.context} \ {Unknown}))
      least == Min({reviewed.output, cap} \cup ({found.output} \ {Unknown}))
      output == IF least >= context THEN context - 1 ELSE least
  IN  [context |-> context, output |-> IF output > 0 THEN output ELSE Unknown]

(* merge_upstream_metadata with the cap that the catalogue read.           *)
Merge(found, cap) ==
  CASE override # Unknown -> [context |-> override.context, output |-> Min({override.output, cap})]
    [] override = Unknown /\ reviewed # Unknown -> Tightened(found, cap)
    [] OTHER -> Nowhere

-------------------------------------------------------------------------------
(* The request.                                                            *)

ReadSettings ==
  /\ request.at = "new"
  /\ request' = [request EXCEPT !.at = "listing", !.cap = limits.cap]
  /\ UNCHANGED <<reviewed, override, limits, reserve>>

(* The metadata is a cached or a new answer, or the service failed, does   *)
(* not know the model, or sent an invalid list.                            *)
ListModel ==
  /\ request.at = "listing"
  /\ \E found \in {Discovered(r) : r \in Reports} \cup {Nowhere} :
       request' = [request EXCEPT !.at = "listed", !.found = found, !.row = Merge(found, request.cap)]
  /\ UNCHANGED <<reviewed, override, limits, reserve>>

(* Faulty: only the catalogue's cap counts, not the one saved since.       *)
CapOfRow == request.row.output

CapNow == Min({limits.cap, request.row.output})

Normalized(ask, input) ==
  [request EXCEPT !.ask = ask, !.input = input, !.normCap = limits.cap,
     !.max = IF ask = Unknown THEN Min({limits.default, CapNow}) ELSE ask]

Fits(max, input) == max <= CapNow /\ input + max <= request.row.context

NormalizeRequest(ask, input) ==
  /\ request.at = "listed"
  /\ request.row.output # Unknown
  /\ LET n == Normalized(ask, input)
     IN  request' = [n EXCEPT !.at = IF Fits(n.max, input) THEN "admitted" ELSE "refused"]
  /\ UNCHANGED <<reviewed, override, limits, reserve>>

(* No reviewed output policy.                                              *)
NoPolicy ==
  /\ request.at = "listed"
  /\ request.row.output = Unknown
  /\ request' = [request EXCEPT !.at = "no policy"]
  /\ UNCHANGED <<reviewed, override, limits, reserve>>

(* Health and holdings are read in between; call prepares the same body.   *)
DispatchRequest ==
  /\ request.at = "admitted"
  /\ request' = [request EXCEPT !.at = "dispatched"]
  /\ reserve' = request.input + request.max * Copies
  /\ UNCHANGED <<reviewed, override, limits>>

SaveLimits ==
  /\ request.at # "dispatched"
  /\ limits' \in Settings
  /\ UNCHANGED <<reviewed, override, request, reserve>>

PolicyNext ==
  \/ ReadSettings \/ ListModel \/ NoPolicy \/ DispatchRequest \/ SaveLimits
  \/ \E ask \in Asks, input \in Inputs : NormalizeRequest(ask, input)

PolicySpec == PolicyInit /\ [][PolicyNext]_policyVars

-------------------------------------------------------------------------------
(* Every bound on the answer that anyone has stated, and on the context.   *)
OutputBounds ==
  {request.cap, request.normCap}
  \cup (IF override # Unknown THEN {override.output}
        ELSE {reviewed.output} \cup ({request.found.output} \ {Unknown}))

ContextBounds ==
  IF override # Unknown THEN {override.context}
  ELSE {reviewed.context} \cup ({request.found.context} \ {Unknown})

(* A request is admitted only for a reviewed model and within every bound: *)
(* what the metadata service reports tightens them and never loosens one,  *)
(* the operator's cap binds as it was when the catalogue was read and as   *)
(* it is at the check, and an answer leaves room for its input.  What is   *)
(* reserved covers all copies.  And a request that states no maximum, or   *)
(* one within the bounds, is refused only for want of context              *)
(* (docs: discovery may make a reviewed cap safer).                        *)
LimitsOnlyTighten ==
  /\ request.at \in {"admitted", "dispatched"} =>
       /\ reviewed # Unknown
       /\ \A b \in OutputBounds : request.max <= b
       /\ \A b \in ContextBounds : request.input + request.max <= b
       /\ request.max >= 1
  /\ request.at = "dispatched" => reserve >= request.input + Copies * request.max
  /\ request.at = "refused" =>
       \/ \E b \in OutputBounds : request.ask # Unknown /\ request.ask > b
       \/ \E b \in ContextBounds : request.input + request.max > b
  /\ request.at = "no policy" => reviewed = Unknown \/ \E b \in ContextBounds : b = 1
===============================================================================
