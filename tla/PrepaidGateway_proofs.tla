------------------------ MODULE PrepaidGateway_proofs -------------------------
(* Proofs about the prepaid request path: it is the ledger's               *)
(* specification, and no exit of a handler loses a hold or gives it back.  *)
EXTENDS PrepaidGateway, PrepaidLedger_proofs

Places == Before \cup InFlight \cup {"done", "dead"}

(* A handler that may reserve has read the operator's limit.               *)
CallOK ==
  /\ at \in [Requests -> Places]
  /\ limit \in [Requests -> Rates \cup {NoValue}]
  /\ \A r \in Requests : at[r] \in {"vetting", "funding"} => limit[r] \in Rates
  /\ rpm \in Rates /\ up \in BOOLEAN
  /\ cli \in Requests \cup {NoValue}

LEMMA InitCall == GatewayInit => CallOK
BY DEF GatewayInit, CallOK, Places, Before, InFlight

LEMMA HandleKeeps ==
  ASSUME CallOK, NEW r \in Requests, Handle(r)
  PROVE  CallOK'
<1> USE DEF Places, Before, InFlight
<1>1. CASE Arrive(r)
  <2>1. /\ at' = [at EXCEPT ![r] = "vetting"] /\ limit' = [limit EXCEPT ![r] = rpm]
        /\ UNCHANGED <<up, rpm, cli>>
    BY <1>1 DEF Arrive, Move, desk
  <2>2. QED
    BY <2>1 DEF CallOK
<1>2. CASE Vetted(r)
  <2>1. /\ at[r] = "vetting" /\ at' = [at EXCEPT ![r] = "funding"]
        /\ UNCHANGED <<limit, up, rpm, cli>>
    BY <1>2 DEF Vetted, Move, desk
  <2>2. QED
    BY <2>1 DEF CallOK
<1>3. CASE \/ Dispatch(r) \/ Refuse(r) \/ Answered(r) \/ Charge(r) \/ GiveUp(r)
  <2>1. /\ \E place \in {"sending", "reading", "done"} : at' = [at EXCEPT ![r] = place]
        /\ UNCHANGED <<limit, up, rpm, cli>>
    BY <1>3 DEF Dispatch, Refuse, Answered, Charge, GiveUp, Move, desk
  <2>2. QED
    BY <2>1 DEF CallOK
<1>4. QED
  BY <1>1, <1>2, <1>3 DEF Handle

LEMMA CallStep == CallOK /\ [GatewayNext]_gatewayVars => CallOK'
<1> SUFFICES ASSUME CallOK, [GatewayNext]_gatewayVars PROVE CallOK'
  OBVIOUS
<1>1. ASSUME NEW r \in Requests, Handle(r) PROVE CallOK'
  BY <1>1, HandleKeeps
<1>2. ASSUME NEW r \in Requests, CliRead(r) PROVE CallOK'
  BY <1>2 DEF CliRead, CallOK, local
<1>3. CASE Crash
  <2>1. /\ at' \in [Requests -> Places]
        /\ \A r \in Requests : at'[r] = at[r] \/ at'[r] = "dead"
        /\ up' = FALSE /\ UNCHANGED <<limit, rpm, cli>>
    BY <1>3 DEF Crash, CallOK, Places, desk
  <2>2. QED
    BY <2>1 DEF CallOK
<1>4. CASE Boot
  BY <1>4 DEF Boot, CallOK, desk
<1>5. CASE CliSettle
  BY <1>5 DEF CliSettle, CallOK, local
<1>6. CASE CliCredit \/ RevokeKey \/ Elapse
  BY <1>6 DEF CliCredit, RevokeKey, Elapse, CallOK, local, desk
<1>7. CASE SetUserPolicy \/ Configure
  BY <1>7 DEF SetUserPolicy, Configure, CallOK, local
<1>8. CASE UNCHANGED gatewayVars
  BY <1>8 DEF CallOK, gatewayVars, local, desk
<1>9. QED
  BY <1>1, <1>2, <1>3, <1>4, <1>5, <1>6, <1>7, <1>8 DEF GatewayNext

-----------------------------------------------------------------------------
(* Every step of the system is a step of the ledger or leaves it alone.    *)

LEMMA LedgerStep == CallOK /\ [GatewayNext]_gatewayVars => [Next]_vars
<1> SUFFICES ASSUME CallOK, [GatewayNext]_gatewayVars PROVE [Next]_vars
  OBVIOUS
<1>1. ASSUME NEW r \in Requests, Dispatch(r) PROVE [Next]_vars
  <2>1. limit[r] \in Rates
    BY <1>1 DEF Dispatch, CallOK
  <2>2. KeyOf[r] \in Keys /\ IdemOf[r] \in Idems /\ AmountOf[r] \in Amounts
    BY CallAssumption
  <2>3. ReserveAny(r)
    BY <1>1, <2>1, <2>2 DEF Dispatch, ReserveAny
  <2>4. QED
    BY <2>3 DEF Next
<1>2. ASSUME NEW r \in Requests, Charge(r) PROVE [Next]_vars
  BY <1>2 DEF Charge, SettleAny, Next
<1>3. ASSUME NEW r \in Requests, GiveUp(r) PROVE [Next]_vars
  BY <1>3 DEF GiveUp, Next
<1>4. ASSUME NEW r \in Requests,
             Arrive(r) \/ Vetted(r) \/ Refuse(r) \/ Answered(r) \/ CliRead(r)
      PROVE  [Next]_vars
  BY <1>4 DEF Arrive, Vetted, Refuse, Answered, CliRead, vars
<1>5. CASE CliSettle
  <2>1. CASE usage[cli].state \in Pending
    BY <1>5, <2>1 DEF CliSettle, CallOK, SettleAny, Next
  <2>2. CASE usage[cli].state \notin Pending
    BY <1>5, <2>2 DEF CliSettle
  <2>3. QED
    BY <2>1, <2>2
<1>6. CASE CliCredit \/ RevokeKey \/ Elapse \/ Boot
  BY <1>6 DEF CliCredit, RevokeKey, Elapse, Boot, Next
<1>7. CASE Crash \/ SetUserPolicy \/ Configure
  BY <1>7 DEF Crash, SetUserPolicy, Configure, vars
<1>8. CASE UNCHANGED gatewayVars
  BY <1>8 DEF gatewayVars, vars
<1>9. QED
  BY <1>1, <1>2, <1>3, <1>4, <1>5, <1>6, <1>7, <1>8 DEF GatewayNext, Handle

(* The prepaid system - concurrent handlers, the CLI, crashes, operators -  *)
(* implements the credit ledger's specification (app.py chat, cli.py).     *)
THEOREM PrepaidImplementsLedger == GatewaySpec => UsesLedger
<1>1. GatewayInit => Init
  BY DEF GatewayInit
<1>2. QED
  BY <1>1, InitCall, CallStep, LedgerStep, PTL DEF GatewaySpec, UsesLedger, Spec

(* In the running system too, no credit is created or lost (app.py chat,    *)
(* cli.py credit and reconcile, store.py reserve and settle).              *)
THEOREM RunningCreditConserved == GatewaySpec => []CreditConserved
BY PrepaidImplementsLedger, CreditIsConserved, PTL DEF UsesLedger

-----------------------------------------------------------------------------
(* What one step may do to a row, and on whose behalf.                     *)

(* A handler, or the operator's command, that writes a row that exists.    *)
Closes(r) ==
  \/ /\ up /\ at[r] = "reading" /\ usage'[r].state = "settled"
     /\ at'[r] = "done"
  \/ up /\ Live(r) /\ usage'[r].state = "needs_review" /\ at'[r] = "done"
  \/ usage'[r].state = "operator_settled" /\ UNCHANGED <<at, up>>

LEMMA HandlerRows ==
  ASSUME TypeOK, CallOK, NEW r \in Requests, Handle(r)
  PROVE  /\ UNCHANGED <<up, startup>>
         /\ \A q \in Requests \ {r} : at'[q] = at[q] /\ usage'[q] = usage[q]
         /\ \/ usage'[r] = usage[r]
            \/ Dispatch(r) /\ usage[r].state = "absent" /\ usage'[r].state = "reserved"
            \/ usage[r].state = "reserved" /\ Closes(r)
<1>0. usage \in [Requests -> Row] /\ usage[r] \in Row /\ at \in [Requests -> Places]
  BY DEF TypeOK, CallOK
<1>1. CASE Arrive(r) \/ Vetted(r) \/ Refuse(r) \/ Answered(r)
  BY <1>0, <1>1 DEF Arrive, Vetted, Refuse, Answered, Move, vars
<1>2. CASE Dispatch(r)
  <2>0. PICK stamp \in Instants, read \in Instants :
          Admit(r, KeyOf[r], IdemOf[r], AmountOf[r], limit[r], stamp, read)
    BY <1>2 DEF Dispatch, Reserve
  <2> DEFINE row == [NoRow EXCEPT !.state = "reserved", !.key = KeyOf[r],
                       !.idem = IdemOf[r], !.amount = AmountOf[r],
                       !.created = stamp, !.admitted = now]
  <2>1. /\ usage[r].state = "absent" /\ usage' = [usage EXCEPT ![r] = row]
        /\ at' = [at EXCEPT ![r] = "sending"] /\ UNCHANGED <<up, startup>>
    BY <1>2, <2>0 DEF Dispatch, Admit, Exists, Move
  <2>2. row.state = "reserved"
    BY DEF NoRow
  <2> HIDE DEF row
  <2>3. QED
    BY <1>0, <1>2, <2>1, <2>2
<1>3. CASE Charge(r) /\ usage[r].state = "reserved"
  <2>1. PICK billed \in Bills : Settle(r, billed, FALSE)
    BY <1>3 DEF Charge
  <2>2. /\ usage' = [usage EXCEPT ![r] = Settled(r, billed, FALSE)]
        /\ at' = [at EXCEPT ![r] = "done"] /\ UNCHANGED <<up, startup>>
        /\ up /\ at[r] = "reading"
    BY <1>3, <2>1 DEF Settle, Reprice, Charge, Move
  <2>3. Settled(r, billed, FALSE).state = "settled"
    BY <1>0 DEF Settled, Row
  <2>4. QED
    BY <1>0, <1>3, <2>2, <2>3 DEF Closes
<1>4. CASE GiveUp(r) /\ usage[r].state = "reserved"
  <2>1. /\ usage' = [usage EXCEPT ![r].state = "needs_review"]
        /\ at' = [at EXCEPT ![r] = "done"] /\ UNCHANGED <<up, startup>>
        /\ up /\ Live(r)
    BY <1>4 DEF GiveUp, Review, Move
  <2>2. QED
    BY <1>0, <1>4, <2>1 DEF Closes, Row
<1>5. CASE (Charge(r) \/ GiveUp(r)) /\ usage[r].state # "reserved"
  BY <1>0, <1>5 DEF Charge, GiveUp, Move, vars
<1>6. QED
  BY <1>1, <1>2, <1>3, <1>4, <1>5 DEF Handle

LEMMA OperatorRows ==
  ASSUME TypeOK, CallOK, CliSettle
  PROVE  /\ UNCHANGED <<at, up, startup>>
         /\ \A r \in Requests :
              \/ usage'[r] = usage[r]
              \/ usage[r].state \in Pending /\ Closes(r)
<1>1. CASE usage[cli].state \notin Pending
  BY <1>1 DEF CliSettle, local, vars
<1>2. CASE usage[cli].state \in Pending
  <2>1. PICK billed \in Bills : Settle(cli, billed, TRUE)
    BY <1>2 DEF CliSettle
  <2>2. cli \in Requests /\ UNCHANGED <<at, up>>
    BY DEF CliSettle, CallOK, local
  <2>3. /\ usage' = [usage EXCEPT ![cli] = Settled(cli, billed, TRUE)]
        /\ startup' = startup
    BY <2>1 DEF Settle, Reprice
  <2>4. Settled(cli, billed, TRUE).state = "operator_settled"
    BY <2>2 DEF Settled, TypeOK, Row
  <2>5. QED
    BY <1>2, <2>2, <2>3, <2>4 DEF TypeOK, Closes
<1>3. QED
  BY <1>1, <1>2

(* The other steps write no row.                                           *)
LEMMA OtherRows ==
  ASSUME [GatewayNext]_gatewayVars, \A r \in Requests : ~Handle(r), ~CliSettle
  PROVE  usage' = usage
BY DEF GatewayNext, CliRead, Crash, Boot, Restart, CliCredit, CreditAny, Credit,
       RevokeKey, Revoke, SetUserPolicy, Configure, Elapse, Tick, gatewayVars, vars

(* A hold is given back by its own handler and for an answer it has read,   *)
(* or by an operator: no failure, timeout, crash or restart refunds a call  *)
(* the provider may have run (app.py chat, cli.py reconcile).              *)
THEOREM NothingRefundedBlindly == GatewaySpec => NoBlindRefund
<1> DEFINE Read ==
      \A r \in Requests :
        usage[r].state = "reserved" /\ usage'[r].state = "settled"
          => at[r] = "reading" /\ up
<1>1. TypeOK /\ CallOK /\ [GatewayNext]_gatewayVars => [Read]_gatewayVars
  <2> SUFFICES ASSUME TypeOK, CallOK, [GatewayNext]_gatewayVars, NEW r \in Requests,
                      usage[r].state = "reserved", usage'[r].state = "settled"
               PROVE  at[r] = "reading" /\ up
    OBVIOUS
  <2>1. ASSUME NEW q \in Requests, Handle(q) PROVE at[r] = "reading" /\ up
    BY <2>1, HandlerRows DEF Closes
  <2>2. CASE CliSettle
    BY <2>2, OperatorRows DEF Closes
  <2>3. QED
    BY <2>1, <2>2, OtherRows
<1>2. GatewaySpec => []CallOK
  BY InitCall, CallStep, PTL DEF GatewaySpec
<1>3. GatewaySpec => []TypeOK
  BY PrepaidImplementsLedger, PrepaidTyped, PTL DEF UsesLedger
<1>4. QED
  BY <1>1, <1>2, <1>3, PTL DEF GatewaySpec, NoBlindRefund

-----------------------------------------------------------------------------
(* Who looks after a hold: a handler that has not reserved has no row, and *)
(* a reserved row has a live handler, or is in the snapshot of the running *)
(* process, or no process runs.                                            *)
Tended(r) ==
  /\ at[r] \in Before => ~Exists(r)
  /\ usage[r].state = "reserved" => Live(r) \/ r \in startup \/ ~up

AllTended == \A r \in Requests : Tended(r)

LEMMA InitTended == GatewayInit => AllTended
<1> SUFFICES ASSUME GatewayInit, NEW r \in Requests PROVE Tended(r)
  BY DEF AllTended
<1>1. usage[r] = NoRow /\ at[r] = "new"
  BY DEF GatewayInit, Init
<1>2. QED
  BY <1>1 DEF Tended, Exists, NoRow

LEMMA HandlerTended ==
  ASSUME TypeOK, CallOK, AllTended, NEW r \in Requests, Handle(r)
  PROVE  AllTended'
<1>1. /\ UNCHANGED <<up, startup>>
      /\ \A q \in Requests \ {r} : at'[q] = at[q] /\ usage'[q] = usage[q]
      /\ \/ usage'[r] = usage[r]
         \/ Dispatch(r)
         \/ usage[r].state = "reserved" /\ Closes(r)
  BY HandlerRows
<1>2. ASSUME NEW q \in Requests \ {r} PROVE Tended(q)'
  BY <1>1 DEF AllTended, Tended, Exists, Live
<1>3. Tended(r)'
  <2>0. Tended(r)
    BY DEF AllTended
  <2>1. CASE Dispatch(r)
    <3>1. at'[r] = "sending"
      BY <2>1 DEF Dispatch, Move, CallOK
    <3>2. QED
      BY <3>1 DEF Tended, Live, Before, InFlight
  <2>2. CASE usage[r].state = "reserved" /\ Closes(r)
    <3>1. at[r] \notin Before
      BY <2>0, <2>2 DEF Tended, Exists
    <3>2. usage'[r].state # "reserved" /\ at'[r] \notin Before
      BY <2>2, <3>1 DEF Closes, Before
    <3>3. QED
      BY <3>2 DEF Tended
  <2>3. CASE usage'[r] = usage[r] /\ ~Dispatch(r)
    <3>1. CASE Arrive(r) \/ Vetted(r)
      <4>1. at[r] \in Before /\ at'[r] \in Before
        BY <3>1 DEF Arrive, Vetted, Move, CallOK, Before
      <4>2. QED
        BY <2>0, <2>3, <4>1 DEF Tended, Exists
    <3>2. CASE Refuse(r)
      <4>1. at[r] \in Before /\ at'[r] = "done"
        BY <3>2 DEF Refuse, Move, CallOK
      <4>2. QED
        BY <2>0, <2>3, <4>1 DEF Tended, Exists, Before
    <3>3. CASE Answered(r)
      <4>1. at'[r] = "reading"
        BY <3>3 DEF Answered, Move, CallOK
      <4>2. QED
        BY <4>1 DEF Tended, Live, Before, InFlight
    <3>4. CASE Charge(r) \/ GiveUp(r)
      <4>1. at'[r] = "done"
        BY <3>4 DEF Charge, GiveUp, Move, CallOK
      <4>2. usage[r].state # "reserved"
        <5>1. SUFFICES ASSUME usage[r].state = "reserved" PROVE usage'[r] # usage[r]
          BY <2>3
        <5>2. usage \in [Requests -> Row] /\ usage[r] \in Row
          BY DEF TypeOK
        <5>3. CASE Charge(r)
          <6>1. PICK billed \in Bills : Settle(r, billed, FALSE)
            BY <5>1, <5>3 DEF Charge
          <6>2. usage' = [usage EXCEPT ![r] = Settled(r, billed, FALSE)]
            BY <6>1 DEF Settle, Reprice
          <6>3. Settled(r, billed, FALSE).state = "settled"
            BY <5>2 DEF Settled, Row
          <6>4. QED
            BY <5>1, <5>2, <6>2, <6>3
        <5>4. CASE GiveUp(r)
          BY <5>1, <5>2, <5>4 DEF GiveUp, Review, Row
        <5>5. QED
          BY <3>4, <5>3, <5>4
      <4>3. QED
        BY <2>3, <4>1, <4>2 DEF Tended, Before
    <3>5. QED
      BY <2>3, <3>1, <3>2, <3>3, <3>4 DEF Handle
  <2>4. QED
    BY <1>1, <2>1, <2>2, <2>3
<1>4. QED
  BY <1>2, <1>3 DEF AllTended

LEMMA TendedStep ==
  TypeOK /\ CallOK /\ AllTended /\ [GatewayNext]_gatewayVars => AllTended'
<1> SUFFICES ASSUME TypeOK, CallOK, AllTended, [GatewayNext]_gatewayVars
             PROVE  AllTended'
  OBVIOUS
<1>1. ASSUME NEW r \in Requests, Handle(r) PROVE AllTended'
  BY <1>1, HandlerTended
<1>2. CASE CliSettle
  <2>1. /\ UNCHANGED <<at, up, startup>>
        /\ \A r \in Requests :
             \/ usage'[r] = usage[r]
             \/ /\ usage[r].state \in Pending
                /\ usage'[r].state \in {"settled", "needs_review", "operator_settled"}
    BY <1>2, OperatorRows DEF Closes
  <2>2. QED
    BY <2>1 DEF AllTended, Tended, Exists, Live, Pending
<1>3. CASE UNCHANGED <<at, up, startup, usage>>
  BY <1>3 DEF AllTended, Tended, Exists, Live
<1>4. CASE Crash
  <2>1. ASSUME NEW r \in Requests PROVE Tended(r)'
    <3>1. Tended(r) /\ usage' = usage /\ up' = FALSE /\ at'[r] \in {at[r], "dead"}
      BY <1>4 DEF Crash, vars, AllTended
    <3>2. QED
      BY <3>1 DEF Tended, Exists, Before
  <2>2. QED
    BY <2>1 DEF AllTended
<1>5. CASE Boot
  <2>1. ASSUME NEW r \in Requests PROVE Tended(r)'
    <3>1. /\ Tended(r) /\ usage' = usage /\ at' = at
          /\ startup' = {q \in Requests : usage[q].state = "reserved"}
      BY <1>5 DEF Boot, Restart, AllTended
    <3>2. QED
      BY <3>1 DEF Tended, Exists
  <2>2. QED
    BY <2>1 DEF AllTended
<1>6. CASE CliCredit \/ RevokeKey \/ Elapse
  BY <1>3, <1>6 DEF CliCredit, CreditAny, Credit, RevokeKey, Revoke, Elapse, Tick, local
<1>7. CASE SetUserPolicy \/ Configure \/ \E r \in Requests : CliRead(r)
  BY <1>3, <1>7 DEF SetUserPolicy, Configure, CliRead, local, vars
<1>8. CASE UNCHANGED gatewayVars
  BY <1>3, <1>8 DEF gatewayVars, local, vars
<1>9. QED
  BY <1>1, <1>2, <1>4, <1>5, <1>6, <1>7, <1>8 DEF GatewayNext

(* Whatever crashes, restarts, operators and other handlers do in between,  *)
(* nothing is admitted while a hold has lost its handler: every hold is     *)
(* tended by a live handler or by the snapshot of the process that runs     *)
(* (app.py chat and create_app, store.py needs_review).                    *)
THEOREM LostHoldsPause == GatewaySpec => LostHoldPauses
<1> DEFINE Paused ==
      (\E r \in Requests : ~Exists(r) /\ usage'[r].state # "absent")
        => \A r \in Requests : usage[r].state = "reserved" => Live(r)
<1>1. TypeOK /\ CallOK /\ AllTended /\ [GatewayNext]_gatewayVars => [Paused]_gatewayVars
  <2> SUFFICES ASSUME TypeOK, CallOK, AllTended, [GatewayNext]_gatewayVars,
                      NEW q \in Requests, ~Exists(q), usage'[q].state # "absent",
                      NEW r \in Requests, usage[r].state = "reserved"
               PROVE  Live(r)
    OBVIOUS
  <2>1. usage[q].state = "absent" /\ usage'[q] # usage[q]
    BY DEF Exists
  <2>2. ~CliSettle
    BY <2>1, OperatorRows DEF Pending
  <2>3. PICK s \in Requests : Handle(s)
    BY <2>1, <2>2, OtherRows
  <2>4. Dispatch(s)
    BY <2>1, <2>3, HandlerRows
  <2>5. up /\ ~NeedsReview
    BY <2>4 DEF Dispatch, Reserve, Admit, Admissible
  <2>6. r \notin startup
    BY <2>5 DEF NeedsReview, Uncertain
  <2>7. QED
    BY <2>5, <2>6 DEF AllTended, Tended
<1>2. GatewaySpec => []CallOK
  BY InitCall, CallStep, PTL DEF GatewaySpec
<1>3. GatewaySpec => []TypeOK
  BY PrepaidImplementsLedger, PrepaidTyped, PTL DEF UsesLedger
<1>4. GatewaySpec => []AllTended
  BY <1>2, <1>3, InitTended, TendedStep, PTL DEF GatewaySpec
<1>5. QED
  BY <1>1, <1>2, <1>3, <1>4, PTL DEF GatewaySpec, LostHoldPauses

(* The running prepaid system keeps what the ledger promises: budgets no    *)
(* more than one request over midnight exceeds, overdrafts from billing     *)
(* only, reviews closed by an operator, and for every wallet the abstract   *)
(* account (app.py chat, cli.py).                                          *)
THEOREM PrepaidKeepsLedger ==
  GatewaySpec => /\ []BudgetExceededByOneAtMost /\ []OverdraftOnlyFromBilling
                 /\ ReviewClosedByOperator /\ EachWalletImplementsAccount
BY PrepaidImplementsLedger, BudgetsExceededByOneAtMost, OverdraftsAreBilled, ReviewsNeedOperator,
   WalletsImplementAccount DEF UsesLedger
=============================================================================
