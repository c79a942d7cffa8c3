---------------------------- MODULE Gateway_proofs ----------------------------
(* Proofs about the request path.                                          *)
EXTENDS Gateway, HolderLedger_proofs

(* What the handlers, the operator and the provider maintain, apart from   *)
(* the ledger: it is inductive without any knowledge of the ledger.        *)
CallOK ==
  /\ at \in [Requests -> Places]
  /\ cfg \in LimitSets
  /\ lim \in [Requests -> LimitSets \cup {NoValue}]
  /\ seen \in [Requests -> (0 .. Funds) \cup {NoValue}]
  /\ \A r \in Requests :
       /\ at[r] \in {"funding", "funded"} \cup InFlight => lim[r] \in LimitSets
       /\ at[r] = "funded" => seen[r] \in 0 .. Funds
  /\ maintenance \in BOOLEAN /\ up \in BOOLEAN
  /\ cli \in Requests \cup {NoValue}
  /\ fund \in (0 .. Funds) \cup {NoValue}
  /\ sent \subseteq Requests
  /\ bill \in [Requests -> Costs \cup {NoValue}]
  /\ balance \in Int /\ balance <= Funds

(* Every request handed to the transport has the row it was reserved with. *)
SentRecorded ==
  \A r \in sent :
    Exists(r) /\ usage[r].key = KeyOf[r] /\ usage[r].idem = IdemOf[r]

-----------------------------------------------------------------------------

LEMMA InitCall == GatewayInit => Init /\ CallOK
<1> SUFFICES ASSUME GatewayInit PROVE CallOK
  BY DEF GatewayInit
<1>1. /\ at = [r \in Requests |-> "new"] /\ cfg \in LimitSets
      /\ lim = [r \in Requests |-> NoValue] /\ seen = [r \in Requests |-> NoValue]
      /\ maintenance = FALSE /\ up = TRUE /\ cli = NoValue /\ fund = NoValue
      /\ sent = {} /\ bill = [r \in Requests |-> NoValue] /\ balance = Funds
  BY DEF GatewayInit
<1>2. balance \in Int /\ balance <= Funds
  BY <1>1, CallAssumption
<1>3. maintenance \in BOOLEAN /\ up \in BOOLEAN
  BY <1>1
<1>4. /\ at \in [Requests -> Places]
      /\ \A r \in Requests : at[r] \notin {"funding", "funded"} \cup InFlight
  BY <1>1 DEF Places, Before, InFlight
<1>5. QED
  BY <1>1, <1>2, <1>3, <1>4 DEF CallOK

(* A handler that moves keeps what it read, or has just read it.           *)
LEMMA MoveKeeps ==
  ASSUME CallOK, NEW r \in Requests, NEW place \in Places, Move(r, place),
         UNCHANGED <<up, desk, provider>>,
         \/ UNCHANGED <<lim, seen>> /\ (place \in InFlight =>
              at[r] \in {"funded"} \cup InFlight)
              /\ place \notin {"funding", "funded"}
         \/ /\ place = "funding" /\ UNCHANGED seen
            /\ lim' = [lim EXCEPT ![r] = cfg]
         \/ /\ place = "funded" /\ at[r] = "funding" /\ UNCHANGED lim
            /\ \E b \in 0 .. Funds : seen' = [seen EXCEPT ![r] = b]
  PROVE  CallOK'
<1>1. at' \in [Requests -> Places] /\ at' = [at EXCEPT ![r] = place]
  BY DEF Move, CallOK
<1>2. /\ lim' \in [Requests -> LimitSets \cup {NoValue}]
      /\ seen' \in [Requests -> (0 .. Funds) \cup {NoValue}]
  BY DEF CallOK
<1>3. ASSUME NEW q \in Requests
      PROVE  /\ at'[q] \in {"funding", "funded"} \cup InFlight => lim'[q] \in LimitSets
             /\ at'[q] = "funded" => seen'[q] \in 0 .. Funds
  <2>1. CASE q # r
    BY <1>1, <2>1 DEF CallOK
  <2>2. CASE q = r
    BY <1>1, <2>2 DEF CallOK, InFlight
  <2>3. QED
    BY <2>1, <2>2
<1>4. QED
  BY <1>1, <1>2, <1>3 DEF CallOK, provider, desk

LEMMA HandleKeeps ==
  ASSUME CallOK, NEW r \in Requests, Handle(r) \/ DropUnstarted(r)
  PROVE  CallOK'
<1> USE DEF Places, Before, InFlight
<1>1. CASE Arrive(r)
  BY <1>1, MoveKeeps DEF Arrive
<1>2. CASE Vetted(r)
  BY <1>2, MoveKeeps DEF Vetted
<1>3. CASE AnswerBalance(r)
  <2>1. Spendable \in 0 .. Funds
    BY CallAssumption DEF CallOK, Spendable
  <2>2. QED
    BY <1>3, <2>1, MoveKeeps DEF AnswerBalance
<1>4. CASE Dispatch(r)
  <2>1. /\ at[r] = "funded" /\ at' = [at EXCEPT ![r] = "sending"]
        /\ sent' = sent \cup {r}
        /\ UNCHANGED <<lim, seen, up, desk, bill, balance>>
    BY <1>4 DEF Dispatch, Move
  <2>2. QED
    BY <2>1 DEF CallOK, desk
<1>5. CASE Refuse(r)
  BY <1>5, MoveKeeps DEF Refuse
<1>6. CASE Answered(r)
  BY <1>6, MoveKeeps DEF Answered
<1>7. CASE StartStream(r)
  BY <1>7, MoveKeeps DEF StartStream
<1>8. CASE UsageKnown(r)
  BY <1>8, MoveKeeps DEF UsageKnown
<1>9. CASE Charge(r)
  BY <1>9, MoveKeeps DEF Charge
<1>10. CASE GiveUp(r)
  BY <1>10, MoveKeeps DEF GiveUp
<1>11. CASE DropUnstarted(r)
  BY <1>11, MoveKeeps DEF DropUnstarted
<1>12. QED
  BY <1>1, <1>2, <1>3, <1>4, <1>5, <1>6, <1>7, <1>8, <1>9, <1>10, <1>11 DEF Handle

LEMMA CallStep == CallOK /\ [GatewayNext]_gatewayVars => CallOK'
<1> SUFFICES ASSUME CallOK, [GatewayNext]_gatewayVars PROVE CallOK'
  OBVIOUS
<1>1. ASSUME NEW r \in Requests, Handle(r) \/ DropUnstarted(r) PROVE CallOK'
  BY <1>1, HandleKeeps
<1>2. ASSUME NEW r \in Requests, ProviderCharges(r) PROVE CallOK'
  <2>1. PICK cost \in Costs : /\ bill' = [bill EXCEPT ![r] = cost]
                              /\ balance' = balance - cost
    BY <1>2 DEF ProviderCharges
  <2>2. cost \in Nat /\ Funds \in Nat
    BY QuantityAssumption, CallAssumption
  <2>3. balance' \in Int /\ balance' <= Funds
    BY <2>1, <2>2 DEF CallOK
  <2>4. QED
    BY <1>2, <2>1, <2>3 DEF ProviderCharges, CallOK, local, desk
<1>3. ASSUME NEW r \in Requests, CliRead(r) PROVE CallOK'
  BY <1>3 DEF CliRead, CallOK, local, provider
<1>4. CASE Crash
  <2>1. /\ at' \in [Requests -> Places]
        /\ \A r \in Requests : at'[r] = at[r] \/ at'[r] = "dead"
    BY <1>4 DEF Crash, CallOK, Places
  <2>2. QED
    BY <1>4, <2>1 DEF Crash, CallOK, provider, InFlight
<1>5. CASE Boot
  BY <1>5 DEF Boot, CallOK, provider, desk
<1>6. CASE CliSettle
  BY <1>6 DEF CliSettle, CallOK, local, provider
<1>7. CASE CliAllocate
  BY <1>7 DEF CliAllocate, CallOK, local, desk, provider
<1>8. CASE Administer \/ Configure
  BY <1>8 DEF Administer, Configure, CallOK, local, desk, provider
<1>9. CASE Elapse
  BY <1>9 DEF Elapse, CallOK, local, desk, provider
<1>10. CASE UNCHANGED gatewayVars
  BY <1>10 DEF CallOK, gatewayVars, local, desk, provider
<1>11. CASE FundRead \/ FundAllocate
  <2>1. Spendable \in 0 .. Funds
    BY CallAssumption DEF CallOK, Spendable
  <2>2. QED
    BY <1>11, <2>1 DEF FundRead, FundAllocate, CallOK, local, provider
<1>12. QED
  BY <1>1, <1>2, <1>3, <1>4, <1>5, <1>6, <1>7, <1>8, <1>9, <1>10, <1>11 DEF GatewayNext

-----------------------------------------------------------------------------
(* Every step of the system is a step of the ledger or leaves it alone.    *)

LEMMA ChargeIsLedgerStep ==
  ASSUME CallOK, NEW r \in Requests, Charge(r)
  PROVE  SettleAny(r) \/ UNCHANGED vars
<1>1. CASE usage[r].state # "reserved"
  BY <1>1 DEF Charge
<1>2. CASE usage[r].state = "reserved"
  <2>0. PICK used \in UsedTokens :
          \E cost \in CostsOf(r, used) : Settle(r, used, cost, FALSE)
    BY <1>2 DEF Charge
  <2>1. PICK cost \in CostsOf(r, used) : Settle(r, used, cost, FALSE)
    BY <2>0
  <2>2. lim[r] \in LimitSets /\ bill[r] \in Costs \cup {NoValue}
    BY DEF Charge, CallOK, InFlight
  <2>3. used * lim[r].rate \in Costs
    BY <2>2, CallAssumption
  <2>4. cost \in Costs
    BY <2>2, <2>3 DEF CostsOf
  <2>5. QED
    BY <2>1, <2>4 DEF SettleAny
<1>3. QED
  BY <1>1, <1>2

LEMMA DispatchIsLedgerStep ==
  ASSUME CallOK, NEW r \in Requests, Dispatch(r)
  PROVE  ReserveAny(r)
<1>1. lim[r] \in LimitSets /\ seen[r] \in 0 .. Funds
  BY DEF Dispatch, CallOK
<1>2. seen[r] \in Observed \ {NoValue}
  <2>1. seen[r] \in Nat
    BY <1>1
  <2>2. QED
    BY <1>1, <2>1, CallAssumption, QuantityAssumption
<1>3. KeyOf[r] \in Keys /\ IdemOf[r] \in Idems /\ TokensOf[r] \in TokenSizes
  BY CallAssumption
<1>4. QED
  BY <1>1, <1>2, <1>3 DEF Dispatch, ReserveAny

LEMMA LedgerStep == CallOK /\ [GatewayNext]_gatewayVars => [Next]_vars
<1> SUFFICES ASSUME CallOK, [GatewayNext]_gatewayVars PROVE [Next]_vars
  OBVIOUS
<1>1. ASSUME NEW r \in Requests, Handle(r) PROVE [Next]_vars
  <2>1. CASE Dispatch(r)
    BY <2>1, DispatchIsLedgerStep DEF Next
  <2>2. CASE Charge(r)
    BY <2>2, ChargeIsLedgerStep DEF Next
  <2>3. CASE GiveUp(r)
    BY <2>3 DEF GiveUp, Next
  <2>4. CASE \/ Arrive(r) \/ Vetted(r) \/ AnswerBalance(r) \/ Refuse(r)
             \/ Answered(r) \/ StartStream(r) \/ UsageKnown(r)
    BY <2>4 DEF Arrive, Vetted, AnswerBalance, Refuse, Answered, StartStream,
                UsageKnown, vars
  <2>5. QED
    BY <1>1, <2>1, <2>2, <2>3, <2>4 DEF Handle
<1>2. ASSUME NEW r \in Requests, DropUnstarted(r) \/ ProviderCharges(r) \/ CliRead(r)
      PROVE  [Next]_vars
  BY <1>2 DEF DropUnstarted, ProviderCharges, CliRead, vars
<1>3. CASE CliSettle
  <2>1. CASE usage[cli].state \in Pending
    BY <1>3, <2>1 DEF CliSettle, CallOK, SettleAny, Next
  <2>2. CASE usage[cli].state \notin Pending
    BY <1>3, <2>2 DEF CliSettle
  <2>3. QED
    BY <2>1, <2>2
<1>4. CASE CliAllocate
  <2>1. PICK ref \in Refs, amount \in Grants : Allocate(ref, amount, NoValue)
    BY <1>4 DEF CliAllocate
  <2>2. NoValue \in Observed
    BY CallAssumption
  <2>3. QED
    BY <2>1, <2>2 DEF AllocateAny, Next
<1>5. CASE FundAllocate
  <2>1. CASE UNCHANGED vars
    BY <2>1
  <2>2. CASE \E ref \in Refs, amount \in Grants : Allocate(ref, amount, fund)
    <3>1. fund \in Observed
      BY CallAssumption DEF CallOK
    <3>2. QED
      BY <2>2, <3>1 DEF AllocateAny, Next
  <2>3. QED
    BY <1>5, <2>1, <2>2 DEF FundAllocate
<1>6. CASE Administer
  BY <1>6 DEF Administer, Next, vars
<1>7. CASE Crash \/ Boot \/ Elapse \/ Configure \/ FundRead
  BY <1>7 DEF Crash, Boot, Elapse, Configure, FundRead, Next, vars
<1>8. CASE UNCHANGED gatewayVars
  BY <1>8 DEF gatewayVars, vars
<1>9. QED
  BY <1>1, <1>2, <1>3, <1>4, <1>5, <1>6, <1>7, <1>8 DEF GatewayNext

(* The running system - concurrent handlers, the CLI, crashes, a provider   *)
(* that charges when it likes - implements the ledger's specification       *)
(* (member_gateway.py, cli.py, app.py).                                    *)
THEOREM GatewayImplementsLedger == GatewaySpec => UsesLedger
<1>1. GatewaySpec => []CallOK
  BY InitCall, CallStep, PTL DEF GatewaySpec
<1>2. QED
  BY <1>1, InitCall, LedgerStep, PTL DEF GatewaySpec, UsesLedger, Spec

(* The system is well typed: a handler that reserves has read its limits    *)
(* and the provider's balance (app.py chat, member_gateway.py call).       *)
THEOREM GatewayTyped == GatewaySpec => []GatewayTypeOK
<1>1. GatewaySpec => []CallOK
  BY InitCall, CallStep, PTL DEF GatewaySpec
<1>2. GatewaySpec => []TypeOK
  BY GatewayImplementsLedger, LedgerTyped, PTL DEF UsesLedger
<1>3. CallOK /\ TypeOK => GatewayTypeOK
  BY DEF CallOK, GatewayTypeOK
<1>4. QED
  BY <1>1, <1>2, <1>3, PTL

(* In the running system too, costs and holds exceed the allocations only   *)
(* by what settlements charged beyond their holds (membership.py _admit).  *)
THEOREM GatewayPoolNotOversold == GatewaySpec => []OverrunOnlyFromBilling
BY GatewayImplementsLedger, PoolNotOversold, PTL DEF UsesLedger

-----------------------------------------------------------------------------

(* A row keeps its key, its Idempotency-Key and its existence.             *)
LEMMA RowsKeepIdentity ==
  ASSUME TypeOK, [Next]_vars, NEW q \in Requests, Exists(q)
  PROVE  Exists(q)' /\ usage'[q].key = usage[q].key /\ usage'[q].idem = usage[q].idem
<1>1. CASE usage' = usage
  BY <1>1 DEF Exists
<1>2. ASSUME NEW r \in Requests, ReserveAny(r) PROVE usage'[q] = usage[q]
  <2>1. PICK row : usage[r].state = "absent" /\ usage' = [usage EXCEPT ![r] = row]
    BY <1>2, ReserveWrites DEF ReserveAny
  <2>2. QED
    BY <2>1 DEF TypeOK, Exists
<1>3. ASSUME NEW r \in Requests, SettleAny(r) \/ Review(r)
      PROVE  /\ usage'[r].state # "absent"
             /\ usage'[r].key = usage[r].key /\ usage'[r].idem = usage[r].idem
             /\ q # r => usage'[q] = usage[q]
  <2>1. usage[r] \in Row
    BY DEF TypeOK
  <2>2. CASE SettleAny(r)
    <3>1. PICK used \in UsedTokens, cost \in Costs, evidence \in BOOLEAN :
            Settle(r, used, cost, evidence)
      BY <2>2 DEF SettleAny
    <3> DEFINE row == [usage[r] EXCEPT !.state = "settled", !.used = used,
                         !.cost = cost, !.evidence = evidence]
    <3>2. usage' = [usage EXCEPT ![r] = row]
      BY <3>1 DEF Settle, Write
    <3>3. row.state = "settled" /\ row.key = usage[r].key /\ row.idem = usage[r].idem
      BY <2>1 DEF Row
    <3> HIDE DEF row
    <3>4. QED
      BY <3>2, <3>3 DEF TypeOK
  <2>3. CASE Review(r)
    <3> DEFINE row == [usage[r] EXCEPT !.state = "needs_review"]
    <3>2. usage' = [usage EXCEPT ![r] = row]
      BY <2>3 DEF Review, Write
    <3>3. row.state = "needs_review" /\ row.key = usage[r].key /\ row.idem = usage[r].idem
      BY <2>1 DEF Row
    <3> HIDE DEF row
    <3>4. QED
      BY <3>2, <3>3 DEF TypeOK
  <2>4. QED
    BY <1>3, <2>2, <2>3
<1>4. QED
  BY <1>1, <1>2, <1>3 DEF Next, vars, AllocateAny, Allocate, Revoke,
     SetPolicyAny, SetPolicy, Restart, Tick, Exists

(* Only Dispatch sends, and it reserves in the same step.                  *)
LEMMA SentByDispatch ==
  ASSUME [GatewayNext]_gatewayVars
  PROVE  sent' = sent \/ \E r \in Requests : Dispatch(r)
BY DEF GatewayNext, Handle, Arrive, Vetted, AnswerBalance, Refuse, Answered,
   StartStream, DropUnstarted, UsageKnown, Charge, GiveUp, ProviderCharges,
   Crash, Boot, CliRead, CliSettle, CliAllocate, FundRead, FundAllocate,
   Administer, Configure, Elapse,
   gatewayVars, provider

LEMMA DispatchRecords ==
  ASSUME TypeOK, NEW r \in Requests, Dispatch(r)
  PROVE  /\ sent' = sent \cup {r} /\ Exists(r)'
         /\ usage'[r].key = KeyOf[r] /\ usage'[r].idem = IdemOf[r]
<1>0. PICK stamp \in Instants, read \in Instants :
        Admit(r, KeyOf[r], IdemOf[r], TokensOf[r], lim[r], seen[r], stamp, read)
  BY DEF Dispatch, Reserve
<1> DEFINE row == [NoRow EXCEPT !.state = "reserved", !.key = KeyOf[r],
                     !.idem = IdemOf[r], !.tokens = TokensOf[r],
                     !.amount = TokensOf[r] * lim[r].rate,
                     !.created = stamp, !.admitted = now]
<1>1. sent' = sent \cup {r} /\ usage' = [usage EXCEPT ![r] = row]
  BY <1>0 DEF Dispatch, Admit, Write
<1>2. row.state = "reserved" /\ row.key = KeyOf[r] /\ row.idem = IdemOf[r]
  BY DEF NoRow
<1>3. usage'[r] = row
  BY <1>1 DEF TypeOK
<1>4. QED
  BY <1>1, <1>2, <1>3 DEF Exists

LEMMA SentRecordedStep ==
  TypeOK /\ CallOK /\ SentRecorded /\ [GatewayNext]_gatewayVars => SentRecorded'
<1> SUFFICES ASSUME TypeOK, CallOK, SentRecorded, [GatewayNext]_gatewayVars,
                    NEW q \in sent'
             PROVE  (Exists(q) /\ usage[q].key = KeyOf[q] /\ usage[q].idem = IdemOf[q])'
  BY DEF SentRecorded
<1>1. CASE q \in sent
  <2>1. [Next]_vars /\ q \in Requests
    BY <1>1, LedgerStep DEF CallOK
  <2>2. QED
    BY <1>1, <2>1, RowsKeepIdentity DEF SentRecorded
<1>2. CASE q \notin sent
  <2>1. PICK r \in Requests : Dispatch(r)
    BY <1>2, SentByDispatch
  <2>2. q = r
    BY <1>2, <2>1, DispatchRecords
  <2>3. QED
    BY <2>1, <2>2, DispatchRecords
<1>3. QED
  BY <1>1, <1>2

(* For any number of clients that retry, and any crashes, the provider      *)
(* works at most once for a key and an Idempotency-Key, and never without   *)
(* a row that holds funds for it (member_gateway.py call).                 *)
THEOREM ProviderWorksOnce == GatewaySpec => []SentOnce
<1>1. GatewaySpec => []CallOK
  BY InitCall, CallStep, PTL DEF GatewaySpec
<1>2. GatewaySpec => []TypeOK
  BY GatewayImplementsLedger, LedgerTyped, PTL DEF UsesLedger
<1>3. GatewaySpec => []OneChargePerIdem
  BY GatewayImplementsLedger, OneChargePerIdempotencyKey, PTL DEF UsesLedger
<1>4. GatewayInit => SentRecorded
  BY DEF GatewayInit, SentRecorded
<1>5. GatewaySpec => []SentRecorded
  BY <1>1, <1>2, <1>4, SentRecordedStep, PTL DEF GatewaySpec
<1>6. CallOK /\ SentRecorded /\ OneChargePerIdem => SentOnce
  BY DEF CallOK, SentRecorded, OneChargePerIdem, SentOnce
<1>7. QED
  BY <1>1, <1>3, <1>5, <1>6, PTL

(* However long a handler waited, nothing is sent for a key revoked or a    *)
(* wallet suspended in the meantime (app.py chat, membership.py _admit).   *)
THEOREM AuthorityIsFresh == GatewaySpec => NoStaleAuthority
<1> DEFINE Fresh ==
      \A r \in Requests :
        KeyOf[r] \in revoked \/ policy[WalletOf[KeyOf[r]]].disabled
          => (r \in sent' => r \in sent)
<1>1. [GatewayNext]_gatewayVars => [Fresh]_gatewayVars
  <2> SUFFICES ASSUME [GatewayNext]_gatewayVars PROVE Fresh
    OBVIOUS
  <2>1. ASSUME NEW r \in Requests, Dispatch(r)
        PROVE  /\ KeyOf[r] \notin revoked
               /\ ~policy[WalletOf[KeyOf[r]]].disabled
               /\ sent' = sent \cup {r}
    BY <2>1 DEF Dispatch, Reserve, Admit, Admissible
  <2>2. QED
    BY <2>1, SentByDispatch
<1>2. QED
  BY <1>1, PTL DEF GatewaySpec, NoStaleAuthority
-----------------------------------------------------------------------------
(* Every stream that is returned is also read: none is dropped before its  *)
(* first byte.                                                             *)
NoneDropped == \A r \in Streams : ~DropUnstarted(r)

StreamsAreRead == [][NoneDropped]_gatewayVars

(* Who looks after a hold: a handler that has not reserved has no row, and *)
(* a reserved row has a live handler, or is in the snapshot of the running *)
(* process, or no process runs.                                            *)
Tended(r) ==
  /\ at[r] \in Before => ~Exists(r)
  /\ at[r] = "returned" => r \in Streams
  /\ usage[r].state = "reserved" =>
       Live(r) \/ r \in startup \/ ~up

AllTended == \A r \in Requests : Tended(r)

LEMMA InitTended == GatewayInit => AllTended
<1> SUFFICES ASSUME GatewayInit, NEW r \in Requests PROVE Tended(r)
  BY DEF AllTended
<1>1. usage[r] = NoRow /\ at[r] = "new"
  BY DEF GatewayInit, Init
<1>2. QED
  BY <1>1 DEF Tended, Exists, NoRow

(* A step that moves no handler, and opens no row.                         *)
LEMMA ElsewhereTended ==
  ASSUME NEW r \in Requests, Tended(r), UNCHANGED <<at[r], up, startup>>,
         \/ usage'[r] = usage[r]
         \/ usage[r].state # "absent" /\ usage'[r].state \in {"settled", "needs_review"}
  PROVE  Tended(r)'
BY DEF Tended, Exists, Live

(* One handler moves: its own row and no other.                            *)
LEMMA HandlerTended ==
  ASSUME TypeOK, CallOK, AllTended, NEW r \in Requests, Handle(r)
  PROVE  AllTended'
<1> USE DEF Before, InFlight
<1>1. /\ UNCHANGED <<up, startup>>
      /\ \A q \in Requests \ {r} : at'[q] = at[q] /\ usage'[q] = usage[q]
  <2>1. \E place \in Places : Move(r, place)
    BY DEF Handle, Arrive, Vetted, AnswerBalance, Dispatch, Refuse, Answered,
           StartStream, UsageKnown, Charge, GiveUp, Places
  <2>2. \A q \in Requests \ {r} : at'[q] = at[q]
    BY <2>1 DEF Move, CallOK
  <2>3. UNCHANGED <<up, startup>>
    BY ReserveWrites
       DEF Handle, Arrive, Vetted, AnswerBalance, Dispatch, Refuse, Answered,
           StartStream, UsageKnown, Charge, GiveUp,
           Settle, Review, vars, desk, provider
  <2>4. usage' = usage \/ \E row : usage' = [usage EXCEPT ![r] = row]
    BY ReserveWrites
       DEF Handle, Arrive, Vetted, AnswerBalance, Dispatch, Refuse, Answered,
           StartStream, UsageKnown, Charge, GiveUp,
           Settle, Review, Write, vars
  <2>5. QED
    BY <2>2, <2>3, <2>4 DEF TypeOK
<1>2. Tended(r)'
  <2>0. Tended(r) /\ at[r] \in Places /\ usage[r] \in Row
    BY DEF AllTended, CallOK, TypeOK
  <2>1. CASE Arrive(r) \/ Vetted(r) \/ AnswerBalance(r)
    <3>1. usage' = usage /\ at[r] \in Before /\ at'[r] \in Before \ {"new"}
      BY <2>1 DEF Arrive, Vetted, AnswerBalance, Move, CallOK, vars
    <3>2. QED
      BY <2>0, <3>1 DEF Tended, Exists
  <2>2. CASE Refuse(r)
    <3>1. usage' = usage /\ at[r] \in Before /\ at'[r] = "done"
      BY <2>2 DEF Refuse, Move, CallOK, vars
    <3>2. QED
      BY <2>0, <3>1 DEF Tended, Exists
  <2>3. CASE Dispatch(r)
    <3>1. at'[r] = "sending"
      BY <2>3 DEF Dispatch, Move, CallOK
    <3>2. QED
      BY <3>1 DEF Tended, Live
  <2>4. CASE Answered(r) \/ StartStream(r) \/ UsageKnown(r)
    <3>1. /\ usage' = usage /\ at'[r] \in InFlight
          /\ at'[r] = "returned" => r \in Streams
      BY <2>4 DEF Answered, StartStream, UsageKnown, Move, CallOK, vars
    <3>2. QED
      BY <3>1 DEF Tended, Live
  <2>5. CASE Charge(r) \/ GiveUp(r)
    <3>1. at'[r] = "done"
      BY <2>5 DEF Charge, GiveUp, Move, CallOK
    <3>2. usage'[r].state # "reserved"
      <4>1. CASE usage[r].state # "reserved"
        BY <2>5, <4>1 DEF Charge, GiveUp, vars
      <4>2. CASE usage[r].state = "reserved"
        <5>1. \E row : /\ usage' = [usage EXCEPT ![r] = row]
                       /\ row.state \in {"settled", "needs_review"}
          <6>1. CASE Charge(r)
            <7>1. PICK used \in UsedTokens :
                    \E cost \in CostsOf(r, used) : Settle(r, used, cost, FALSE)
              BY <4>2, <6>1 DEF Charge
            <7>2. PICK cost \in CostsOf(r, used) : Settle(r, used, cost, FALSE)
              BY <7>1
            <7> DEFINE row == [usage[r] EXCEPT !.state = "settled", !.used = used,
                                 !.cost = cost, !.evidence = FALSE]
            <7>3. usage' = [usage EXCEPT ![r] = row]
              BY <7>2 DEF Settle, Write
            <7>4. row.state = "settled"
              BY <2>0 DEF Row
            <7>5. QED
              BY <7>3, <7>4
          <6>2. CASE GiveUp(r)
            BY <2>0, <4>2, <6>2 DEF GiveUp, Review, Write, Row
          <6>3. QED
            BY <2>5, <6>1, <6>2
        <5>2. QED
          BY <5>1 DEF TypeOK
      <4>3. QED
        BY <4>1, <4>2
    <3>3. QED
      BY <3>1, <3>2 DEF Tended
  <2>6. QED
    BY <2>1, <2>2, <2>3, <2>4, <2>5 DEF Handle
<1>3. ASSUME NEW q \in Requests \ {r} PROVE Tended(q)'
  <2>1. Tended(q)
    BY DEF AllTended
  <2>2. QED
    BY <1>1, <2>1, ElsewhereTended
<1>4. QED
  BY <1>2, <1>3 DEF AllTended

LEMMA TendedStep ==
  /\ TypeOK /\ CallOK /\ AllTended
  /\ [GatewayNext]_gatewayVars /\ [NoneDropped]_gatewayVars
  => AllTended'
<1> SUFFICES ASSUME TypeOK, CallOK, AllTended, [GatewayNext]_gatewayVars,
                    [NoneDropped]_gatewayVars
             PROVE  AllTended'
  OBVIOUS
<1>1. ASSUME NEW r \in Requests, Handle(r) PROVE AllTended'
  BY <1>1, HandlerTended
<1>2. CASE UNCHANGED <<at, up, startup, usage>>
  BY <1>2, ElsewhereTended DEF AllTended
<1>3. ASSUME NEW r \in Requests, ProviderCharges(r) \/ CliRead(r) PROVE AllTended'
  BY <1>2, <1>3 DEF ProviderCharges, CliRead, local, vars
<1>4. CASE Crash
  <2>1. ASSUME NEW r \in Requests PROVE Tended(r)'
    <3>1. Tended(r) /\ usage' = usage /\ up' = FALSE /\ at'[r] \in {at[r], "dead"}
      BY <1>4 DEF Crash, vars, AllTended
    <3>2. QED
      BY <3>1 DEF Tended, Exists, Before
  <2>2. QED
    BY <2>1 DEF AllTended
<1>5. CASE Boot
  <2>1. ASSUME NEW r \in Requests PROVE Tended(r)'
    <3>1. /\ Tended(r) /\ usage' = usage /\ at' = at
          /\ startup' = {q \in Requests : usage[q].state = "reserved"}
      BY <1>5 DEF Boot, Restart, AllTended
    <3>2. QED
      BY <3>1 DEF Tended, Exists
  <2>2. QED
    BY <2>1 DEF AllTended
<1>6. CASE CliSettle
  <2>1. CASE usage[cli].state \notin Pending
    BY <1>2, <1>6, <2>1 DEF CliSettle, vars, local
  <2>2. CASE usage[cli].state \in Pending
    <3>1. PICK used \in UsedTokens, cost \in Costs : Settle(cli, used, cost, TRUE)
      BY <1>6, <2>2 DEF CliSettle
    <3>2. cli \in Requests
      BY <1>6 DEF CliSettle, CallOK
    <3> DEFINE row == [usage[cli] EXCEPT !.state = "settled", !.used = used,
                         !.cost = cost, !.evidence = TRUE]
    <3>3. usage' = [usage EXCEPT ![cli] = row] /\ UNCHANGED <<at, up, startup>>
      BY <1>6, <3>1 DEF Settle, Write, CliSettle, local
    <3>4. row.state = "settled"
      BY <3>2 DEF TypeOK, Row
    <3> HIDE DEF row
    <3>5. ASSUME NEW r \in Requests PROVE Tended(r)'
      <4>1. \/ usage'[r] = usage[r]
            \/ usage[r].state # "absent" /\ usage'[r].state = "settled"
        BY <2>2, <3>2, <3>3, <3>4 DEF TypeOK, Pending
      <4>2. Tended(r)
        BY DEF AllTended
      <4>3. QED
        BY <3>3, <4>1, <4>2, ElsewhereTended
    <3>6. QED
      BY <3>5 DEF AllTended
  <2>3. QED
    BY <2>1, <2>2
<1>7. CASE CliAllocate \/ FundRead \/ FundAllocate
  BY <1>2, <1>7 DEF CliAllocate, FundRead, FundAllocate, Allocate, local, vars
<1>8. CASE Administer \/ Configure \/ Elapse
  BY <1>2, <1>8 DEF Administer, Configure, Elapse, Revoke, SetPolicyAny,
                    SetPolicy, Tick, local, vars
<1>9. CASE UNCHANGED gatewayVars
  BY <1>2, <1>9 DEF gatewayVars, local, vars
<1>10. ASSUME NEW r \in Requests, DropUnstarted(r) PROVE AllTended'
  <2>1. r \in Streams
    BY <1>10 DEF DropUnstarted, AllTended, Tended
  <2>2. UNCHANGED gatewayVars
    BY <1>10, <2>1 DEF NoneDropped
  <2>3. QED
    BY <1>9, <2>2
<1>11. QED
  BY <1>1, <1>3, <1>4, <1>5, <1>6, <1>7, <1>8, <1>9, <1>10 DEF GatewayNext

(* A row that appears was reserved by a handler.                           *)
LEMMA AdmissionIsDispatch ==
  ASSUME TypeOK, CallOK, [GatewayNext]_gatewayVars, Admits
  PROVE  \E r \in Requests : Dispatch(r)
<1>1. PICK q \in Requests : usage[q].state = "absent" /\ usage'[q].state # "absent"
  BY DEF Admits, Exists
<1>2. SUFFICES ASSUME \A r \in Requests : ~Dispatch(r) PROVE FALSE
  OBVIOUS
<1>3. ASSUME NEW r \in Requests, NEW row, usage[r].state \in Pending,
             usage' = [usage EXCEPT ![r] = row]
      PROVE  FALSE
  BY <1>1, <1>3 DEF TypeOK, Pending
<1>4. usage' # usage
  BY <1>1
<1>5. ASSUME NEW r \in Requests, Charge(r) \/ GiveUp(r) PROVE FALSE
  <2>1. usage[r].state \in Pending /\ \E row : usage' = [usage EXCEPT ![r] = row]
    BY <1>4, <1>5 DEF Charge, GiveUp, Settle, Review, Write, Pending, vars
  <2>2. QED
    BY <1>3, <2>1
<1>6. CASE CliSettle
  BY <1>3, <1>4, <1>6 DEF CliSettle, CallOK, Settle, Write, vars
<1>7. QED
  BY <1>2, <1>4, <1>5, <1>6
     DEF GatewayNext, Handle, Arrive, Vetted, AnswerBalance, Refuse, Answered,
         StartStream, DropUnstarted, UsageKnown, ProviderCharges, Crash, Boot,
         Restart, CliRead, CliAllocate, Allocate, FundRead, FundAllocate,
         Administer, Revoke, SetPolicyAny, SetPolicy, Configure, Elapse, Tick,
         gatewayVars, vars

(* While something is admitted, every hold has its handler.                *)
LEMMA AdmissionSeesHandlers ==
  ASSUME TypeOK, CallOK, AllTended, [GatewayNext]_gatewayVars, Admits,
         NEW r \in Requests, usage[r].state = "reserved"
  PROVE  Live(r)
<1>1. PICK q \in Requests : Dispatch(q)
  BY AdmissionIsDispatch
<1>2. up /\ ~ReconciliationRequired
  BY <1>1 DEF Dispatch, Reserve, Admit, Admissible
<1>3. r \notin startup
  BY <1>2 DEF ReconciliationRequired, StartupPending
<1>4. QED
  BY <1>2, <1>3 DEF AllTended, Tended

(* Nothing is admitted while a hold has lost its handler, whatever crashes, *)
(* restarts, operators and other handlers do in between, as long as no      *)
(* stream is dropped between its return and its first byte.  That moment    *)
(* is the only one: with it the GatewayStream run finds a hold nobody sees  *)
(* (member_gateway.py call and stream, membership.py pool, store.py         *)
(* startup_reservations_pending).                                          *)
THEOREM LostHoldsPause == GatewaySpec /\ StreamsAreRead => LostHoldPauses
<1> DEFINE Paused == Admits => \A r \in Requests : usage[r].state = "reserved" => Live(r)
<1>1. GatewaySpec => []CallOK
  BY InitCall, CallStep, PTL DEF GatewaySpec
<1>2. GatewaySpec => []TypeOK
  BY GatewayImplementsLedger, LedgerTyped, PTL DEF UsesLedger
<1>3. GatewaySpec /\ StreamsAreRead => []AllTended
  BY <1>1, <1>2, InitTended, TendedStep, PTL DEF GatewaySpec, StreamsAreRead
<1>4. TypeOK /\ CallOK /\ AllTended /\ [GatewayNext]_gatewayVars => [Paused]_gatewayVars
  BY AdmissionSeesHandlers
<1>5. QED
  BY <1>1, <1>2, <1>3, <1>4, PTL DEF GatewaySpec, LostHoldPauses

(* What the ledger promises beyond its sums, the running system keeps:      *)
(* daily limits but for one request over midnight, concurrency limits, the  *)
(* pause while a charge is uncertain, final settlements and the abstract    *)
(* account (app.py chat, member_gateway.py, cli.py).                       *)
THEOREM GatewayKeepsLedger ==
  GatewaySpec => /\ []DayOversoldByOneAtMost /\ []ConcurrencyCapped
                 /\ PausedWhileUncertain /\ SettlementFinal /\ ImplementsAccount
BY GatewayImplementsLedger, DaysOversoldByOneAtMost, ConcurrencyIsCapped,
   UncertaintyPauses, SettlementsAreFinal, LedgerImplementsAccount DEF UsesLedger
=============================================================================
