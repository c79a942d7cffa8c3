---------------------------- MODULE PrepaidGateway ----------------------------
(***************************************************************************)
(* The prepaid half of the chat endpoint of gridraft/app.py over the       *)
(* prepaid ledger.  A step is what one handler does between two awaits.    *)
(* Nothing is streamed in this mode.                                       *)
(***************************************************************************)
EXTENDS PrepaidLedger

CONSTANTS
  KeyOf,      \* the key a request presents
  IdemOf,     \* its Idempotency-Key
  AmountOf    \* what its input bound and requested output cost at retail

ASSUME CallAssumption ==
  /\ KeyOf \in [Requests -> Keys]
  /\ IdemOf \in [Requests -> Idems]
  /\ AmountOf \in [Requests -> Amounts]
  /\ Rates # {}

VARIABLES
  at,           \* handler of a request: where it awaits
  limit,        \* the wallet_rpm each handler read when it arrived
  rpm,          \* wallet_rpm now
  maintenance,  \* operator traffic switch
  disabled,     \* suspended wallets, user_admin.disabled
  up,           \* the serving process runs
  cli           \* the pending row the reconcile command has read

local == <<at, limit, up>>

desk == <<rpm, maintenance, disabled, cli>>

gatewayVars == <<vars, local, desk>>

Before == {"new", "vetting", "funding"}

InFlight == {"sending", "reading"}

Live(r) == at[r] \in InFlight

GatewayInit ==
  /\ Init
  /\ at = [r \in Requests |-> "new"]
  /\ limit = [r \in Requests |-> NoValue]
  /\ rpm \in Rates
  /\ maintenance = FALSE
  /\ disabled = {}
  /\ up = TRUE
  /\ cli = NoValue

Move(r, place) == at' = [at EXCEPT ![r] = place]

(* The checks before the first await, and the settings the call keeps.     *)
Arrive(r) ==
  /\ up /\ at[r] = "new"
  /\ KeyOf[r] \notin revoked
  /\ WalletOf[KeyOf[r]] \notin disabled
  /\ ~maintenance
  /\ limit' = [limit EXCEPT ![r] = rpm]
  /\ Move(r, "vetting")
  /\ UNCHANGED <<vars, up, desk>>

(* Catalog and health answered; the balance query starts.                  *)
Vetted(r) ==
  /\ up /\ at[r] = "vetting"
  /\ ~NeedsReview
  /\ Move(r, "funding")
  /\ UNCHANGED <<vars, limit, up, desk>>

(* The balance is positive: reserve, and dispatch without an await.        *)
Dispatch(r) ==
  /\ up /\ at[r] = "funding"
  /\ Reserve(r, KeyOf[r], IdemOf[r], AmountOf[r], limit[r])
  /\ Move(r, "sending")
  /\ UNCHANGED <<limit, up, desk>>

(* A failed check, provider or reservation, or a cancellation.             *)
Refuse(r) ==
  /\ up /\ at[r] \in Before
  /\ Move(r, "done")
  /\ UNCHANGED <<vars, limit, up, desk>>

Answered(r) ==
  /\ up /\ at[r] = "sending"
  /\ Move(r, "reading")
  /\ UNCHANGED <<vars, limit, up, desk>>

(* settle() returns False for a row the operator has settled meanwhile.    *)
Charge(r) ==
  /\ up /\ at[r] = "reading"
  /\ IF usage[r].state = "reserved"
     THEN \E billed \in Bills : Settle(r, billed, FALSE)
     ELSE UNCHANGED vars
  /\ Move(r, "done")
  /\ UNCHANGED <<limit, up, desk>>

GiveUpWithRefund(r) ==
  /\ up /\ Live(r)
  /\ IF usage[r].state = "reserved" THEN Settle(r, 0, FALSE) ELSE UNCHANGED vars
  /\ Move(r, "done")
  /\ UNCHANGED <<limit, up, desk>>

GiveUpOnStatusOnly(r) ==
  /\ up /\ Live(r)
  /\ IF usage[r].state = "reserved" /\ at[r] = "sending"
     THEN Review(r) ELSE UNCHANGED vars
  /\ Move(r, "done")
  /\ UNCHANGED <<limit, up, desk>>

GiveUpAfterSettlement(r) ==
  /\ up /\ Live(r)
  /\ usage' = [usage EXCEPT ![r].state = "needs_review"]
  /\ Move(r, "done")
  /\ UNCHANGED <<credits, balance, spent, revoked, startup, now>>
  /\ UNCHANGED <<limit, up, desk>>

(* Exception, bad status, timeout or cancellation after the dispatch.      *)
GiveUp(r) ==
  /\ up /\ Live(r)
  /\ IF usage[r].state = "reserved" THEN Review(r) ELSE UNCHANGED vars
  /\ Move(r, "done")
  /\ UNCHANGED <<limit, up, desk>>

Crash ==
  /\ up /\ up' = FALSE
  /\ at' = [r \in Requests |->
              IF at[r] \in {"new", "done", "dead"} THEN at[r] ELSE "dead"]
  /\ UNCHANGED <<vars, limit, desk>>

BootWithoutSnapshot ==
  /\ ~up /\ up' = TRUE
  /\ UNCHANGED <<vars, at, limit, desk>>

Boot ==
  /\ ~up /\ up' = TRUE
  /\ Restart
  /\ UNCHANGED <<at, limit, desk>>

(* The reconcile command lists the pending rows, then settles one of them. *)
CliRead(r) ==
  /\ cli = NoValue /\ usage[r].state \in Pending
  /\ cli' = r
  /\ UNCHANGED <<vars, local, rpm, maintenance, disabled>>

CliSettle ==
  /\ cli # NoValue
  /\ IF usage[cli].state \in Pending
     THEN \E billed \in Bills : Settle(cli, billed, TRUE)
     ELSE UNCHANGED vars
  /\ cli' = NoValue
  /\ UNCHANGED <<local, rpm, maintenance, disabled>>

CliCredit == CreditAny /\ UNCHANGED <<local, desk>>

RevokeKey == up /\ (\E k \in Keys : Revoke(k)) /\ UNCHANGED <<local, desk>>

SetUserPolicy ==
  /\ up /\ \E w \in Wallets : disabled' \in {disabled \cup {w}, disabled \ {w}}
  /\ UNCHANGED <<vars, local, rpm, maintenance, cli>>

Configure ==
  /\ up /\ rpm' \in Rates /\ maintenance' \in BOOLEAN
  /\ UNCHANGED <<vars, local, disabled, cli>>

Elapse == Tick /\ UNCHANGED <<local, desk>>

Handle(r) ==
  \/ Arrive(r) \/ Vetted(r) \/ Dispatch(r) \/ Refuse(r)
  \/ Answered(r) \/ Charge(r) \/ GiveUp(r)

GatewayNext ==
  \/ \E r \in Requests : Handle(r) \/ CliRead(r)
  \/ Crash \/ Boot
  \/ CliSettle \/ CliCredit
  \/ RevokeKey \/ SetUserPolicy \/ Configure \/ Elapse

GatewaySpec == GatewayInit /\ [][GatewayNext]_gatewayVars

(* Every await ends: the dispatch and the body are under asyncio.timeout,   *)
(* reads have timeouts; a supervisor restarts the process.                 *)
Fairness ==
  /\ \A r \in Requests : WF_gatewayVars(Handle(r) /\ at[r] # "new")
  /\ WF_gatewayVars(Boot)

FairGatewaySpec == GatewaySpec /\ Fairness

-----------------------------------------------------------------------------

(* Handlers and the CLI change the ledger only by whole operations of it    *)
(* (app.py chat, cli.py reconcile and credit).                             *)
UsesLedger == Spec

(* Credit is never given back for a call the provider may have run: a row   *)
(* whose handler failed closes only with the operator's reconciliation      *)
(* (app.py chat; SECURITY.md: retain a hold and require review).           *)
NoBlindRefund ==
  [][\A r \in Requests :
       usage[r].state = "reserved" /\ usage'[r].state = "settled"
         => at[r] = "reading" /\ up]_gatewayVars

(* A hold whose handler is gone pauses inference: nothing is admitted while *)
(* a row is reserved and no handler is left to settle it (app.py chat,      *)
(* store.py needs_review).                                                 *)
LostHoldPauses ==
  [][(\E r \in Requests : ~Exists(r) /\ usage'[r].state # "absent")
       => \A r \in Requests : usage[r].state = "reserved" => Live(r)]_gatewayVars

(* Every hold is settled, reviewed or captured by a restart in the end      *)
(* (app.py chat: each exit after the reservation settles or reviews).      *)
HoldsResolve ==
  \A r \in Requests :
    usage[r].state = "reserved" ~> usage[r].state # "reserved" \/ r \in startup

(* No call of a wallet is dispatched while the wallet is suspended          *)
(* (API-POLICY.md: suspension is rechecked transactionally before           *)
(* reservation).                                                           *)
SuspensionRechecked ==
  [][\A r \in Requests :
       ~Exists(r) /\ usage'[r].state # "absent"
         => WalletOf[KeyOf[r]] \notin disabled]_gatewayVars
=============================================================================
