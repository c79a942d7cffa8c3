------------------------------- MODULE Gateway -------------------------------
(***************************************************************************)
(* The holder request path: the chat endpoint of gridraft/app.py and       *)
(* MemberGateway of gridraft/member_gateway.py, over the holder ledger.    *)
(* All handlers run in one event loop, so a step is what happens between   *)
(* two awaits; every await is a place where other handlers, operators, the *)
(* CLI process, the provider or a crash may come in between.  The provider *)
(* and the ASGI server are external and do whatever src/ has to cope with. *)
(***************************************************************************)
EXTENDS HolderLedger

CONSTANTS
  KeyOf,      \* the key a request presents
  IdemOf,     \* its Idempotency-Key
  TokensOf,   \* the tokens prepare() estimates for it
  Streams,    \* the requests that ask for a stream
  Funds       \* what the provider account holds at first

ASSUME CallAssumption ==
  /\ KeyOf \in [Requests -> Keys]
  /\ IdemOf \in [Requests -> Idems]
  /\ TokensOf \in [Requests -> TokenSizes]
  /\ Streams \subseteq Requests
  /\ Funds \in Nat /\ (0 .. Funds) \cup {NoValue} \subseteq Observed
  /\ \A used \in UsedTokens, lim \in LimitSets : used * lim.rate \in Costs

VARIABLES
  at,           \* handler of a request: where it awaits
  cfg,          \* operator limits now
  lim,          \* the limits each handler read at the start of call()
  seen,         \* the provider balance each handler was answered
  maintenance,  \* operator traffic switch
  up,           \* the serving process runs
  cli,          \* the pending row the reconcile-gnk command has read
  fund,         \* the balance the pending allowance/fund request was answered
  sent,         \* requests handed to the transport
  bill,         \* what the provider charged for a request it ran
  balance       \* provider balance

local == <<at, lim, seen, up>>

desk == <<cfg, maintenance, cli, fund>>

provider == <<sent, bill, balance>>

gatewayVars == <<vars, local, desk, provider>>

Before == {"new", "vetting", "funding", "funded"}

InFlight == {"sending", "reading", "returned", "streaming", "pricing"}

Places == Before \cup InFlight \cup {"done", "dead"}

Live(r) == at[r] \in InFlight

(* Past the first await of call() a handler holds a limit set, and past    *)
(* the second one a balance, that it later passes to reserve().            *)
GatewayTypeOK ==
  /\ TypeOK
  /\ at \in [Requests -> Places]
  /\ cfg \in LimitSets
  /\ lim \in [Requests -> LimitSets \cup {NoValue}]
  /\ seen \in [Requests -> (0 .. Funds) \cup {NoValue}]
  /\ \A r \in Requests :
       /\ at[r] \in {"funding", "funded"} \cup InFlight => lim[r] \in LimitSets
       /\ at[r] = "funded" => seen[r] \in 0 .. Funds
  /\ maintenance \in BOOLEAN /\ up \in BOOLEAN
  /\ cli \in Requests \cup {NoValue}
  /\ fund \in (0 .. Funds) \cup {NoValue}
  /\ sent \subseteq Requests
  /\ bill \in [Requests -> Costs \cup {NoValue}]
  /\ balance \in Int /\ balance <= Funds

GatewayInit ==
  /\ Init
  /\ at = [r \in Requests |-> "new"]
  /\ cfg \in LimitSets
  /\ lim = [r \in Requests |-> NoValue]
  /\ seen = [r \in Requests |-> NoValue]
  /\ maintenance = FALSE
  /\ up = TRUE
  /\ cli = NoValue
  /\ fund = NoValue
  /\ sent = {}
  /\ bill = [r \in Requests |-> NoValue]
  /\ balance = Funds

Move(r, place) == at' = [at EXCEPT ![r] = place]

-----------------------------------------------------------------------------
(* Before the reservation.                                                 *)

(* The endpoint's checks before its first await.                           *)
Arrive(r) ==
  /\ up /\ at[r] = "new"
  /\ KeyOf[r] \notin revoked
  /\ ~policy[WalletOf[KeyOf[r]]].disabled
  /\ ~maintenance
  /\ Move(r, "vetting")
  /\ UNCHANGED <<vars, lim, seen, up, desk, provider>>

(* Catalog, health and eligibility answered; call() reads the limits.      *)
Vetted(r) ==
  /\ up /\ at[r] = "vetting"
  /\ lim' = [lim EXCEPT ![r] = cfg]
  /\ Move(r, "funding")
  /\ UNCHANGED <<vars, seen, up, desk, provider>>

Spendable == IF balance > 0 THEN balance ELSE 0

(* The provider answers the balance query; the answer is on its way.       *)
AnswerBalance(r) ==
  /\ up /\ at[r] = "funding"
  /\ seen' = [seen EXCEPT ![r] = Spendable]
  /\ Move(r, "funded")
  /\ UNCHANGED <<vars, lim, up, desk, provider>>

(* A retry that finds its own earlier row would send it once more.         *)
DispatchOnConflict(r) ==
  /\ up /\ at[r] = "funded"
  /\ \/ Reserve(r, KeyOf[r], IdemOf[r], TokensOf[r], lim[r], seen[r])
     \/ Duplicate(KeyOf[r], IdemOf[r]) /\ UNCHANGED vars
  /\ sent' = sent \cup {r}
  /\ Move(r, "sending")
  /\ UNCHANGED <<lim, seen, up, desk, bill, balance>>

(* The reservation and, with no await in between, the dispatch.            *)
Dispatch(r) ==
  /\ up /\ at[r] = "funded"
  /\ Reserve(r, KeyOf[r], IdemOf[r], TokensOf[r], lim[r], seen[r])
  /\ sent' = sent \cup {r}
  /\ Move(r, "sending")
  /\ UNCHANGED <<lim, seen, up, desk, bill, balance>>

(* A failed check or reservation, provider or RPC, or a cancellation.      *)
Refuse(r) ==
  /\ up /\ at[r] \in Before
  /\ Move(r, "done")
  /\ UNCHANGED <<vars, lim, seen, up, desk, provider>>

-----------------------------------------------------------------------------
(* After the dispatch.                                                     *)

(* A successful status: read the body, or return the unstarted stream.     *)
Answered(r) ==
  /\ up /\ at[r] = "sending"
  /\ Move(r, IF r \in Streams THEN "returned" ELSE "reading")
  /\ UNCHANGED <<vars, lim, seen, up, desk, provider>>

StartStream(r) ==
  /\ up /\ at[r] = "returned"
  /\ Move(r, "streaming")
  /\ UNCHANGED <<vars, lim, seen, up, desk, provider>>

(* The client is gone before the server iterates the stream once: the body *)
(* of the generator, and with it its finally clause, never runs.           *)
DropUnstarted(r) ==
  /\ up /\ at[r] = "returned"
  /\ Move(r, "done")
  /\ UNCHANGED <<vars, lim, seen, up, desk, provider>>

(* A valid body with usage, or [DONE] after usage; the cost lookup starts. *)
UsageKnown(r) ==
  /\ up /\ at[r] \in {"reading", "streaming"}
  /\ Move(r, "pricing")
  /\ UNCHANGED <<vars, lim, seen, up, desk, provider>>

(* request_cost: a confirmed cost, the larger of cost and estimate, or the *)
(* estimate when the lookup fails.                                         *)
CostsOf(r, used) ==
  LET estimate == used * lim[r].rate
  IN  {estimate} \cup
      (IF bill[r] = NoValue THEN {}
       ELSE {bill[r], IF bill[r] > estimate THEN bill[r] ELSE estimate})

(* settle() returns False for a row the operator has settled meanwhile.    *)
Charge(r) ==
  /\ up /\ at[r] = "pricing"
  /\ IF usage[r].state = "reserved"
     THEN \E used \in UsedTokens : \E cost \in CostsOf(r, used) :
            Settle(r, used, cost, FALSE)
     ELSE UNCHANGED vars
  /\ Move(r, "done")
  /\ UNCHANGED <<lim, seen, up, desk, provider>>

GiveUpSilently(r) ==
  /\ up /\ Live(r) /\ at[r] # "returned"
  /\ Move(r, "done")
  /\ UNCHANGED <<vars, lim, seen, up, desk, provider>>

GiveUpAfterSettlement(r) ==
  /\ up /\ Live(r) /\ at[r] # "returned"
  /\ IF usage[r].state \in {"reserved", "settled"}
     THEN /\ Write(r, [usage[r] EXCEPT !.state = "needs_review"])
          /\ UNCHANGED <<funding, revoked, policy, startup, now>>
     ELSE UNCHANGED vars
  /\ Move(r, "done")
  /\ UNCHANGED <<lim, seen, up, desk, provider>>

(* Exception, bad status, timeout, cancellation or disconnect while the    *)
(* provider may be working: review() touches a row only while reserved.    *)
GiveUp(r) ==
  /\ up /\ Live(r) /\ at[r] # "returned"
  /\ IF usage[r].state = "reserved" THEN Review(r) ELSE UNCHANGED vars
  /\ Move(r, "done")
  /\ UNCHANGED <<lim, seen, up, desk, provider>>

-----------------------------------------------------------------------------
(* The rest of the system.                                                 *)

(* The provider runs what it was sent and charges it, at once or later.    *)
ProviderCharges(r) ==
  /\ r \in sent /\ bill[r] = NoValue
  /\ \E cost \in Costs :
       /\ bill' = [bill EXCEPT ![r] = cost]
       /\ balance' = balance - cost
  /\ UNCHANGED <<vars, local, desk, sent>>

(* The process dies between any two steps; only committed rows remain.     *)
Crash ==
  /\ up /\ up' = FALSE
  /\ at' = [r \in Requests |->
              IF at[r] \in {"new", "done", "dead"} THEN at[r] ELSE "dead"]
  /\ fund' = NoValue
  /\ UNCHANGED <<vars, lim, seen, cfg, maintenance, cli, provider>>

BootWithoutSnapshot ==
  /\ ~up /\ up' = TRUE
  /\ UNCHANGED <<vars, at, lim, seen, desk, provider>>

Boot ==
  /\ ~up /\ up' = TRUE
  /\ Restart
  /\ UNCHANGED <<at, lim, seen, desk, provider>>

(* reconcile-gnk runs in a process of its own: it lists the pending rows,  *)
(* then settles the one it was asked for in a second transaction.          *)
CliRead(r) ==
  /\ cli = NoValue /\ usage[r].state \in Pending
  /\ cli' = r
  /\ UNCHANGED <<vars, local, cfg, maintenance, fund, provider>>

CliSettle ==
  /\ cli # NoValue
  /\ IF usage[cli].state \in Pending
     THEN \E used \in UsedTokens, cost \in Costs : Settle(cli, used, cost, TRUE)
     ELSE UNCHANGED vars
  /\ cli' = NoValue
  /\ UNCHANGED <<local, cfg, maintenance, fund, provider>>

CliAllocate ==
  /\ \E ref \in Refs, amount \in Grants : Allocate(ref, amount, NoValue)
  /\ UNCHANGED <<local, desk, provider>>

(* allowance/fund awaits the balance, then allocates against it.           *)
FundRead ==
  /\ up /\ fund = NoValue
  /\ fund' = Spendable
  /\ UNCHANGED <<vars, local, cfg, maintenance, cli, provider>>

FundAllocate ==
  /\ up /\ fund # NoValue
  /\ \/ \E ref \in Refs, amount \in Grants : Allocate(ref, amount, fund)
     \/ UNCHANGED vars
  /\ fund' = NoValue
  /\ UNCHANGED <<local, cfg, maintenance, cli, provider>>

(* Requests of account holders and of the operator, each one transaction.  *)
Administer ==
  /\ up
  /\ (\E k \in Keys : Revoke(k)) \/ SetPolicyAny
  /\ UNCHANGED <<local, desk, provider>>

Configure ==
  /\ up
  /\ cfg' \in LimitSets /\ maintenance' \in BOOLEAN
  /\ UNCHANGED <<vars, local, cli, fund, provider>>

Elapse == Tick /\ UNCHANGED <<local, desk, provider>>

Handle(r) ==
  \/ Arrive(r) \/ Vetted(r) \/ AnswerBalance(r) \/ Dispatch(r) \/ Refuse(r)
  \/ Answered(r) \/ StartStream(r) \/ UsageKnown(r) \/ Charge(r) \/ GiveUp(r)

GatewayNext ==
  \/ \E r \in Requests :
       Handle(r) \/ DropUnstarted(r) \/ ProviderCharges(r) \/ CliRead(r)
  \/ Crash \/ Boot
  \/ CliSettle \/ CliAllocate \/ FundRead \/ FundAllocate
  \/ Administer \/ Configure \/ Elapse

GatewaySpec == GatewayInit /\ [][GatewayNext]_gatewayVars

(* Each await in a handler ends: reads have timeouts, the dispatch and the *)
(* body are under asyncio.timeout.  A supervisor restarts the process.     *)
Fairness ==
  /\ \A r \in Requests : WF_gatewayVars(Handle(r) /\ at[r] # "new")
  /\ WF_gatewayVars(Boot)

FairGatewaySpec == GatewaySpec /\ Fairness

-----------------------------------------------------------------------------

(* The server and the CLI change the ledger only by whole operations of it, *)
(* whatever they await, lose or race in between: what is proved of the      *)
(* ledger holds of the running system (member_gateway.py call and stream,   *)
(* cli.py, app.py create_app).                                             *)
UsesLedger == Spec

(* The provider never works on a request the ledger has no row for, and     *)
(* never twice for one key and Idempotency-Key: client retries, crashes and *)
(* lost answers included (member_gateway.py: reserve before send, no        *)
(* retry; SECURITY.md: no blind retry).                                    *)
SentOnce ==
  \A r \in sent :
    /\ Exists(r)
    /\ \A s \in sent : KeyOf[r] = KeyOf[s] /\ IdemOf[r] = IdemOf[s] => r = s

(* Nothing is sent for a key that is revoked or a wallet that is suspended  *)
(* by then, although both were checked before the awaits on the catalog,    *)
(* the chain and the provider (app.py chat; membership.py _admit).         *)
NoStaleAuthority ==
  [][\A r \in Requests :
       KeyOf[r] \in revoked \/ policy[WalletOf[KeyOf[r]]].disabled
         => (r \in sent' => r \in sent)]_gatewayVars

(* A hold whose handler is gone - cancelled, disconnected, timed out,       *)
(* crashed - pauses inference: nothing is admitted while a row is reserved  *)
(* and no handler is left to settle it (SECURITY.md: cancellation during    *)
(* dispatch and disconnected streams require review).                      *)
LostHoldPauses ==
  [][Admits => \A r \in Requests : usage[r].state = "reserved" => Live(r)]_gatewayVars

(* Every hold is settled, reviewed or captured by a restart in the end: no  *)
(* schedule, failure or crash leaves it reserved for ever, unnoticed        *)
(* (member_gateway.py: each exit of call and stream settles or reviews).   *)
HoldsResolve ==
  \A r \in Requests :
    usage[r].state = "reserved" ~> usage[r].state # "reserved" \/ r \in startup

(* Requests whose bill the ledger does not yet hold at its exact amount.   *)
Unaccounted == {r \in sent : bill[r] = NoValue \/ bill[r] # usage[r].cost}

(* When the ledger has accounted exactly for every bill there is, what it   *)
(* admits fits into the provider balance (SECURITY.md: available_ngonka is  *)
(* checked immediately before dispatch and outstanding holds are            *)
(* conservatively deducted).                                               *)
BalanceCoversAdmission ==
  [][\A r \in Requests :
       r \in sent' \ sent /\ Unaccounted = {}
         => usage'[r].amount <= balance]_gatewayVars

(* An allocation requested over the admin API never leaves more allowance   *)
(* available than the provider account can spend (ADMIN.md: refuses a local *)
(* allocation above the current spendable provider balance).               *)
AllocationBacked ==
  [][fund # NoValue /\ fund' = NoValue /\ funding' # funding /\ Unaccounted = {}
       => Available' <= balance]_gatewayVars
=============================================================================
