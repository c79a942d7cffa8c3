---------------------------- MODULE HolderLedger ----------------------------
(***************************************************************************)
(* The GNK allowance ledger of holder mode: gridraft/membership.py, its    *)
(* trigger-maintained projection gridraft/ledger_totals.py, and the parts  *)
(* of gridraft/store.py it reads (api_keys, user_admin and the startup     *)
(* snapshot).  Every action is one BEGIN IMMEDIATE transaction or one      *)
(* autocommitted statement, so it is atomic for every process that shares  *)
(* the SQLite file.  A request identifier stands for the uuid4 row id its  *)
(* reservation receives.                                                   *)
(***************************************************************************)
EXTENDS Sums

CONSTANTS
  Requests,     \* member_usage row identifiers
  Wallets,
  Keys,         \* issued API keys
  WalletOf,     \* api_keys.wallet, fixed when a key is issued
  Idems,        \* Idempotency-Key values
  Refs,         \* funding references
  LimitSets,    \* operator limit sets the callers may pass to reserve
  Overrides,    \* user_admin.daily_tokens_override values, NoValue included
  TokenSizes,   \* tokens a request may reserve
  UsedTokens,   \* tokens a settlement may report
  Costs,        \* ngonka a settlement may charge
  Grants,       \* ngonka an allocation may add
  Observed,     \* provider balances a caller may pass, NoValue: not checked
  MaxBudget,    \* 10**15 in the code
  DayLength,    \* 86400 in the code
  Window,       \* the 60 second rate window
  LockWait,     \* bound on a reservation's wait for the write lock
  MaxTime,      \* bound on the clock
  NoValue       \* SQL NULL / Python None

ASSUME RowAssumption == IsFiniteSet(Requests) /\ IsFiniteSet(Refs)

ASSUME KeyAssumption == WalletOf \in [Keys -> Wallets]

ASSUME QuantityAssumption ==
  /\ TokenSizes \subseteq Nat \ {0} /\ UsedTokens \subseteq Nat
  /\ Costs \subseteq Nat /\ Grants \subseteq Nat \ {0}
  /\ Observed \subseteq Nat \cup {NoValue}
  /\ NoValue \in Overrides /\ Overrides \subseteq Nat \cup {NoValue}
  /\ NoValue \notin Nat
  /\ MaxBudget \in Nat /\ MaxTime \in Nat

ASSUME TimeAssumption ==
  DayLength \in Nat \ {0} /\ Window \in Nat \ {0} /\ LockWait \in Nat

ASSUME LimitAssumption ==
  /\ LimitSets # {}
  /\ LimitSets \subseteq [walletDaily : Nat, globalDaily : Nat,
                           rate : Nat \ {0}, rpm : Nat, globalRpm : Nat,
                           concurrency : Nat, globalConcurrency : Nat]

VARIABLES
  funding,   \* member_funding: reference -> amount_ngonka, 0 when absent
  usage,     \* member_usage: request -> row
  totals,    \* member_pool_totals, the projection the triggers maintain
  revoked,   \* api_keys with revoked=1
  policy,    \* user_admin: wallet -> [disabled, override]
  startup,   \* startup_reservations of the serving process
  now        \* wall clock

vars == <<funding, usage, totals, revoked, policy, startup, now>>

Pending == {"reserved", "needs_review"}

States == Pending \cup {"absent", "settled"}

(* `created` is the column; `admitted` is history, the time of the INSERT.  *)
Row == [state : States, key : Keys \cup {NoValue}, idem : Idems \cup {NoValue},
        tokens : Nat, amount : Nat, used : Nat, cost : Nat,
        evidence : BOOLEAN, created : Nat, admitted : Nat]

NoRow == [state |-> "absent", key |-> NoValue, idem |-> NoValue,
          tokens |-> 0, amount |-> 0, used |-> 0, cost |-> 0,
          evidence |-> FALSE, created |-> 0, admitted |-> 0]

Totals == [allocated : Int, spent : Int, reserved : Int, review : Int]

TypeOK ==
  /\ funding \in [Refs -> Nat]
  /\ usage \in [Requests -> Row]
  /\ totals \in Totals
  /\ revoked \subseteq Keys
  /\ policy \in [Wallets -> [disabled : BOOLEAN, override : Overrides]]
  /\ startup \subseteq Requests
  /\ now \in Nat

-----------------------------------------------------------------------------
(* The projection.  Each row contributes to the totals; the triggers add   *)
(* what the new row contributes and subtract what the old one did.         *)

UsageTriggerOnInsertOnly(old, new) ==
  totals' = [totals EXCEPT !.spent    = @ + new.cost - old.cost,
                           !.reserved = @ + (IF old.state = "absent"
                                             THEN new.amount ELSE 0),
                           !.review   = @ + (IF new.state = "needs_review"
                                             THEN 1 ELSE 0)]

HeldOf(row) == IF row.state \in Pending THEN row.amount ELSE 0

ReviewOf(row) == IF row.state = "needs_review" THEN 1 ELSE 0

UsageTrigger(old, new) ==
  totals' = [totals EXCEPT !.spent    = @ + new.cost - old.cost,
                           !.reserved = @ + HeldOf(new) - HeldOf(old),
                           !.review   = @ + ReviewOf(new) - ReviewOf(old)]

FundingTrigger(amount) ==
  totals' = [totals EXCEPT !.allocated = @ + amount]

Write(r, row) ==
  /\ usage' = [usage EXCEPT ![r] = row]
  /\ UsageTrigger(usage[r], row)

-----------------------------------------------------------------------------
(* What the admission transaction reads.                                   *)

StartupPending == \E r \in startup : usage[r].state = "reserved"

ReconciliationByReviewOnly == totals.review > 0

ReconciliationRequired == totals.review > 0 \/ StartupPending

AvailableIgnoringSpend == totals.allocated - totals.reserved

Available ==
  LET left == totals.allocated - totals.spent - totals.reserved
  IN  IF left > 0 THEN left ELSE 0

Exists(r) == usage[r].state # "absent"

Owner(r) == WalletOf[usage[r].key]

RowsOf(ws) == {r \in Requests : Exists(r) /\ Owner(r) \in ws}

DayOf(t) == t \div DayLength

(* `t` is the clock totals() reads.                                        *)
UsedToday(ws, t) ==
  SumOf([r \in RowsOf(ws) |->
           IF usage[r].created >= DayOf(t) * DayLength
           THEN usage[r].used ELSE 0])

HeldTokensUnderReview(ws) ==
  SumOf([r \in RowsOf(ws) |->
           IF usage[r].state = "needs_review" THEN usage[r].tokens ELSE 0])

HeldTokens(ws) ==
  SumOf([r \in RowsOf(ws) |->
           IF usage[r].state \in Pending THEN usage[r].tokens ELSE 0])

Active(ws) == {r \in RowsOf(ws) : usage[r].state = "reserved"}

Recent(ws, t) == {r \in RowsOf(ws) : usage[r].created > t - Window}

DailyLimit(w, lim) ==
  IF policy[w].override # NoValue THEN policy[w].override ELSE lim.walletDaily

FitsDay(ws, tokens, limit, t) ==
  UsedToday(ws, t) + HeldTokens(ws) + tokens <= limit

FitsRateOffByOne(w, lim, t) ==
  /\ Cardinality(Active({w})) <= lim.concurrency
  /\ Cardinality(Active(Wallets)) < lim.globalConcurrency
  /\ Cardinality(Recent({w}, t)) < lim.rpm
  /\ Cardinality(Recent(Wallets, t)) < lim.globalRpm

FitsRate(w, lim, t) ==
  /\ Cardinality(Active({w})) < lim.concurrency
  /\ Cardinality(Active(Wallets)) < lim.globalConcurrency
  /\ Cardinality(Recent({w}, t)) < lim.rpm
  /\ Cardinality(Recent(Wallets, t)) < lim.globalRpm

DuplicateWhilePending(k, i) ==
  \E r \in Requests : /\ usage[r].state \in Pending
                      /\ usage[r].key = k /\ usage[r].idem = i

Duplicate(k, i) ==
  \E r \in Requests : Exists(r) /\ usage[r].key = k /\ usage[r].idem = i

FitsFundsByProviderOnly(amount, observed) ==
  amount <= observed - totals.reserved

FitsFunds(amount, observed) ==
  /\ amount <= Available
  /\ amount <= observed - totals.reserved

AdmissibleAtArrival(k, i, tokens, lim, observed, stamp, read) ==
  LET w == WalletOf[k]
  IN  /\ ~Duplicate(k, i)
      /\ ~ReconciliationRequired
      /\ FitsFunds(tokens * lim.rate, observed)
      /\ FitsDay({w}, tokens, DailyLimit(w, lim), read)
      /\ FitsDay(Wallets, tokens, lim.globalDaily, now)
      /\ FitsRate(w, lim, stamp)

(* _admit reads its clock before it waits for the lock (`stamp`, which the *)
(* row and the rate windows use), for the wallet's day (`read`) and once   *)
(* more for the shared day, now.                                           *)
Admissible(k, i, tokens, lim, observed, stamp, read) ==
  LET w == WalletOf[k]
  IN  /\ k \notin revoked
      /\ ~policy[w].disabled
      /\ ~Duplicate(k, i)
      /\ ~ReconciliationRequired
      /\ FitsFunds(tokens * lim.rate, observed)
      /\ FitsDay({w}, tokens, DailyLimit(w, lim), read)
      /\ FitsDay(Wallets, tokens, lim.globalDaily, now)
      /\ FitsRate(w, lim, stamp)
-----------------------------------------------------------------------------
(* Operations.  A call that raises or returns False changes nothing.       *)

Init ==
  /\ funding = [f \in Refs |-> 0]
  /\ usage = [r \in Requests |-> NoRow]
  /\ totals = [allocated |-> 0, spent |-> 0, reserved |-> 0, review |-> 0]
  /\ revoked = {}
  /\ policy = [w \in Wallets |-> [disabled |-> FALSE, override |-> NoValue]]
  /\ startup = {}
  /\ now = 0

Allocate(ref, amount, observed) ==
  /\ funding[ref] = 0
  /\ observed # NoValue => Available + amount <= observed
  /\ totals.allocated + amount <= MaxBudget
  /\ funding' = [funding EXCEPT ![ref] = amount]
  /\ FundingTrigger(amount)
  /\ UNCHANGED <<usage, revoked, policy, startup, now>>

Instants == {t \in 0 .. now : now - t <= LockWait}

Admit(r, k, i, tokens, lim, observed, stamp, read) ==
  /\ ~Exists(r)
  /\ Admissible(k, i, tokens, lim, observed, stamp, read)
  /\ Write(r, [NoRow EXCEPT !.state = "reserved", !.key = k, !.idem = i,
                            !.tokens = tokens, !.amount = tokens * lim.rate,
                            !.created = stamp, !.admitted = now])
  /\ UNCHANGED <<funding, revoked, policy, startup, now>>

(* The one event loop of the one server calls reserve and waits in it, so   *)
(* no reservation begins before the one before it has ended.               *)
Reserve(r, k, i, tokens, lim, observed) ==
  \E stamp \in Instants, read \in Instants :
    /\ stamp <= read
    /\ \A s \in Requests : usage[s].admitted <= stamp
    /\ Admit(r, k, i, tokens, lim, observed, stamp, read)

SettleWithoutEvidence(r, used, cost, evidence) ==
  /\ usage[r].state \in Pending
  /\ Write(r, [usage[r] EXCEPT !.state = "settled", !.used = used,
                               !.cost = cost, !.evidence = evidence])
  /\ UNCHANGED <<funding, revoked, policy, startup, now>>

Settle(r, used, cost, evidence) ==
  /\ usage[r].state \in Pending
  /\ usage[r].state = "needs_review" => evidence
  /\ Write(r, [usage[r] EXCEPT !.state = "settled", !.used = used,
                               !.cost = cost, !.evidence = evidence])
  /\ UNCHANGED <<funding, revoked, policy, startup, now>>

ReviewToUnknownState(r) ==
  /\ usage[r].state = "reserved"
  /\ Write(r, [usage[r] EXCEPT !.state = "review"])
  /\ UNCHANGED <<funding, revoked, policy, startup, now>>

Review(r) ==
  /\ usage[r].state = "reserved"
  /\ Write(r, [usage[r] EXCEPT !.state = "needs_review"])
  /\ UNCHANGED <<funding, revoked, policy, startup, now>>

Revoke(k) ==
  /\ k \notin revoked
  /\ revoked' = revoked \cup {k}
  /\ UNCHANGED <<funding, usage, totals, policy, startup, now>>

SetPolicy(w, disabled, override) ==
  /\ policy' = [policy EXCEPT ![w] = [disabled |-> disabled,
                                     override |-> override]]
  /\ UNCHANGED <<funding, usage, totals, revoked, startup, now>>

(* create_app of a new serving process: the old one's live handlers are    *)
(* gone, every row they left reserved is captured by the snapshot.         *)
Restart ==
  /\ startup' = {r \in Requests : usage[r].state = "reserved"}
  /\ UNCHANGED <<funding, usage, totals, revoked, policy, now>>

Tick ==
  /\ now < MaxTime
  /\ now' = now + 1
  /\ UNCHANGED <<funding, usage, totals, revoked, policy, startup>>

ReserveAny(r) ==
  \E k \in Keys, i \in Idems, tokens \in TokenSizes, lim \in LimitSets,
     observed \in Observed \ {NoValue} :
    Reserve(r, k, i, tokens, lim, observed)

SettleAny(r) ==
  \E used \in UsedTokens, cost \in Costs, evidence \in BOOLEAN :
    Settle(r, used, cost, evidence)

AllocateAny ==
  \E ref \in Refs, amount \in Grants, observed \in Observed :
    Allocate(ref, amount, observed)

SetPolicyAny ==
  \E w \in Wallets, disabled \in BOOLEAN, override \in Overrides :
    SetPolicy(w, disabled, override)

Next ==
  \/ AllocateAny
  \/ \E r \in Requests : ReserveAny(r) \/ SettleAny(r) \/ Review(r)
  \/ \E k \in Keys : Revoke(k)
  \/ SetPolicyAny
  \/ Restart
  \/ Tick

Spec == Init /\ [][Next]_vars

-----------------------------------------------------------------------------
(* Quantities the properties are about, counted from the source rows and   *)
(* never from the projection.                                              *)

Funded == SumOf(funding)

ChargeOf(row) == IF row.state \in Pending THEN row.amount ELSE row.cost

ExcessOf(row) == IF row.state = "settled" /\ row.cost > row.amount
                 THEN row.cost - row.amount ELSE 0

Charged == SumOf([r \in Requests |-> ChargeOf(usage[r])])

Excess == SumOf([r \in Requests |-> ExcessOf(usage[r])])

UncertainRow(r) ==
  \/ usage[r].state = "needs_review"
  \/ r \in startup /\ usage[r].state = "reserved"

PhaseOf(r) ==
  CASE usage[r].state = "absent" -> "none"
    [] usage[r].state = "settled" -> "closed"
    [] UncertainRow(r) -> "doubtful"
    [] OTHER -> "open"

Account == INSTANCE AllowanceAccount WITH
  funds <- Funded,
  phase <- [r \in Requests |-> PhaseOf(r)],
  charge <- [r \in Requests |-> ChargeOf(usage[r])]

(* The ledger implements the abstract account: its checks against a         *)
(* projection and a startup snapshot admit a request only when the account  *)
(* it stands for would (membership.py, ledger_totals.py, store.py).         *)
ImplementsAccount == Account!Spec

Admits == \E r \in Requests : ~Exists(r) /\ usage'[r].state # "absent"

(* The projection the admission checks trust equals the sums over the      *)
(* source rows after every transaction, whichever process wrote them       *)
(* (ledger_totals.py: triggers on INSERT, UPDATE and DELETE).              *)
ProjectionExact ==
  /\ totals.allocated = SumOf(funding)
  /\ totals.spent = SumOf([r \in Requests |-> usage[r].cost])
  /\ totals.reserved = SumOf([r \in Requests |-> HeldOf(usage[r])])
  /\ totals.review = CountOf([r \in Requests |-> usage[r].state = "needs_review"])

(* Costs and open holds together never exceed what the operator allocated, *)
(* except by what settlements charged beyond their own hold: no             *)
(* interleaving of reservations, settlements and reviews oversells the pool *)
(* (membership.py _admit and settle; API-POLICY.md: a confirmed settlement  *)
(* can exceed its estimate).                                               *)
OverrunOnlyFromBilling == Charged <= Funded + Excess

(* Every admission is covered by allocations that no other cost or hold     *)
(* uses, any earlier overrun included (membership.py _admit, pool).        *)
AdmissionCovered == [][Admits => Charged' <= Funded']_vars

(* A settled row is final: no second settlement, review or restart changes  *)
(* what it charged, and a row under review settles only with evidence       *)
(* (membership.py settle and review).                                      *)
SettlementFinal ==
  [][\A r \in Requests :
       /\ usage[r].state = "settled" => usage'[r] = usage[r]
       /\ usage[r].state = "needs_review" =>
            \/ usage'[r] = usage[r]
            \/ usage'[r].state = "settled" /\ usage'[r].evidence]_vars

(* While any charge is uncertain - a row under review, or a row a previous  *)
(* process left reserved - nothing is admitted, and the pause ends only by  *)
(* settling those very rows (membership.py pool, store.py                   *)
(* startup_reservations_pending).                                          *)
PausedWhileUncertain ==
  [][\A r \in Requests : UncertainRow(r) =>
       /\ ~Admits
       /\ UncertainRow(r)' \/ usage'[r].state = "settled"]_vars

(* A retried call with the same key and Idempotency-Key never creates a     *)
(* second charge, whatever became of the first one (UNIQUE(key_id,idem)).  *)
OneChargePerIdem ==
  \A r, s \in Requests :
    Exists(r) /\ Exists(s) /\ usage[r].key = usage[s].key
      /\ usage[r].idem = usage[s].idem => r = s

(* In-flight rows never exceed the configured concurrency, per wallet and   *)
(* over all wallets, although limits are read per call and many calls run   *)
(* at once (membership.py _admit).                                         *)
ConcurrencyCapped ==
  /\ \A w \in Wallets : \E lim \in LimitSets :
       Cardinality(Active({w})) <= lim.concurrency
  /\ \E lim \in LimitSets :
       Cardinality(Active(Wallets)) <= lim.globalConcurrency

TokensFor(row) == IF row.state \in Pending THEN row.tokens ELSE row.used

TokensOn(ws, day) ==
  SumOf([r \in RowsOf(ws) |->
           IF DayOf(usage[r].created) = day THEN TokensFor(usage[r]) ELSE 0])

(* Stamped before a midnight it waited over, and checked after it.         *)
OverMidnight(row) == DayOf(row.created) # DayOf(row.admitted)

BeyondCheck(row) ==
  IF OverMidnight(row) THEN TokensFor(row)
  ELSE IF row.state = "settled" /\ row.used > row.tokens
       THEN row.used - row.tokens ELSE 0

BeyondOn(ws, day) ==
  SumOf([r \in RowsOf(ws) |->
           IF DayOf(usage[r].created) = day THEN BeyondCheck(usage[r]) ELSE 0])

(* The tokens of the requests stamped with a UTC day stay within the        *)
(* largest daily limit in force, per wallet and over all wallets, except by *)
(* what providers reported beyond a reservation and by the tokens of one    *)
(* request: the day's last one, when it waited for the write lock over      *)
(* midnight and was checked against the next day.  Holds that settle after  *)
(* midnight keep to the day they were stamped with (membership.py _admit    *)
(* line 105, totals line 74).                                              *)
DayOversoldByOneAtMost ==
  \A day \in {DayOf(t) : t \in 0 .. now} :
    /\ \A w \in Wallets :
         \E limit \in {lim.walletDaily : lim \in LimitSets}
                       \cup (Overrides \ {NoValue}) :
           TokensOn({w}, day) <= limit + BeyondOn({w}, day)
    /\ \E lim \in LimitSets :
         TokensOn(Wallets, day) <= lim.globalDaily + BeyondOn(Wallets, day)
    /\ \A r, s \in {q \in Requests : /\ Exists(q) /\ OverMidnight(usage[q])
                                     /\ DayOf(usage[q].created) = day} : r = s
=============================================================================
