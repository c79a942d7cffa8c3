---------------------------- MODULE PrepaidLedger ----------------------------
(***************************************************************************)
(* The nano-USD credit ledger of prepaid mode: credit, reserve, settle and *)
(* review of gridraft/store.py over its tables accounts, credits, api_keys *)
(* and usage.  Unlike the holder ledger nothing is recomputed from rows:   *)
(* an account's balance and a key's spend are running values that every    *)
(* transaction must move together with its row.                            *)
(***************************************************************************)
EXTENDS Sums

CONSTANTS
  Requests,      \* usage row identifiers
  Wallets,
  Keys,
  WalletOf,      \* api_keys.wallet
  KeyLimit,      \* api_keys.limit_nusd
  Idems,         \* Idempotency-Key values
  Refs,          \* credit references
  Amounts,       \* nano-USD a request may reserve
  Bills,         \* nano-USD a settlement may bill
  Grants,        \* nano-USD a credit may add
  Rates,         \* wallet_rpm values the operator may set
  DailyBudget,   \* global daily budget
  WalletBudget,  \* daily budget of a wallet
  GlobalRate,    \* 300 in the code
  ActiveLimit,   \* 3 in the code
  MaxBalance,    \* 10**15 in the code
  DayLength,     \* 86400 in the code
  Window,        \* the 60 second rate window
  LockWait,      \* bound on a reservation's wait for the write lock
  MaxTime,       \* bound on the clock
  NoValue        \* SQL NULL

ASSUME RowAssumption == IsFiniteSet(Requests) /\ IsFiniteSet(Refs)

ASSUME KeyAssumption == WalletOf \in [Keys -> Wallets] /\ KeyLimit \in [Keys -> Nat]

ASSUME QuantityAssumption ==
  /\ Amounts \subseteq Nat \ {0} /\ Bills \subseteq Nat /\ Grants \subseteq Nat \ {0}
  /\ Rates \subseteq Nat /\ DailyBudget \in Nat /\ WalletBudget \in Nat
  /\ GlobalRate \in Nat /\ ActiveLimit \in Nat /\ MaxBalance \in Nat
  /\ LockWait \in Nat /\ MaxTime \in Nat
  /\ DayLength \in Nat \ {0} /\ Window \in Nat \ {0}

ASSUME NullAssumption == NoValue \notin Keys \cup Idems \cup Wallets

VARIABLES
  credits,   \* reference -> [wallet, amount], NoCredit when absent
  balance,   \* accounts.balance_nusd, 0 for a missing account
  spent,     \* api_keys.spent_nusd
  usage,     \* request -> row
  revoked,   \* api_keys with revoked=1
  startup,   \* startup_reservations of the serving process
  now        \* wall clock

vars == <<credits, balance, spent, usage, revoked, startup, now>>

Pending == {"reserved", "needs_review"}

Closed == {"settled", "operator_settled"}

(* `created` is the column; `admitted` is history, the time of the INSERT.  *)
Row == [state : Pending \cup Closed \cup {"absent"}, key : Keys \cup {NoValue},
        idem : Idems \cup {NoValue}, amount : Nat, billed : Nat,
        evidence : BOOLEAN, created : Nat, admitted : Nat]

NoRow == [state |-> "absent", key |-> NoValue, idem |-> NoValue,
          amount |-> 0, billed |-> 0, evidence |-> FALSE,
          created |-> 0, admitted |-> 0]

NoCredit == [wallet |-> NoValue, amount |-> 0]

TypeOK ==
  /\ credits \in [Refs -> [wallet : Wallets \cup {NoValue}, amount : Nat]]
  /\ balance \in [Wallets -> Int]
  /\ spent \in [Keys -> Int]
  /\ usage \in [Requests -> Row]
  /\ revoked \subseteq Keys
  /\ startup \subseteq Requests
  /\ now \in Nat

-----------------------------------------------------------------------------
(* What the reservation transaction reads.                                 *)

Exists(r) == usage[r].state # "absent"

RowsOf(ws) == {r \in Requests : Exists(r) /\ WalletOf[usage[r].key] \in ws}

Active(ws) == {r \in RowsOf(ws) : usage[r].state = "reserved"}

Recent(ws, t) == {r \in RowsOf(ws) : usage[r].created > t - Window}

DayOf(t) == t \div DayLength

ChargeOf(row) == IF row.state \in Pending THEN row.amount ELSE row.billed

BudgetUsageOfToday(ws, t) ==
  SumOf([r \in RowsOf(ws) |->
           IF usage[r].created >= DayOf(t) * DayLength
           THEN usage[r].billed ELSE 0])

(* `t` is the clock budget_usage() reads.                                  *)
BudgetUsage(ws, t) ==
  SumOf([r \in RowsOf(ws) |->
           IF \/ usage[r].created >= DayOf(t) * DayLength
              \/ usage[r].state \in Pending
           THEN ChargeOf(usage[r]) ELSE 0])

Uncertain(r) ==
  \/ usage[r].state = "needs_review"
  \/ r \in startup /\ usage[r].state = "reserved"

NeedsReviewIgnoringStartup == \E r \in Requests : usage[r].state = "needs_review"

NeedsReview == \E r \in Requests : Uncertain(r)

Duplicate(k, i) ==
  \E r \in Requests : Exists(r) /\ usage[r].key = k /\ usage[r].idem = i

AdmissibleByKeyLimit(k, i, amount, rpm, stamp, read) ==
  LET w == WalletOf[k]
  IN  /\ k \notin revoked
      /\ ~Duplicate(k, i)
      /\ ~NeedsReview
      /\ BudgetUsage(Wallets, read) + amount <= DailyBudget
      /\ BudgetUsage({w}, now) + amount <= WalletBudget
      /\ spent[k] + amount <= KeyLimit[k]

(* reserve reads its clock before it waits for the lock (`stamp`, which    *)
(* the row and the rate windows use), for the global budget (`read`) and   *)
(* once more for the wallet's, now.                                        *)
Admissible(k, i, amount, rpm, stamp, read) ==
  LET w == WalletOf[k]
  IN  /\ k \notin revoked
      /\ ~Duplicate(k, i)
      /\ Cardinality(Recent({w}, stamp)) < rpm
      /\ Cardinality(Recent(Wallets, stamp)) < GlobalRate
      /\ Cardinality(Active({w})) < ActiveLimit
      /\ ~NeedsReview
      /\ BudgetUsage(Wallets, read) + amount <= DailyBudget
      /\ BudgetUsage({w}, now) + amount <= WalletBudget
      /\ spent[k] + amount <= KeyLimit[k]
      /\ amount <= balance[w]

-----------------------------------------------------------------------------
(* Operations.  A call that raises or returns False changes nothing.       *)

Init ==
  /\ credits = [f \in Refs |-> NoCredit]
  /\ balance = [w \in Wallets |-> 0]
  /\ spent = [k \in Keys |-> 0]
  /\ usage = [r \in Requests |-> NoRow]
  /\ revoked = {}
  /\ startup = {}
  /\ now = 0

Credit(ref, w, amount) ==
  /\ credits[ref] = NoCredit
  /\ balance[w] + amount <= MaxBalance
  /\ credits' = [credits EXCEPT ![ref] = [wallet |-> w, amount |-> amount]]
  /\ balance' = [balance EXCEPT ![w] = @ + amount]
  /\ UNCHANGED <<spent, usage, revoked, startup, now>>

Instants == {t \in 0 .. now : now - t <= LockWait}

Admit(r, k, i, amount, rpm, stamp, read) ==
  /\ ~Exists(r)
  /\ Admissible(k, i, amount, rpm, stamp, read)
  /\ balance' = [balance EXCEPT ![WalletOf[k]] = @ - amount]
  /\ spent' = [spent EXCEPT ![k] = @ + amount]
  /\ usage' = [usage EXCEPT ![r] =
                 [NoRow EXCEPT !.state = "reserved", !.key = k, !.idem = i,
                               !.amount = amount,
                               !.created = stamp, !.admitted = now]]
  /\ UNCHANGED <<credits, revoked, startup, now>>

(* The one event loop of the one server calls reserve and waits in it, so   *)
(* no reservation begins before the one before it has ended.               *)
Reserve(r, k, i, amount, rpm) ==
  \E stamp \in Instants, read \in Instants :
    /\ stamp <= read
    /\ \A s \in Requests : usage[s].admitted <= stamp
    /\ Admit(r, k, i, amount, rpm, stamp, read)

(* The difference to the reservation moves on the account and on the key.  *)
Reprice(r, billed, row) ==
  LET k == usage[r].key
      difference == usage[r].amount - billed
  IN  /\ balance' = [balance EXCEPT ![WalletOf[k]] = @ + difference]
      /\ spent' = [spent EXCEPT ![k] = @ - difference]
      /\ usage' = [usage EXCEPT ![r] = row]
      /\ UNCHANGED <<credits, revoked, startup, now>>

Settled(r, billed, operator) ==
  [usage[r] EXCEPT !.state = IF operator THEN "operator_settled" ELSE "settled",
                   !.billed = billed, !.evidence = operator]

SettleReviewed(r, billed, operator) ==
  /\ usage[r].state \in Pending
  /\ Reprice(r, billed, Settled(r, billed, operator))

(* settle() as the server calls it, or with the CLI's evidence.            *)
Settle(r, billed, operator) ==
  /\ usage[r].state \in Pending
  /\ usage[r].state = "needs_review" => operator
  /\ Reprice(r, billed, Settled(r, billed, operator))

ReviewByRelease(r) ==
  /\ usage[r].state = "reserved"
  /\ usage' = [usage EXCEPT ![r].state = "needs_review", ![r].amount = 0]
  /\ UNCHANGED <<credits, balance, spent, revoked, startup, now>>

Review(r) ==
  /\ usage[r].state = "reserved"
  /\ usage' = [usage EXCEPT ![r].state = "needs_review"]
  /\ UNCHANGED <<credits, balance, spent, revoked, startup, now>>

Revoke(k) ==
  /\ k \notin revoked
  /\ revoked' = revoked \cup {k}
  /\ UNCHANGED <<credits, balance, spent, usage, startup, now>>

(* create_app of a new serving process.                                    *)
Restart ==
  /\ startup' = {r \in Requests : usage[r].state = "reserved"}
  /\ UNCHANGED <<credits, balance, spent, usage, revoked, now>>

Tick ==
  /\ now < MaxTime
  /\ now' = now + 1
  /\ UNCHANGED <<credits, balance, spent, usage, revoked, startup>>

CreditAny == \E ref \in Refs, w \in Wallets, amount \in Grants : Credit(ref, w, amount)

ReserveAny(r) ==
  \E k \in Keys, i \in Idems, amount \in Amounts, rpm \in Rates :
    Reserve(r, k, i, amount, rpm)

SettleAny(r) ==
  \E billed \in Bills, operator \in BOOLEAN : Settle(r, billed, operator)

Next ==
  \/ CreditAny
  \/ \E r \in Requests : ReserveAny(r) \/ SettleAny(r) \/ Review(r)
  \/ \E k \in Keys : Revoke(k)
  \/ Restart
  \/ Tick

Spec == Init /\ [][Next]_vars

-----------------------------------------------------------------------------
(* Quantities the properties are about.                                    *)

CreditedTo(w) == SumOf([f \in Refs |->
                   IF credits[f].wallet = w THEN credits[f].amount ELSE 0])

ChargeOn(ks, r) ==
  IF Exists(r) /\ usage[r].key \in ks THEN ChargeOf(usage[r]) ELSE 0

KeysOf(w) == {k \in Keys : WalletOf[k] = w}

ChargedOn(ks) == SumOf([r \in Requests |-> ChargeOn(ks, r)])

Overbilled(row) == IF row.state \in Closed /\ row.billed > row.amount
                   THEN row.billed - row.amount ELSE 0

OverbilledOn(ks) ==
  SumOf([r \in Requests |->
           IF usage[r].key \in ks THEN Overbilled(usage[r]) ELSE 0])

PhaseOf(w, r) ==
  IF ~(Exists(r) /\ usage[r].key \in KeysOf(w)) THEN "none"
  ELSE CASE usage[r].state \in Closed -> "closed"
         [] Uncertain(r) -> "doubtful"
         [] OTHER -> "open"

Account(w) == INSTANCE AllowanceAccount WITH
  funds <- CreditedTo(w),
  phase <- [r \in Requests |-> PhaseOf(w, r)],
  charge <- [r \in Requests |-> ChargeOn(KeysOf(w), r)]

(* Every wallet has an account of its own in the same sense as the holder   *)
(* pool: what its requests are charged fits into its credits when they      *)
(* open, doubt stops openings, and a request closes once (store.py reserve, *)
(* settle, review, snapshot_startup_reservations).                         *)
EachWalletImplementsAccount ==
  /\ \A w \in Wallets : Account(w)!Init
  /\ [][\A w \in Wallets :
         Account(w)!Next \/ UNCHANGED Account(w)!account]_vars

(* No sequence of credits, reservations, settlements, reviews and restarts  *)
(* creates or loses credit: a balance is what was credited less what the    *)
(* wallet's rows are charged, and a key's spend is what its own rows are    *)
(* charged (store.py credit, reserve, settle).                             *)
CreditConserved ==
  /\ \A w \in Wallets : balance[w] = CreditedTo(w) - ChargedOn(KeysOf(w))
  /\ \A k \in Keys : spent[k] = ChargedOn({k})

(* A wallet is overdrawn, and a key exceeds its limit, by no more than what *)
(* settlements billed beyond their reservations (store.py reserve).        *)
OverdraftOnlyFromBilling ==
  /\ \A w \in Wallets : balance[w] + OverbilledOn(KeysOf(w)) >= 0
  /\ \A k \in Keys : spent[k] <= KeyLimit[k] + OverbilledOn({k})

(* A settled row is final, and a row under review is closed only by an      *)
(* operator, with a reconciliation on record (store.py settle; SECURITY.md: *)
(* legacy prepaid requests marked for billing review).                     *)
ReviewClosedByOperator ==
  [][\A r \in Requests :
       /\ usage[r].state \in Closed => usage'[r] = usage[r]
       /\ usage[r].state = "needs_review" =>
            \/ usage'[r] = usage[r]
            \/ usage'[r].state = "operator_settled" /\ usage'[r].evidence]_vars

DayCharge(ks, day) ==
  SumOf([r \in Requests |->
           IF Exists(r) /\ DayOf(usage[r].created) = day THEN ChargeOn(ks, r) ELSE 0])

(* Stamped before a midnight it waited over, and checked after it.         *)
OverMidnight(row) == DayOf(row.created) # DayOf(row.admitted)

Beyond(row) == IF OverMidnight(row) THEN ChargeOf(row) ELSE Overbilled(row)

DayBeyond(ks, day) ==
  SumOf([r \in Requests |->
           IF /\ Exists(r) /\ usage[r].key \in ks
              /\ DayOf(usage[r].created) = day
           THEN Beyond(usage[r]) ELSE 0])

(* The requests stamped with one UTC day cost no more than the daily        *)
(* budgets, except by what they were billed above their reservations and by *)
(* one request: the day's last one, when it waited for the write lock over  *)
(* midnight and was checked against the next day.  Requests that settle     *)
(* after midnight keep to their day (store.py reserve line 297,             *)
(* budget_usage line 360).                                                 *)
BudgetExceededByOneAtMost ==
  \A day \in {DayOf(t) : t \in 0 .. now} :
    /\ DayCharge(Keys, day) <= DailyBudget + DayBeyond(Keys, day)
    /\ \A w \in Wallets :
         DayCharge(KeysOf(w), day) <= WalletBudget + DayBeyond(KeysOf(w), day)
    /\ \A r, s \in {q \in Requests : /\ Exists(q) /\ OverMidnight(usage[q])
                                     /\ DayOf(usage[q].created) = day} : r = s
=============================================================================
