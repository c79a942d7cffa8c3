# Slipvolt, specified

TLA+ specifications of the Slipvolt gateway (`src/gridraft`): the two ledgers
that hold money, the request paths that use them, and the operator's tools that
run beside them. TLC checks the modules on small instances; TLAPS proves every
safety property that the passing runs check, for every instance.

The gateway sells AI inference in one of two modes. In **holder allowance**
mode a wallet that holds a project token may spend tokens and nano-GNK from one
shared, operator-funded pool. In **prepaid** mode a wallet spends nano-USD it
was credited. Either way a call reserves its worst case in SQLite, is sent to
the provider (OpenBroker) at most once, and is settled at its real cost; a call
whose outcome is uncertain is put under review, and review stops all new
inference until the operator has reconciled it.

## Inventory

| Part | State | Operations | Interacts with |
|---|---|---|---|
| Holder ledger (`membership.py`, `ledger_totals.py`) | `member_usage` rows, `member_funding`, `member_pool_totals` kept by triggers | `allocate`, `reserve`, `settle`, `review`, `preview` | read and written by handlers and by the CLI, each call one `BEGIN IMMEDIATE` transaction |
| Prepaid ledger (`store.py`) | `accounts.balance_nusd`, `api_keys.spent_nusd`, `credits`, `usage`, `reconciliations` | `credit`, `reserve`, `settle`, `review`, `needs_review`, `budget_usage` | the same |
| Startup snapshot (`store.py`) | TEMP table `startup_reservations` of the serving process | written by `create_app` | read by both admissions |
| Holder request path (`app.py` chat, `member_gateway.py`) | one coroutine per call; what it has read so far | vet, read limits and balance, reserve, dispatch, read, price, settle, or review | ledger, provider, operator settings |
| Prepaid request path (`app.py` chat) | the same, without streams | the same | the same |
| Operator console (`app.py`) | `operator_settings`, `user_admin`, `admin_audit`, `business_entries` | limits, maintenance, suspension, revocation, allowance funding, business entries | changes what waiting handlers have already read |
| Command line (`cli.py`) | none of its own; a second process | allocate, reconcile, credit, backup | the same database file |
| Keys, sessions, challenges, throttle (`store.py`, `app.py`) | `api_keys`, `sessions`, `challenges`, `rate_hits` | sign in, issue, revoke, log out, throttle | gate every request |
| Provider client (`broker.py`) | public balance and network caches | `balance`, `request_cost`, `public_balance`, `network_statistics` | OpenBroker |
| Catalogue and health caches (`app.py`) | two cached answers under locks; the list of disabled models | `catalog`, `provider_health`, `update_admin_config` | every call waits on them |
| Gonka and Solana reads (`gonka.py`, `integrations.py`) | status and balance caches, RPC slots and pacing gate | `status`, `balance`, `call`, `ensure_mainnet` | eligibility, public pages |
| Admission checks (`body_boundary.py`, `schemas.py`, `request_policy.py`, `model_policy.py`) | none | bound, parse, cap | run before the request path |
| Evidence (`token_audit*.py`, `creator_claims*.py`) | append-only receipts | `record`, `summary` | operator console |
| Backup, usage reconciliation (`backup.py`, `provider_reconciliation.py`) | files; a paged scan | `create_backup`, `verify_database`, `reconcile_usage` | operator |
| Treasury tools (`treasury_accounts.py`, `treasury_burn.py`, `treasury_api.py`) | none; each answer is read from the chain | list accounts, plan an unsigned burn | Solana reads, operator |
| Settings, readiness, browser pages, scripts | no state over time | validation, reports, presentation | |

The behaviours that are hard here, and what must be true of them:

* All handlers share one event loop. Everything between two `await`s is atomic;
  everything before an await may be out of date after it. A call reads key,
  suspension, maintenance, limits and provider balance at four different times
  before it reserves. *The reservation has to decide again whatever matters.*
* Pool totals and prepaid balances are running values. *They must equal the
  rows after every sequence of operations,* settlements above the hold included.
* A handler can end by success, bad status, malformed answer, timeout,
  cancellation, client disconnect, or the death of the process. *Every end
  settles or reviews, or the next start notices.*
* The operator reconciles from another process while handlers live. *Whoever
  is later must change nothing.*
* Clients retry. *The provider works at most once per Idempotency-Key.*
* Days and rate windows end while holds are open, and a reservation reads its
  clock before it waits for the database and again inside the transaction. *No
  row escapes both days but the one that waited over midnight.*
* Answers of the provider and the chain are cached under locks on which callers
  queue and are cancelled. *What is served is as young as it is said to be, and
  a failed or cancelled refresh never passes for a good one.*
* The body of a request and the frames of an answer come in pieces that others
  cut. *The verdict must not depend on the cuts.*
* Commands of the operator read, wait and then write. *A snapshot is whole, a
  receipt is counted once, a plan keeps what it promises.*

`PROJECT.json` lists every part with what is modelled of it, and every hazard
with its line and the properties that would catch it.

## Modules

| Module | Models | Builds on |
|---|---|---|
| `Sums` | `SUM` and `COUNT` over rows, without recursion (a sum is the size of a set of units) | |
| `AllowanceAccount` | abstract: an account in which requests open, become doubtful and close | `Sums` |
| `HolderLedger` | `Membership`, the projection triggers, the startup snapshot, wallet policy, key revocation | `Sums`, `AllowanceAccount` |
| `Gateway` | holder chat handlers, provider, crash and start, reconcile and funding commands, operator console | `HolderLedger` |
| `PrepaidLedger` | `Store.credit/reserve/settle/review` and budgets | `Sums`, `AllowanceAccount` |
| `PrepaidGateway` | the prepaid half of the chat handler, with the same environment | `PrepaidLedger` |
| `SignIn` | throttle and housekeeping, challenges, sessions | |
| `ApiKeys` | creating and revoking keys, the operator's and the chain's part in it | `SignIn` |
| `BodyGuard` | the body middleware, byte by byte, against a client that means a JSON text | |
| `ModelPolicy` | the limits of one request, from the metadata service to the reservation | |
| `StreamFrames` | `MemberGateway.stream` frame by frame | |
| `ProviderCaches` | catalogue, health, public balance and network figures, each with its lock | |
| `GonkaReads` | `NativeTreasury.balance` over `GonkaRPC.status` | |
| `RpcClient` | the `SolanaRPC` objects of a process: slots, pacing gate, total timeout, `ensure_mainnet` | |
| `Evidence` | receipts of burns and of creator claims | |
| `Backup` | `create_backup`, `verify_database` | |
| `UsageScan` | `reconcile_usage` over a list that changes between its pages | |
| `Treasury` | the treasury listing and the burn plan over one chain | |
| `MCHolderLedger`, `MCGateway`, `MCPrepaidLedger`, `MCPrepaidGateway`, `MCRpcClient` | the instances TLC runs of the ledgers, the request paths and the RPC objects | |
| `MCAccess` | what a request passes before a ledger, and its streamed answer: `SignIn` with `ApiKeys`, `BodyGuard`, `ModelPolicy`, `StreamFrames` | |
| `MCServices` | the services around the ledgers: the seven modules above from `ProviderCaches` on, the RPC objects by `MCRpcClient` | |
| `Sums_proofs`, `HolderLedger_proofs`, `Gateway_proofs`, `PrepaidLedger_proofs`, `PrepaidGateway_proofs` | theorems | the modules they name |
| `ApiKeys_proofs` | theorems about `SignIn` and `ApiKeys` | `ApiKeys` |
| `Completions_proofs` | theorems about one completion: `BodyGuard`, `ModelPolicy`, `StreamFrames` | these |
| `Services_proofs` | theorems about the seven services of `MCServices`, each by itself | these |

`MCAccess` and `MCServices` each hold several components that share no state in
the code. A variable `part`, chosen in the initial state, says which of them
moves; the others stay in their initial states, so nothing is multiplied.
`MCHolderLedger` uses `part` for two studies of one module: of the funds, within a
day and at many prices, and of the limits, over midnight and at one size.

### State and actions against the code

**HolderLedger.** A request is its `member_usage` row (`NoRow` before the
insert); `funding` maps allocation references to amounts; `totals` is the one
row of `member_pool_totals`, moved by `UsageTrigger` and `FundingTrigger` and
never recomputed; `startup` is the TEMP table. `Admissible` is `_admit`, check
by check; a check that raises leaves everything unchanged, so it is a guard.
`observed` is the provider balance the caller passes. `_admit` reads the clock
three times: at its head, before `BEGIN IMMEDIATE` may wait for the command
line's lock (`stamp`, which the row and the rate windows keep), and in
`totals()`, once for the wallet's day (`read`) and once for the shared day
(`now`). `LockWait` bounds how far they lie apart; the code's bound is SQLite's
busy timeout of ten seconds. `_admit` is called from one event loop of one
process and blocks it while it waits, so no reservation reads its first clock
before the one before has ended: the guard on `admitted`, which is history, the
time the row was written. Column names are
shortened: `tokens`/`amount` are `reserved_tokens`/`reserved_ngonka`, `used`/
`cost` are `tokens`/`cost_ngonka`. Prompt and completion details and provider
identifiers are left out: no admission reads them.

**Gateway.** `at[r]` is the await at which the handler of `r` is suspended:
`vetting` (catalogue, health, eligibility), `funding` (balance query; `funded`
once the provider has answered), `sending`, `reading`, `returned` (a
`StreamingResponse` no one has iterated yet), `streaming`, `pricing` (cost
lookup), `done`, or `dead` after a crash. `Dispatch` is reservation and send:
no await separates them. `GiveUp` is every exit of `call` and `stream` that does
not settle, each of which calls `review`. `Charge` is the settlement, which does
nothing when the operator was faster. `ProviderCharges`, `DropUnstarted` and
`Crash` are external. `CliRead`/`CliSettle` and `FundRead`/`FundAllocate` are two
steps each, because the code reads, lets others run, and then writes.

**PrepaidLedger.** `balance` and `spent` are the running columns, `usage` the
rows joined with `reconciliations` (`evidence`). `reserve` reads its clock like
`_admit`: `stamp` before the transaction, `read` in `budget_usage()` for all
wallets, `now` in the one for the wallet. `Reprice` is the arithmetic of
`settle`: the difference between reservation and bill moves on the account and
on the key.

**PrepaidGateway.** As `Gateway`, without streams. A handler keeps what it read
of the settings across its awaits; of these the rate limit is modelled, and the
retail rates only by the amount they lead to, which is any reservation and any
bill. Nothing rereads the suspension.

**AllowanceAccount.** What both ledgers promise in the end: a request opens at
most once and only if all charges fit into the funds, a doubtful request stops
every opening, a restart may make several requests doubtful at once, a request
closes once. `HolderLedger!ImplementsAccount` maps the whole pool to it,
`PrepaidLedger!EachWalletImplementsAccount` each wallet.

**SignIn.** `challenges`, `sessions` and `hits` are the tables, as sets of rows;
`lastSweep` is `_last_housekeeping`, which a restart loses. A throttled handler
is one step: `Admit` or `Refuse` deletes a batch of dead rows when that is due
(`Sweeps` holds every batch the unordered `LIMIT` may pick), counts the caller's
hits, and then the handler does its own writes. A refused request commits its
housekeeping too (`TooMany`), and a challenge for an address that does not
decode leaves its hit and no challenge (`Misaddressed`). `asked` and
`grants` are history. Audit rows are left out. Wall clock and monotonic clock are
one clock.

**ApiKeys.** `making` holds the creations that wait for the chain. The checks
before the await (`RequestMemberKey`, `RequestKey`), the chain's answer
(`ReadHoldings`) and `issue_key` (`IssueKey`, or `DenyKey`) are steps of their
own, so the session may end, the operator may act and other creations may
overtake in between. `POST /api/keys` neither throttles nor asks for maintenance,
and the model does not either.

**BodyGuard.** `client` writes a JSON text token by token and so knows its real
nesting. The text is UTF-8. `json.loads` also takes UTF-16 and UTF-32, where a
byte 0x22 or 0x5C need not be a quote or a backslash; of such bodies the scan,
and the model, say nothing. `wire` is what is not yet scanned; `guard` holds the locals of `__call__`: `size`,
how much of the message is `left` to scan, its `more_body`, and the scan's `depth`,
`in_string` and `escaped`. `Receive` takes any prefix of the wire, which is any way
to cut the body into ASGI messages, and looks at the size; `ScanNextByte` is one
turn of the byte loop. The client may write on while a message is scanned; no
`await` lies between the bytes, but what it writes then cannot be told from what
it writes before the next `receive`.

**ModelPolicy.** One request for one model: `ReadSettings` and `ListModel` are the
catalogue (settings before the await, merge after it), `NormalizeRequest` the
check, `DispatchRequest` the estimate that is reserved. `SaveLimits` is the
operator, between any two of them. `Discovered` is `model_metadata` on what the
service may report: a context length and a set of output limits, zero and absurd
ones included.

**StreamFrames.** `got` is every frame taken from the provider so far, `named`,
`uid` and `usage` the generator's locals, `booked` the calls of `settle` and
`review`. `phase` is where the generator is suspended: in its read, at a
`yield`, in the cost lookup. A frame carries an id, the indices of its choices,
a usage report, and whether it is broken: no JSON, no object, an error, another
model, a bad id, or choices and deltas of the wrong type. The type of its text is
not checked by the code. `EndStream` is every way the
generator ends, by itself, closed at a `yield` or cancelled in an await; the
`finally` clause runs in the same step.

**ProviderCaches.** `queue[s]` is the line at a lock, whose head holds it and
waits for `reading[s]`. A hit, a miss, a read that arrives, fails or is
cancelled with its caller are the branches of `catalog`, `provider_health`,
`public_balance` and `network_statistics`; each writes the stamps the code
writes, in its order. `AskToSave` is `update_admin_config`, which queues for the
catalogue and saves the disabled models when it has it. `offered` is the answer given in the last step.

**GonkaReads.** `awaits` is the await at which the holder of the lock is
suspended. `entered` keeps the times taken on the way, because the code
measures ages from them and not from now.

**RpcClient.** The process makes several `SolanaRPC` objects for its one endpoint
(`app.py`, `token_audit_api.py`, `creator_claims_api.py`, `treasury_api.py`), each
with slots, a gate and stamps of its own: `Clients`, and `ClientOf[c]` is the
object that caller `c` goes through. `at[c]` is where a call stands: at the `door`
of `ensure_mainnet`, waiting for a `slot`, at the `gate`, asleep there (`pace`), or
on the `wire`. `last` and `genesis` are the two stamps of each object, `sent` is
history. A slot and the gate are held in `async with` blocks, so every exit gives
them back. The total timeout is
a bound that `TickPasses` must not pass: a call whose time is up ends first
(`EndCall`), as under `asyncio.timeout`.

**Evidence.** `desk[c]` is one submission: which book, which signature, which of
its two or three awaited reads. `Insert` is the database transaction that ends
it, with the conflict rule; the transactions themselves are constants (`Tx`), because a
finalized transaction never changes. What a transaction truly burned or paid is
stated independently (`TrulyBurned`, `TrulyClaimed`) from its effects.

**Backup.** `stages[r]` is a command between its steps; `source` counts commits
of the live database, so a copy is the number of the commit it shows. `Link`
fails on an existing destination. `look` is `verify_database`, which reads the
file's status, its pages, its digest and its status again.

**UsageScan.** `listed` is the provider's list, `trend` whether rows come or go
during the scan; `ReadPage` is one iteration of the loop with each of its
refusals. The cost is the sum over the rows kept (`Sums`); a row is its id.

**Treasury.** The supply is what all accounts hold. An account is a record of
the attributes that either parser asks about. `ListAccounts` and `ReadReference` are the two reads of the listing,
`PlanBurn` the single read of `build_burn_plan`; `ChainMoves` may change an account
between any of them.

## Runs

| Run | Shows |
|---|---|
| `holder_ledger` | The pool: its types, projection exact, admissions covered, overruns only from settlements that billed above the hold, one row per Idempotency-Key, settled rows final, nothing admitted while a row is uncertain, both concurrency limits, and the refinement of `AllowanceAccount`. With reservations that wait over midnight, daily token quotas per wallet and in total hold but for one such call. |
| `gateway_safety` | A streamed call retries a plain one under the same Idempotency-Key, amid everything the environment can do: the ledger moves only by its operations, the provider works once. |
| `gateway_crash` | Two concurrent plain calls: stale authority is never used, a hold without a handler pauses inference, every hold resolves. |
| `prepaid_funds` | Running balances equal the rows, overdrafts only from billing, daily budgets but for one call that waited over midnight, review closed by evidence only, and the refinement for two wallets with three keys. |
| `prepaid_calls` | No blind refund, lost holds pause, holds resolve, whole operations only. |
| `access` | Sign-in across expiry, batched housekeeping and restarts: one-time challenges, the sliding window, a sweep that spares the living. Three creations against a limit of two keys. Every JSON body up to one token past nine bytes, cut in every way and scanned byte by byte. One request under limits that are discovered, overridden and saved meanwhile. Every answer of up to four frames, ended anywhere. |
| `services` | Two callers at each cache: nothing old or failed is served as current, no disabled model is offered, every caller is answered. Treasury reads, RPC calls paced by two objects, receipts submitted twice, backups that race and are killed, a usage list that moves, and the two treasury tools, which agree. |
| `gateway_stream`, `gateway_balance`, `gateway_funding`, `prepaid_suspension`, `rpc_process` | The disagreements between documentation and code below. |

### Bounds, and why they are enough

* Two or three requests: every property relates at most one row to the sum of
  the others, and every race here is between two actors. `holder_ledger` has
  three so that a concurrency limit of two can be reached and refused.
* Amounts of 1 to 3 with funds of 2 to 5: a hold that fits, one that does not,
  a settlement below (0), at (1, 2) and above (3) the hold.
* Two wallets, and two keys of one wallet, where limits or balances are per
  wallet or per key; one of each where they play no part.
* `MaxTime` bounds the clock to the fewest ticks that cross a midnight and leave
  a rate window; where time is irrelevant it is 0. `LockWait` is one tick, enough to
  wait over a midnight, in the ledger runs, `gateway_crash` and `prepaid_calls`, and
  0 where no day or window is at stake. `MaxBudget` and `MaxBalance`
  stand for 10^15. The quantities of the code stay far below 2^63 (amounts are
  capped at 10^15 before they are added), so integers are not wrapped.
* `PromptBilling` constrains only the two balance runs: the provider has charged
  a request before it answers for its cost and the operator stays away. It keeps
  the counterexample to the race itself and removes other explanations of it.
* `access` scales the clock to the relations that matter: a challenge dies before
  a session does, the window spans two ticks, housekeeping comes less often
  than ticks, and one row per batch leaves a backlog. Two active keys are the
  fewest that a revocation of all can end at once; in that part one wallet signs
  in once (`KeysBound`), because sign-in is exercised by its own part. Nine
  bytes hold a string with an escaped quote and a bracket inside it beside a
  nesting of two, which is the limit; a token is at most two bytes, so with
  `WireMax = 1` up to three bytes wait, enough to cut an escape anywhere. Four frames hold text, two reports
  and what may wrongly follow them. Context lengths up to 6 cover every order of
  reported, reviewed and overridden limits.
* `services`: two callers are enough for one to wait, overtake or be cancelled
  behind another; lifetimes of one to three ticks with five to seven ticks of
  clock let every cache age, be refreshed and age again. Three RPC callers of one
  object for its two slots, or two of it beside a fourth that goes through an
  object of its own. Four transactions: a burn beside a foreign burn, a burn that hides
  in an unparsed instruction, a plain claim and a claim passed on. Four usage
  rows in pages of two. Two token accounts, one ordinary or gone, the other with
  any one or two oddities; sums over more accounts add nothing new.
* Symmetry permutes requests, idempotency keys and references in the ledger
  runs, and challenge, session and key names in `access`, whose specifications
  treat them alike and which check no liveness.
* `CHECK_DEADLOCK FALSE` in the request-path runs, `access` and `services`: once
  all calls are done, the clock is at its bound and the references are used up,
  nothing need happen.

### Fairness

`FairGatewaySpec` assumes weak fairness of `Handle(r)` once a request has
arrived, and of `Boot`. Every await of a handler ends: RPC and provider reads
carry timeouts, dispatch, body and stream are under `asyncio.timeout`, and an
expired timeout is an exception that leads to `GiveUp`. The process is restarted
by its supervisor (`compose.yaml`, `restart: unless-stopped`). Nothing is
assumed about clients, the operator, the provider, or time. `Handle(r)` is fair
as a whole: a handler does something, nobody promises it succeeds.

`CachesSpec` assumes weak fairness of `Serve(s)` for each cache: the event loop
runs the holder of a lock when it is ready, and every read under a lock is under
`asyncio.timeout` or an `httpx` timeout. Whether a read succeeds is open, and so is
whether a caller waits or leaves. From this follows `AnswersCome`. The other
services state no liveness.

## Findings

Each is a run TLC refutes, stated by the documentation and not kept by the code.

1. `gateway_stream`: `docs/SECURITY.md` says a disconnected stream retains its
   hold *and* requires review, which pauses the ledger. If the client leaves
   after `call` returned the `StreamingResponse` and before the server first
   iterates it, the generator body never starts, its `finally` never runs, and
   the row stays `reserved` without review. Others are still admitted; the next
   restart is the first to notice.
2. `gateway_balance`: `_admit` calls its deduction of open holds conservative.
   The balance was read before an await. A call charged and settled since is in
   neither the balance nor the holds, and the new call is admitted against money
   that is gone.
3. `gateway_funding`: `docs/ADMIN.md` says funding refuses an allocation above
   the current spendable balance; by the same race it can exceed it.
4. `rpc_process`: `docs/QUICKNODE.md` gives 15 reads a second and eight
   simultaneous reads as the budget of one process. The process makes four
   `SolanaRPC` objects for the one endpoint, each with that budget to itself, so
   two requests go out in one gap and more at once than one object has slots.
   `RpcWithinBudget` is what does hold, object by object.
5. `prepaid_suspension`: `docs/API-POLICY.md` says suspension is rechecked
   transactionally before reservation. The holder ledger does so; `Store.reserve`
   does not, so a prepaid call already past the first check is dispatched for a
   suspended wallet.

One more disagreement has no run of its own. `docs/SECURITY.md:18` and
`docs/CHANGELOG.md:162` speak of atomic daily limits without exception, but a row
is stamped before its transaction and checked against the day that is read in
it. A reservation that waits for the database over midnight lies on a day it was not checked
against, and takes that day over its limit. `DayOversoldByOneAtMost` and
`BudgetExceededByOneAtMost` say what remains true, and check it: one such call a
midnight, and no other way over the limit than what a settlement reports beyond
its reservation. (With the calls stamped over a midnight counted like the others,
TLC refutes both in the same runs.)

## Theorems

Each theorem holds for every value of the constants that satisfies the named
`ASSUME`s of its modules. They say what the code and the database say: rows,
references, accounts, RPC tasks and usage ids are finite in number; amounts, limits and
lifetimes are natural numbers; NULL and the other marks of absence (`NoValue`,
`None`, `Nothing`, `Unset`, `Unread`, `Unknown`, `Gone`) are none of the values
they stand in for; there is at least one set of limits; a saved default is at
most the saved cap and an override leaves room for its input (the settings'
validation). Two are about the world outside: `VaultAssumption`, that
nothing but the claim moves the vault in a transaction that has nothing but a
claim in it, and `ReportAssumption`, that a usage report is not read as absent.

`Sums` defines a sum as the cardinality of a set of units, so that the facts in
`Sums_proofs` follow from the finite-set theorems: replacing one summand
(`SumUpdate`, `CountUpdate`), monotonicity, a sum of sums (`SumAdd`), a sum over
a part (`SumRestrict`), a positive count has a witness (`CountPositive`).

### Holder ledger

| Theorem | Argument |
|---|---|
| `LedgerTyped`, `ProjectionIsExact`, `PoolNotOversold` | parts of `LedgerInv` |
| `AdmissionsAreCovered`, `SettlementsAreFinal`, `OneChargePerIdempotencyKey` | each step, under `LedgerInv` |
| `UncertaintyPauses` | `UncertainIsSeen`: the projected review count or the snapshot shows every uncertain row to `_admit` |
| `ConcurrencyIsCapped` | only a reservation puts a row in flight, after counting |
| `DaysOversoldByOneAtMost` | below |
| `LedgerImplementsAccount` | each operation is one step of `AllowanceAccount`, or a stutter |

`LedgerInv` is the types, `RowOK` (only a settled row has a cost, a missing row holds
nothing), `ProjectionExact`, `ChargesProjected` and `OverrunOnlyFromBilling`. Overruns
alone are not inductive: `_admit` reads the projection, so one must know that it
equals the rows, and a settlement replaces a hold by a cost, so one must know
that an open row has no cost yet. Each operation has its lemma (`ReserveKeeps`,
`SettleKeeps`, ...), all of them through `WriteSums`, which says what one row update
does to each sum.

A day's tokens are bounded because the count that `_admit` makes for the day it reads
covers every token of that day (`TodayCovered`), a reservation adds to the day of its
stamp only, and that is the day it was checked against unless midnight lies
between; then the row counts as beyond the check with all its tokens. A settlement
adds to any day no more than its excess (`CoveredWriteKeepsDay`): a row keeps to
the day it was stamped with. That a day has one row over midnight at most follows
from the order of the reservations: after such a row no later stamp is of its day.

The refinement needs `StartupRows`, that every captured row exists, so that
a new row is not doubtful from birth, and the projection, by which the ledger's
check of the pool is the account's check of all charges. A review of a captured
row is a stutter: the account holds it doubtful already. (This is why `PhaseOf`
names each phase by conditions that exclude each other.)

### Holder requests

`CallOK` (what handlers hold after each await) is inductive without any knowledge of
the ledger, and under it every step of the system is a step of the ledger or
leaves it alone (`LedgerStep`). So `GatewayImplementsLedger` hands every ledger
theorem on: `GatewayTyped`, `GatewayPoolNotOversold`, and in `GatewayKeepsLedger` the
limits, the pause, the finality of settlements and the abstract account.
`ProviderWorksOnce` adds `SentRecorded`, the row behind every dispatch, and combines
it with one row per Idempotency-Key. `AuthorityIsFresh` follows from the guards of
`Reserve`.

`LostHoldsPause` rests on `AllTended`: a handler that has not reserved has no row, and
a reserved row has a live handler, or is in the snapshot of the running process,
or no process runs. One action breaks it, `DropUnstarted`, which is finding 1; the
theorem therefore assumes `StreamsAreRead`, that this action is not taken. So the
finding is the only gap: cancellation, timeouts, crashes, restarts and operators
leave none, and neither does a stream once it has been iterated. `gateway_crash`
checks the property without streams, `gateway_stream` refutes it with one.

### Prepaid ledger and requests

`PrepaidInv` is the types, `RowOK` (a row that exists names a key), `CreditConserved`
and `OverdraftOnlyFromBilling`. `WriteRow` says what writing one row does to the
charges of any set of keys, and `ChargeMoves` that a row charged `d` more moves the
balance of its wallet and the spend of its key by the same `d`; reservation,
settlement and review are three uses of it. From it: `PrepaidTyped`,
`CreditIsConserved`, `OverdraftsAreBilled`, `ReviewsNeedOperator` (which needs only the
types), `BudgetsExceededByOneAtMost` (as the holder's days, with `budget_usage` in place of the
token count) and `WalletsImplementAccount`, one account per wallet, in which
what other wallets do is a stutter (`OtherWallet`).

`PrepaidImplementsLedger` transfers these to the running system
(`RunningCreditConserved`, `PrepaidKeepsLedger`). `NothingRefundedBlindly` follows from who may write a
reserved row (`HandlerRows`, `OperatorRows`). `LostHoldsPause` is here
without a condition: a prepaid handler has no moment between its dispatch and the
code that reviews.

### Keys, challenges, throttle

`SignInInv` has two halves. `HitsInv` adds to `RateWindowKept` that no hit is from the
future: an admitted hit is the latest of every window that contains it, so the
count that admitted it bounds them all. `CredentialsInv` adds that a waiting
challenge was handed out with its expiry and that nobody has signed in with it.
From them: `SignInTyped`, `ChallengesAreOneTime`, `ThrottleHolds`, `SweepsAreHarmless`
(which needs `Window <= Retention`). `KeysInv` is `SignInInv`, the types and
`ActiveKeysBounded`. Every step is a sign-in step, a throttled request, or leaves
sign-in alone (`SignInUndisturbed`), so `SignInSurvivesKeys`; the bound itself is
`KeyLimitHolds`, because count and insert are one step.

### One completion

* `GuardIsExact`. While the middleware reads, the bytes on the wire lead it, byte
  by byte, from where its scan stands to what the client means: there is a path of
  scan states between the two, and the greatest depth on it is the client's
  (`ReadingOK`). A token written lengthens the path (`PathAppend`), a byte
  scanned shortens it (`PathTail`), and where a piece ends does not matter. The
  path is a witness under `\E`; the fold that computes it would need an induction.
* `PolicyOnlyTightens`. A row of the catalogue is within every bound it was merged
  from and is one of them or leaves one token of room (`RowOK`, `MergeOK`); the check
  against it admits and refuses exactly (`CheckIsExact`). Exactness is what makes
  a refusal provable: a bound that is only met from above would not do.
* `StreamsSettleOnce`. `FramesInv` carries what the generator knows of the frames
  it has accepted (`Known`: one id, one report, no text after a report); a
  settlement is then for all frames.

### Services

* `DisabledNeverOffered`, `CachesServeCurrent`. `CachesInv`: the settings are what the
  read under the lock began with, because a save waits for that lock; the list
  is not older than the metadata behind it; data that a failure has not disowned
  is from the last attempt or from after it (`CellOK`).
* `TreasuryShowsCurrent`. `GonkaInv`: an awaited read is younger than the
  gateway's timeout and stands behind a status that was fresh when it began (`AwaitOK`);
  a kept balance was read after every failed check (`NativeOK`).
* `RpcStaysWithinBudget`. `RpcInv` says of each object (`ObjectOK`) that its slots are
  counted, and that one task at most sleeps at its gate and wakes a full gap after
  the object's last request, which nobody can pass meanwhile. A task moves in its
  own object only (`RpcMove`, `RpcOthersKeep`). For any number of objects and any
  finite number of tasks; of the objects together nothing is claimed (finding 4).
* `ReceiptsAreTrue`. `EvidenceInv`: past its first read a submission is of a final
  transaction, and a book has one row per signature. That what the parsers
  say is what the transaction did is `WorthIsTrue`.
* `SnapshotsAreWhole`. `BackupInv`: a stage past its copy is a whole copy, and status,
  pages and digest are read in this order from a file that only moves
  forward, which is why an unchanged status at the end means one content.
* `ScanCountsList`. `ScanInv`: as long as the list is as long as the scan was
  told, the rows kept are its first pages. A list that only grows, or only
  shrinks, never has its old length again once it has changed.
* `TreasuryToolsAgree`. `TreasuryInv`: the supply is the sum of the balances, the rows on
  display are judged as `Reason` judges them, and a plan was made exactly if the
  account was `Free` and held enough. That no account exceeds the supply
  makes the plan's own supply check redundant, so it cannot set the two apart.

### Model-checked only

Liveness (`HoldsResolve` in both request paths, `AnswersCome`) is out of reach of
the provers, which have no rule for fairness or `ENABLED`. The findings are
counterexamples and stay with TLC. Every other property of the passing runs has
its theorem.

## Not modelled

* Parsing: of JSON into values, of provider statistics, of token accounts and
  mint extensions. A parser is modelled by what it accepts where a property
  depends on it (`StreamFrames`, `Treasury`, `Evidence`) and is one outcome,
  "failed", elsewhere.
* `upstream_id` and usage details on rows, audit rows and business entries:
  reporting only, each one insert.
* Endpoints that only read (preflight, histories, public series, pages): they
  change nothing a property is about.
* SQLite itself: a transaction is atomic and durable once committed. The file
  system's checks of modes, owners and symbolic links in `backup.py`.
* Clocks that are set back, in the ledgers too. The catalogue alone measures age by the wall clock
  without a lower bound; see the hazards.
* Byte layouts of Solana transactions, signature verification, arithmetic
  reports, settings validation, browser code, scripts: no state over time.

## Plan

Done, in this order: `Sums`, `HolderLedger`, `AllowanceAccount`, their proofs;
`Gateway` and its proofs; `PrepaidLedger`, `PrepaidGateway`; `SignIn`, `ApiKeys` and
their proofs; `ProviderCaches`, `GonkaReads`, `RpcClient`, `Evidence`, `Backup`, `UsageScan`,
`Treasury`; `BodyGuard`, `ModelPolicy`, `StreamFrames`; then proofs of all of these, the
refinements of `AllowanceAccount` and the daily limits among them.

Next:

1. Type correctness of the services, beside the parts of it their invariants
   already carry.
2. The holder's day and the prepaid day are one argument over two kinds of row;
   a common lemma in `Sums_proofs` would say it once.
