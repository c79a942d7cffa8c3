------------------------------ MODULE GonkaReads ------------------------------
(***************************************************************************)
(* The self-custody balance shown on the treasury page.  NativeTreasury    *)
(* holds its lock over two gateway reads, GonkaRPC.status and the bank     *)
(* balance, each with a cache and a cooldown after failure.                *)
(***************************************************************************)
EXTENDS Naturals, SequencesExt

CONSTANTS
  Viewers,       \* page requests
  Nothing,
  StatusLife,    \* STATUS_TTL
  BalanceLife,   \* BALANCE_TTL
  Cooldown,      \* FAILURE_TTL
  MaxBlockAge,   \* MAX_BLOCK_AGE, 180 s
  GatewayTime,   \* longest a single read takes
  LastMoment     \* bound: the clock stops here

ASSUME GonkaAssumption ==
  /\ {StatusLife, BalanceLife, Cooldown, MaxBlockAge, GatewayTime, LastMoment} \subseteq Nat
  /\ BalanceLife > 0 /\ Nothing \notin Nat \cup {"status", "balance"}

VARIABLES
  moment,
  line,      \* the requests at the lock; the first one holds it
  awaits,    \* what the holder reads: Nothing, "status" or "balance"
  entered,   \* when it took the lock, and when its read began
  status,    \* GonkaRPC: the block time seen, when, and whether it failed
  native,    \* NativeTreasury: when the balance was read, its stamp, failed
  block,     \* block time of the status that the holder relies on
  shown,     \* the answer given in the last step: age of its data, its block
  failedAt   \* when a check last failed

gonkaVars == <<moment, line, awaits, entered, status, native, block, shown, failedAt>>

GonkaInit ==
  /\ moment = 0 /\ line = <<>> /\ awaits = Nothing
  /\ entered = [lock |-> 0, read |-> 0]
  /\ status = [block |-> Nothing, at |-> Nothing, failed |-> FALSE]
  /\ native = [read |-> Nothing, at |-> Nothing, failed |-> FALSE]
  /\ block = Nothing /\ shown = Nothing /\ failedAt = Nothing

Recently(at, life) == at # Nothing /\ moment - at < life

FreshBlock(b) == b # Nothing /\ moment - b <= MaxBlockAge

Done == line' = Tail(line) /\ awaits' = Nothing /\ block' = Nothing

(* GET /api/treasury.                                                      *)
View(v) ==
  /\ ~Contains(line, v)
  /\ line' = Append(line, v)
  /\ shown' = Nothing
  /\ UNCHANGED <<moment, awaits, entered, status, native, block, failedAt>>

(* Faulty: a failure leaves the balance that was shown before.             *)
RaiseAndKeep ==
  /\ native' = [native EXCEPT !.at = moment, !.failed = TRUE]
  /\ failedAt' = moment /\ shown' = Nothing
  /\ Done

Raise ==
  /\ native' = [read |-> Nothing, at |-> moment, failed |-> TRUE]
  /\ failedAt' = moment /\ shown' = Nothing
  /\ Done

(* After a good status: the cached balance, judged by the time the lock    *)
(* was taken, or a read of the bank.                                       *)
Proceed(since, b) ==
  /\ IF native.read # Nothing /\ since - native.at < BalanceLife
     THEN shown' = [read |-> native.read, block |-> b] /\ Done /\ UNCHANGED entered
     ELSE /\ awaits' = "balance" /\ block' = b /\ shown' = Nothing
          /\ entered' = [lock |-> since, read |-> moment]
          /\ UNCHANGED line
  /\ UNCHANGED <<native, failedAt>>

Idle == line # <<>> /\ awaits = Nothing

CoolingDown == native.failed /\ Recently(native.at, Cooldown)

StatusKept == Recently(status.at, IF status.failed THEN Cooldown ELSE StatusLife)

Refused ==
  /\ Idle /\ CoolingDown
  /\ shown' = Nothing
  /\ Done
  /\ UNCHANGED <<moment, entered, status, native, failedAt>>

(* A status read that was cancelled left a stamp and no status: the lookup *)
(* in it raises, and is caught here as an invalid response.                *)
FromStatus ==
  /\ Idle /\ ~CoolingDown /\ StatusKept
  /\ IF status.failed \/ ~FreshBlock(status.block)
     THEN Raise /\ UNCHANGED entered
     ELSE Proceed(moment, status.block)
  /\ UNCHANGED <<moment, status>>

ReadStatus ==
  /\ Idle /\ ~CoolingDown /\ ~StatusKept
  /\ status' = [status EXCEPT !.block = Nothing]
  /\ awaits' = "status" /\ shown' = Nothing
  /\ entered' = [lock |-> moment, read |-> moment]
  /\ UNCHANGED <<moment, line, native, block, failedAt>>

(* The network, the sync state and the age of the latest block are good.   *)
StatusArrives ==
  /\ awaits = "status"
  /\ \E b \in 0 .. moment :
       /\ FreshBlock(b)
       /\ status' = [block |-> b, at |-> moment, failed |-> FALSE]
       /\ Proceed(entered.lock, b)
  /\ UNCHANGED moment

StatusFails ==
  /\ awaits = "status"
  /\ status' = [status EXCEPT !.at = moment, !.failed = TRUE]
  /\ Raise
  /\ UNCHANGED <<moment, entered>>

BalanceArrives ==
  /\ awaits = "balance"
  /\ native' = [read |-> moment, at |-> moment, failed |-> FALSE]
  /\ shown' = [read |-> moment, block |-> block]
  /\ Done
  /\ UNCHANGED <<moment, entered, status, failedAt>>

BalanceFails ==
  /\ awaits = "balance"
  /\ Raise
  /\ UNCHANGED <<moment, entered, status>>

(* The request is cancelled at the lock or in a read; `finally` stamps an  *)
(* unfinished status.                                                      *)
GoAway(i) ==
  /\ i \in DOMAIN line
  /\ line' = RemoveAt(line, i)
  /\ IF i = 1 THEN awaits' = Nothing /\ block' = Nothing ELSE UNCHANGED <<awaits, block>>
  /\ status' = IF i = 1 /\ awaits = "status" THEN [status EXCEPT !.at = moment] ELSE status
  /\ shown' = Nothing
  /\ UNCHANGED <<moment, entered, native, failedAt>>

MomentPasses ==
  /\ moment < LastMoment
  /\ awaits # Nothing => moment < entered.read + GatewayTime
  /\ moment' = moment + 1 /\ shown' = Nothing
  /\ UNCHANGED <<line, awaits, entered, status, native, block, failedAt>>

GonkaNext ==
  \/ \E v \in Viewers : View(v)
  \/ Refused \/ FromStatus \/ ReadStatus \/ StatusArrives \/ StatusFails
  \/ BalanceArrives \/ BalanceFails
  \/ \E i \in DOMAIN line : GoAway(i)
  \/ MomentPasses

GonkaSpec == GonkaInit /\ [][GonkaNext]_gonkaVars

-------------------------------------------------------------------------------
(* A balance on the page was read in its lifetime (which runs from the     *)
(* lock, so a status read may add to its age), after the last failed       *)
(* check, and behind a status whose block is young enough.                 *)
TreasuryCurrent ==
  shown # Nothing =>
    /\ moment - shown.read < BalanceLife + GatewayTime
    /\ failedAt # Nothing => shown.read >= failedAt
    /\ moment - shown.block <= MaxBlockAge + GatewayTime
===============================================================================
