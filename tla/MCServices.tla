------------------------------ MODULE MCServices ------------------------------
(* One of the services around the ledgers per behaviour: the caches, each  *)
(* kind of provider read, the receipt books, the backup, the usage scan or *)
(* the treasury tools.                                                     *)
EXTENDS ProviderCaches, GonkaReads, MCRpcClient, Evidence, Backup, UsageScan,
        Treasury

CONSTANTS m1, m2, s1, s2, s3, s4, h1, h2, token, other

VARIABLE part

MCLife == [s \in Stamped |-> 2]

Ix(parsed, of, n) == [token |-> TRUE, parsed |-> parsed, burns |-> of, amount |-> n]

NoChange == [payer |-> 0, creator |-> 0, vault |-> 0, others |-> 0]

BurnTx(slot, ok, ixs) ==
  [slot |-> slot, ok |-> ok, instructions |-> ixs, outer |-> <<"token">>, fee |-> 1,
   payerIsCreator |-> FALSE, change |-> [NoChange EXCEPT !.payer = -1], claimed |-> 0]

(* A claim of n lamports beside the outer instructions xs; the creator     *)
(* passes `on` lamports to someone else in the same transaction.           *)
ClaimTx(slot, xs, n, self, on) ==
  [slot |-> slot, ok |-> TRUE, instructions |-> <<>>, outer |-> xs, fee |-> 1,
   payerIsCreator |-> self, claimed |-> n,
   change |-> [payer |-> IF self THEN n - on - 1 ELSE -1,
               creator |-> IF self THEN n - on - 1 ELSE n - on,
               vault |-> -n, others |-> on]]

(* A burn next to a burn of another mint; a burn that fails or hides; and  *)
(* two claims, the second one passed on.                                   *)
MCTx ==
  [s \in {s1, s2, s3, s4} |->
     CASE s = s1 -> BurnTx(1, TRUE, <<Ix(TRUE, token, 1), Ix(TRUE, other, 2), Ix(TRUE, token, 2)>>)
       [] s = s2 -> BurnTx(1, TRUE, <<Ix(TRUE, token, 1), Ix(FALSE, token, 2)>>)
       [] s = s3 -> ClaimTx(2, <<"compute", "claim">>, 3, TRUE, 0)
       [] s = s4 -> ClaimTx(2, <<"claim", "other">>, 3, FALSE, 1)]

MCCost == [i \in UsageIds |-> 1]

Ordinary == [ours |-> TRUE, balance |-> 10, frozen |-> FALSE, native |-> FALSE,
             delegate |-> "none", closer |-> "none", layout |-> "plain"]

Odd == {[Ordinary EXCEPT !.ours = FALSE], [Ordinary EXCEPT !.balance = 5],
        [Ordinary EXCEPT !.balance = 0], [Ordinary EXCEPT !.frozen = TRUE],
        [Ordinary EXCEPT !.native = TRUE]}

MCAccounts ==
  {Ordinary} \cup Odd
  \cup {[o EXCEPT !.delegate = "allowance"] : o \in Odd}
  \cup {[o EXCEPT !.closer = c] : o \in Odd, c \in {"own", "other"}}
  \cup {[o EXCEPT !.layout = l] : o \in Odd, l \in {"reviewed", "odd"}}

MCMints ==
  {[program |-> p, layout |-> l, ready |-> TRUE] :
     p \in {"token", "token2022"}, l \in {"plain", "reviewed"}}

(* 0.5, 1, 0.25 and 2 tokens.                                              *)
MCTyped ==
  {[units |-> 0, fraction |-> 5, places |-> 1], [units |-> 1, fraction |-> 0, places |-> 0],
   [units |-> 0, fraction |-> 25, places |-> 2], [units |-> 2, fraction |-> 0, places |-> 0]}

(* One account of every kind beside an ordinary one or none.               *)
OneOddAccount == TreasuryInit /\ chain.held[h2] \in {Gone, Ordinary}

NoAccounts ==
  /\ mint = [program |-> "token", layout |-> "plain", ready |-> TRUE]
  /\ chain = [slot |-> 1, supply |-> 0, held |-> [a \in Accs |-> Gone]]
  /\ listing = Gone /\ display = Gone /\ plan = Gone

ServicesInit ==
  /\ part \in Sources \cup {"gonka", "rpc", "evidence", "backup", "scan", "treasury"}
  /\ CachesInit /\ GonkaInit /\ RpcInit /\ EvidenceInit /\ BackupInit
  /\ IF part = "scan" THEN ScanInit
     ELSE listed = <<>> /\ trend = "grows" /\ scan = Fresh /\ report = Unread
  /\ IF part = "treasury" THEN OneOddAccount ELSE NoAccounts

CachesStep ==
  /\ part \in Sources /\ CachesNext
  /\ \A s \in Sources \ {part} : queue'[s] = <<>>
  /\ UNCHANGED <<gonkaVars, rpcVars, evidenceVars, backupVars, scanVars, treasuryVars>>

GonkaStep ==
  /\ part = "gonka" /\ GonkaNext
  /\ UNCHANGED <<cacheVars, rpcVars, evidenceVars, backupVars, scanVars, treasuryVars>>

(* The caller at an object of its own comes at the start and checks no     *)
(* holdings; then two callers at most go through the other object at once. *)
RpcStep ==
  /\ part = "rpc" /\ RpcNext
  /\ at'[x1] # "door" /\ (at[x1] = "away" /\ tick > 0 => at'[x1] = "away")
  /\ at'[x1] # "away" \/ sent'[own] # Unset
       => Cardinality({c \in Tasks \ {x1} : at'[c] # "away"}) <= 2
  /\ UNCHANGED <<cacheVars, gonkaVars, evidenceVars, backupVars, scanVars, treasuryVars>>

EvidenceStep ==
  /\ part = "evidence" /\ EvidenceNext
  /\ UNCHANGED <<cacheVars, gonkaVars, rpcVars, backupVars, scanVars, treasuryVars>>

BackupStep ==
  /\ part = "backup" /\ BackupNext
  /\ UNCHANGED <<cacheVars, gonkaVars, rpcVars, evidenceVars, scanVars, treasuryVars>>

ScanStep ==
  /\ part = "scan" /\ ScanNext
  /\ UNCHANGED <<cacheVars, gonkaVars, rpcVars, evidenceVars, backupVars, treasuryVars>>

TreasuryStep ==
  /\ part = "treasury" /\ TreasuryNext
  /\ UNCHANGED <<cacheVars, gonkaVars, rpcVars, evidenceVars, backupVars, scanVars>>

ServicesNext ==
  /\ CachesStep \/ GonkaStep \/ RpcStep \/ EvidenceStep \/ BackupStep \/ ScanStep \/ TreasuryStep
  /\ UNCHANGED part

serviceVars ==
  <<cacheVars, gonkaVars, rpcVars, evidenceVars, backupVars, scanVars, treasuryVars, part>>

ServicesSpec ==
  /\ ServicesInit /\ [][ServicesNext]_serviceVars
  /\ \A s \in Sources : WF_cacheVars(Serve(s))
===============================================================================
