------------------------------- MODULE Evidence -------------------------------
(***************************************************************************)
(* The two receipt books: burns of the project token and creator claims.   *)
(* A submitted signature is looked up in two or three finalized reads, the *)
(* transaction is judged, and its receipt is kept once.  Submissions run   *)
(* side by side, fail and are repeated; the chain and its node move on.    *)
(***************************************************************************)
EXTENDS Integers, SequencesExt

CONSTANTS
  Clerks,    \* submissions under way
  Sigs,      \* transaction signatures
  Tx,        \* what each transaction did
  Mint,      \* the configured mint
  Absent,
  LastSlot   \* bound: the chain stops here

Books == {"burn", "claim"}

(* A transaction's slot and success; its instructions in order, inner ones *)
(* included; its fee and the balance changes of the fee payer, creator,    *)
(* vault and all others.                                                   *)
ASSUME EvidenceAssumption ==
  \A s \in Sigs : /\ Tx[s].slot \in 1 .. LastSlot /\ Tx[s].ok \in BOOLEAN
                  /\ Tx[s].fee \in Nat /\ Tx[s].payerIsCreator \in BOOLEAN
                  /\ Tx[s].claimed \in Nat /\ Tx[s].change.creator \in Int

VARIABLES
  tip,    \* finalized slot
  desk,   \* per clerk: the book, signature and step of its submission
  rows    \* token_burn_receipts and creator_claim_receipts

evidenceVars == <<tip, desk, rows>>

NoJob == [book |-> Absent, sig |-> Absent, step |-> "none"]

EvidenceInit ==
  /\ tip = 0
  /\ desk = [c \in Clerks |-> NoJob]
  /\ rows = {}

-------------------------------------------------------------------------------
(* What a receipt says.                                                    *)

Total(numbers) == FoldSeq(LAMBDA n, acc : n + acc, 0, numbers)

Amounts(instructions) == [i \in DOMAIN instructions |-> instructions[i].amount]

IsBurn(x) == x.token /\ x.burns = Mint

Burns(t) == SelectSeq(t.instructions, IsBurn)

(* parse_burn_receipt: an unparsed token instruction declines the receipt. *)
BurnedRaw(t) ==
  IF t.ok /\ \A i \in DOMAIN t.instructions : t.instructions[i].token => t.instructions[i].parsed
  THEN Total(Amounts(Burns(t)))
  ELSE 0

(* One direct claim, beside it compute-budget instructions only.           *)
OneClaim(t) ==
  /\ \A i \in DOMAIN t.outer : t.outer[i] \in {"compute", "claim"}
  /\ Len(SelectSeq(t.outer, LAMBDA x : x = "claim")) = 1

(* Beside a direct claim and compute-budget instructions nothing moves the *)
(* vault's balance, which is why the code may read the claim off it.       *)
ASSUME VaultAssumption ==
  \A s \in Sigs : Tx[s].ok /\ OneClaim(Tx[s]) => Tx[s].change.vault = -Tx[s].claimed

(* _balances: the vault lost what the creator gained, the payer paid the   *)
(* fee, and nothing else moved.                                            *)
ClaimedLamports(t) ==
  LET amount == t.change.creator + (IF t.payerIsCreator THEN t.fee ELSE 0)
  IN  IF /\ t.ok /\ OneClaim(t)
         /\ amount > 0 /\ t.change.vault = -amount
         /\ t.payerIsCreator \/ t.change.payer = -t.fee
         /\ t.change.others = 0
      THEN amount ELSE 0

Worth(book, t) == IF book = "burn" THEN BurnedRaw(t) ELSE ClaimedLamports(t)

Row(book, s) == {r \in rows : r.book = book /\ r.sig = s}

(* Faulty: evidence that differs gets a row of its own.                    *)
InsertOrAdd(r) == rows' = rows \cup {r}

(* INSERT OR IGNORE; evidence that differs from the kept row is an error,  *)
(* and the savepoint or transaction is rolled back.                        *)
Insert(r) == rows' = IF Row(r.book, r.sig) = {} THEN rows \cup {r} ELSE rows

-------------------------------------------------------------------------------
(* POST /api/admin/token/burns and /api/admin/treasury/creator-claims.     *)
Submit(c, book, s) ==
  /\ desk[c] = NoJob
  /\ desk' = [desk EXCEPT ![c] = [book |-> book, sig |-> s, step |-> "status"]]
  /\ UNCHANGED <<tip, rows>>

Reads(c, step) == desk[c].step = step /\ UNCHANGED tip

Advance(c, step) == desk' = [desk EXCEPT ![c].step = step]

(* _finalized_slot: successful and finalized, as the node sees it.         *)
ReadSignatureStatus(c) ==
  /\ Reads(c, "status")
  /\ Tx[desk[c].sig].slot <= tip /\ Tx[desk[c].sig].ok
  /\ Advance(c, "transaction")
  /\ UNCHANGED rows

Keep(c, time) ==
  LET job == desk[c]
  IN  /\ Worth(job.book, Tx[job.sig]) > 0
      /\ Insert([book |-> job.book, sig |-> job.sig, time |-> time,
                 amount |-> Worth(job.book, Tx[job.sig])])
      /\ desk' = [desk EXCEPT ![c] = NoJob]

(* A claim is kept in the same step; a node may not know the block time.   *)
ReadTransaction(c) ==
  /\ Reads(c, "transaction")
  /\ IF desk[c].book = "claim"
     THEN \E time \in {Absent, Tx[desk[c].sig].slot} : Keep(c, time)
     ELSE \E step \in {"mint", "mint, no time"} : Advance(c, step) /\ UNCHANGED rows

(* The mint, at a slot not before the transaction's, then the receipt.     *)
ReadMint(c) ==
  \/ Reads(c, "mint") /\ Keep(c, Tx[desk[c].sig].slot)
  \/ Reads(c, "mint, no time") /\ Keep(c, Absent)

(* Refused, unavailable, timed out or cancelled: nothing is kept.          *)
GiveUp(c) ==
  /\ desk[c] # NoJob
  /\ desk' = [desk EXCEPT ![c] = NoJob]
  /\ UNCHANGED <<tip, rows>>

Finalize ==
  /\ tip < LastSlot
  /\ tip' = tip + 1
  /\ UNCHANGED <<desk, rows>>

ProcessDies ==
  /\ desk' = [c \in Clerks |-> NoJob]
  /\ UNCHANGED <<tip, rows>>

EvidenceNext ==
  \/ \E c \in Clerks :
       \/ \E book \in Books, s \in Sigs : Submit(c, book, s)
       \/ ReadSignatureStatus(c) \/ ReadTransaction(c) \/ ReadMint(c) \/ GiveUp(c)
  \/ Finalize
  \/ ProcessDies

EvidenceSpec == EvidenceInit /\ [][EvidenceNext]_evidenceVars

-------------------------------------------------------------------------------
(* What the chain did: the mint's units burned, and the lamports that a    *)
(* claim instruction moved from the vault.                                 *)
TrulyBurned(t) == IF t.ok THEN Total(Amounts(Burns(t))) ELSE 0

TrulyClaimed(t) == IF t.ok THEN t.claimed ELSE 0

(* However often and in whatever order transactions are submitted, a book  *)
(* holds each one at most once, with what it did on chain and no less, and *)
(* none that is not final.                                                 *)
ReceiptsCountOnce ==
  \A r \in rows :
    /\ Row(r.book, r.sig) = {r}
    /\ r.amount = IF r.book = "burn" THEN TrulyBurned(Tx[r.sig]) ELSE TrulyClaimed(Tx[r.sig])
    /\ r.amount > 0 /\ Tx[r.sig].slot <= tip
===============================================================================
