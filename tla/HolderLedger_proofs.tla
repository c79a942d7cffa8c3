------------------------- MODULE HolderLedger_proofs -------------------------
(* Theorems about HolderLedger for every value of its constants.           *)
EXTENDS HolderLedger, Sums_proofs

(* What the transactions maintain row by row: only a settled row has a     *)
(* cost, and a missing row holds nothing.                                  *)
RowOK(row) ==
  /\ row.state # "settled" => row.cost = 0
  /\ row.state = "absent" => row.amount = 0

(* The projection's two halves add up to what the rows charge.             *)
ChargesProjected == Charged = totals.spent + totals.reserved

(* The inductive invariant.                                                *)
LedgerInv ==
  /\ TypeOK
  /\ \A r \in Requests : RowOK(usage[r])
  /\ ProjectionExact
  /\ ChargesProjected
  /\ OverrunOnlyFromBilling

-----------------------------------------------------------------------------

(* What one row contributes is a natural number.                           *)
LEMMA RowContribution ==
  ASSUME NEW row \in Row
  PROVE  /\ HeldOf(row) \in Nat /\ ReviewOf(row) \in {0, 1}
         /\ ChargeOf(row) \in Nat /\ ExcessOf(row) \in Nat
         /\ row.cost \in Nat /\ row.amount \in Nat
BY DEF Row, HeldOf, ReviewOf, ChargeOf, ExcessOf

(* The sums of a ledger are natural numbers.                               *)
LEMMA SumTypes ==
  ASSUME TypeOK
  PROVE  /\ Funded \in Nat /\ Charged \in Nat /\ Excess \in Nat
         /\ SumOf([r \in Requests |-> usage[r].cost]) \in Nat
         /\ SumOf([r \in Requests |-> HeldOf(usage[r])]) \in Nat
<1>1. IsFiniteSet(Requests) /\ IsFiniteSet(Refs)
  BY RowAssumption
<1>2. funding \in [Refs -> Nat] /\ \A r \in Requests : usage[r] \in Row
  BY DEF TypeOK
<1>3. /\ [r \in Requests |-> usage[r].cost] \in [Requests -> Nat]
      /\ [r \in Requests |-> HeldOf(usage[r])] \in [Requests -> Nat]
      /\ [r \in Requests |-> ChargeOf(usage[r])] \in [Requests -> Nat]
      /\ [r \in Requests |-> ExcessOf(usage[r])] \in [Requests -> Nat]
  BY <1>2, RowContribution
<1>4. QED
  BY <1>1, <1>2, <1>3, SumType DEF Funded, Charged, Excess

(* What writing one row does to every sum over the rows.                   *)
LEMMA WriteSums ==
  ASSUME TypeOK, NEW r \in Requests, NEW row \in Row,
         usage' = [usage EXCEPT ![r] = row]
  PROVE  /\ SumOf([q \in Requests |-> usage'[q].cost])
              = SumOf([q \in Requests |-> usage[q].cost]) + row.cost - usage[r].cost
         /\ SumOf([q \in Requests |-> HeldOf(usage'[q])])
              = SumOf([q \in Requests |-> HeldOf(usage[q])])
                  + HeldOf(row) - HeldOf(usage[r])
         /\ Charged' = Charged + ChargeOf(row) - ChargeOf(usage[r])
         /\ Excess' = Excess + ExcessOf(row) - ExcessOf(usage[r])
         /\ CountOf([q \in Requests |-> usage'[q].state = "needs_review"])
              = CountOf([q \in Requests |-> usage[q].state = "needs_review"])
                  + ReviewOf(row) - ReviewOf(usage[r])
<1>1. /\ \A q \in Requests : usage[q] \in Row /\ usage'[q] \in Row
      /\ usage'[r] = row
      /\ \A q \in Requests \ {r} : usage'[q] = usage[q]
  BY DEF TypeOK
<1>2. IsFiniteSet(Requests)
  BY RowAssumption
<1>3. SumOf([q \in Requests |-> usage'[q].cost])
        = SumOf([q \in Requests |-> usage[q].cost]) + row.cost - usage[r].cost
  <2> DEFINE f == [q \in Requests |-> usage[q].cost]
             g == [q \in Requests |-> usage'[q].cost]
  <2>1. f \in [Requests -> Nat] /\ g \in [Requests -> Nat]
    BY <1>1, RowContribution
  <2>2. (\A q \in Requests \ {r} : g[q] = f[q]) /\ g[r] = row.cost /\ f[r] = usage[r].cost
    BY <1>1
  <2> HIDE DEF f, g
  <2>3. SumOf(g) = SumOf(f) + g[r] - f[r]
    BY <1>2, <2>1, <2>2, SumUpdate
  <2>4. QED
    BY <2>2, <2>3 DEF f, g
<1>4. SumOf([q \in Requests |-> HeldOf(usage'[q])])
        = SumOf([q \in Requests |-> HeldOf(usage[q])]) + HeldOf(row) - HeldOf(usage[r])
  <2> DEFINE f == [q \in Requests |-> HeldOf(usage[q])]
             g == [q \in Requests |-> HeldOf(usage'[q])]
  <2>1. f \in [Requests -> Nat] /\ g \in [Requests -> Nat]
    BY <1>1, RowContribution
  <2>2. /\ \A q \in Requests \ {r} : g[q] = f[q]
        /\ g[r] = HeldOf(row) /\ f[r] = HeldOf(usage[r])
    BY <1>1
  <2> HIDE DEF f, g
  <2>3. SumOf(g) = SumOf(f) + g[r] - f[r]
    BY <1>2, <2>1, <2>2, SumUpdate
  <2>4. QED
    BY <2>2, <2>3 DEF f, g
<1>5. Charged' = Charged + ChargeOf(row) - ChargeOf(usage[r])
  <2> DEFINE f == [q \in Requests |-> ChargeOf(usage[q])]
             g == [q \in Requests |-> ChargeOf(usage'[q])]
  <2>1. f \in [Requests -> Nat] /\ g \in [Requests -> Nat]
    BY <1>1, RowContribution
  <2>2. /\ \A q \in Requests \ {r} : g[q] = f[q]
        /\ g[r] = ChargeOf(row) /\ f[r] = ChargeOf(usage[r])
    BY <1>1
  <2> HIDE DEF f, g
  <2>3. SumOf(g) = SumOf(f) + g[r] - f[r]
    BY <1>2, <2>1, <2>2, SumUpdate
  <2>4. QED
    BY <2>2, <2>3 DEF f, g, Charged
<1>6. Excess' = Excess + ExcessOf(row) - ExcessOf(usage[r])
  <2> DEFINE f == [q \in Requests |-> ExcessOf(usage[q])]
             g == [q \in Requests |-> ExcessOf(usage'[q])]
  <2>1. f \in [Requests -> Nat] /\ g \in [Requests -> Nat]
    BY <1>1, RowContribution
  <2>2. /\ \A q \in Requests \ {r} : g[q] = f[q]
        /\ g[r] = ExcessOf(row) /\ f[r] = ExcessOf(usage[r])
    BY <1>1
  <2> HIDE DEF f, g
  <2>3. SumOf(g) = SumOf(f) + g[r] - f[r]
    BY <1>2, <2>1, <2>2, SumUpdate
  <2>4. QED
    BY <2>2, <2>3 DEF f, g, Excess
<1>7. CountOf([q \in Requests |-> usage'[q].state = "needs_review"])
        = CountOf([q \in Requests |-> usage[q].state = "needs_review"])
            + ReviewOf(row) - ReviewOf(usage[r])
  <2> DEFINE f == [q \in Requests |-> usage[q].state = "needs_review"]
             g == [q \in Requests |-> usage'[q].state = "needs_review"]
  <2>1. f \in [Requests -> BOOLEAN] /\ g \in [Requests -> BOOLEAN]
    OBVIOUS
  <2>2. /\ \A q \in Requests \ {r} : g[q] = f[q]
        /\ g[r] = (row.state = "needs_review")
        /\ f[r] = (usage[r].state = "needs_review")
    BY <1>1
  <2>3. /\ (IF g[r] THEN 1 ELSE 0) = ReviewOf(row)
        /\ (IF f[r] THEN 1 ELSE 0) = ReviewOf(usage[r])
    BY <2>2 DEF ReviewOf
  <2> HIDE DEF f, g
  <2>4. CountOf(g) = CountOf(f) + (IF g[r] THEN 1 ELSE 0) - (IF f[r] THEN 1 ELSE 0)
    BY <1>2, <2>1, <2>2, CountUpdate
  <2>5. QED
    BY <2>3, <2>4 DEF f, g
<1>8. QED
  BY <1>3, <1>4, <1>5, <1>6, <1>7
(* Writing a well-formed row keeps the rows well formed and the projection *)
(* exact: the triggers add what the sums gain and subtract what they lose. *)
LEMMA WriteKeepsProjection ==
  ASSUME LedgerInv, NEW r \in Requests, NEW row \in Row, RowOK(row),
         Write(r, row), funding' = funding
  PROVE  /\ usage' \in [Requests -> Row] /\ totals' \in Totals
         /\ \A q \in Requests : RowOK(usage[q])'
         /\ ProjectionExact' /\ ChargesProjected'
<1>1. usage' = [usage EXCEPT ![r] = row] /\ UsageTrigger(usage[r], row)
  BY DEF Write
<1>2. TypeOK /\ usage[r] \in Row /\ RowOK(usage[r])
  BY DEF LedgerInv, TypeOK
<1>3. /\ usage' \in [Requests -> Row]
      /\ \A q \in Requests : RowOK(usage[q])'
  BY <1>1 DEF LedgerInv, TypeOK, RowOK
<1>4. /\ totals \in Totals /\ funding \in [Refs -> Nat]
      /\ HeldOf(row) \in Nat /\ HeldOf(usage[r]) \in Nat
      /\ ReviewOf(row) \in {0, 1} /\ ReviewOf(usage[r]) \in {0, 1}
      /\ row.cost \in Nat /\ usage[r].cost \in Nat
  BY <1>2, RowContribution DEF TypeOK
<1>5. /\ totals' \in Totals
      /\ totals'.allocated = totals.allocated
      /\ totals'.spent = totals.spent + row.cost - usage[r].cost
      /\ totals'.reserved = totals.reserved + HeldOf(row) - HeldOf(usage[r])
      /\ totals'.review = totals.review + ReviewOf(row) - ReviewOf(usage[r])
  <2> DEFINE spent == totals.spent + row.cost - usage[r].cost
             held == totals.reserved + HeldOf(row) - HeldOf(usage[r])
             review == totals.review + ReviewOf(row) - ReviewOf(usage[r])
  <2>1. spent \in Int /\ held \in Int /\ review \in Int
    BY <1>4 DEF Totals
  <2>2. totals' = [totals EXCEPT !.spent = spent, !.reserved = held,
                                 !.review = review]
    BY <1>1 DEF UsageTrigger
  <2> HIDE DEF spent, held, review
  <2>3. /\ totals' \in Totals /\ totals'.allocated = totals.allocated
        /\ totals'.spent = spent /\ totals'.reserved = held
        /\ totals'.review = review
    BY <1>4, <2>1, <2>2 DEF Totals
  <2>4. QED
    BY <2>3 DEF spent, held, review
<1>6. /\ SumOf([q \in Requests |-> usage'[q].cost])
           = SumOf([q \in Requests |-> usage[q].cost]) + row.cost - usage[r].cost
      /\ SumOf([q \in Requests |-> HeldOf(usage'[q])])
           = SumOf([q \in Requests |-> HeldOf(usage[q])])
               + HeldOf(row) - HeldOf(usage[r])
      /\ Charged' = Charged + ChargeOf(row) - ChargeOf(usage[r])
      /\ CountOf([q \in Requests |-> usage'[q].state = "needs_review"])
           = CountOf([q \in Requests |-> usage[q].state = "needs_review"])
               + ReviewOf(row) - ReviewOf(usage[r])
  BY <1>1, <1>2, WriteSums
<1>7. ProjectionExact'
  BY <1>5, <1>6 DEF LedgerInv, ProjectionExact
<1>8. ChargesProjected'
  <2>1. /\ ChargeOf(row) = row.cost + HeldOf(row)
        /\ ChargeOf(usage[r]) = usage[r].cost + HeldOf(usage[r])
    BY <1>2, <1>4 DEF RowOK, Row, States, ChargeOf, HeldOf, Pending
  <2>2. Charged = totals.spent + totals.reserved
    BY DEF LedgerInv, ChargesProjected
  <2>3. totals.spent \in Int /\ totals.reserved \in Int
    BY <1>4 DEF Totals
  <2>4. QED
    BY <1>4, <1>5, <1>6, <2>1, <2>2, <2>3 DEF ChargesProjected
<1>9. QED
  BY <1>3, <1>5, <1>7, <1>8

-----------------------------------------------------------------------------

(* An empty ledger satisfies the invariant.                                *)
LEMMA InitInv == Init => LedgerInv
<1> SUFFICES ASSUME Init PROVE LedgerInv
  OBVIOUS
<1>1. /\ funding = [f \in Refs |-> 0]
      /\ usage = [r \in Requests |-> NoRow]
      /\ totals = [allocated |-> 0, spent |-> 0, reserved |-> 0, review |-> 0]
  BY DEF Init
<1>2. NoRow \in Row
  BY DEF NoRow, Row, States, Pending
<1>3. TypeOK
  BY <1>1, <1>2, QuantityAssumption DEF Init, TypeOK, Totals
<1>4. \A r \in Requests : RowOK(usage[r])
  BY <1>1 DEF NoRow, RowOK
<1>5. SumOf(funding) = 0
  <2>1. funding \in [Refs -> Nat] /\ \A f \in Refs : funding[f] = 0
    BY <1>1
  <2>2. QED
    BY <2>1, SumZero
<1>6. ASSUME NEW f \in [Requests -> Nat], \A r \in Requests : f[r] = 0
      PROVE  SumOf(f) = 0
  BY <1>6, SumZero
<1>7. /\ SumOf([r \in Requests |-> usage[r].cost]) = 0
      /\ SumOf([r \in Requests |-> HeldOf(usage[r])]) = 0
      /\ Charged = 0 /\ Excess = 0
  <2>1. \A r \in Requests : /\ usage[r].cost = 0 /\ HeldOf(usage[r]) = 0
                            /\ ChargeOf(usage[r]) = 0 /\ ExcessOf(usage[r]) = 0
    BY <1>1 DEF NoRow, HeldOf, ChargeOf, ExcessOf, Pending
  <2>2. QED
    BY <1>6, <2>1 DEF Charged, Excess
<1>8. CountOf([r \in Requests |-> usage[r].state = "needs_review"]) = 0
  <2>1. {r \in Requests : usage[r].state = "needs_review"} = {}
    BY <1>1 DEF NoRow
  <2>2. QED
    BY <2>1, FS_EmptySet DEF CountOf
<1>9. QED
  BY <1>1, <1>3, <1>4, <1>5, <1>7, <1>8
  DEF LedgerInv, ProjectionExact, ChargesProjected, OverrunOnlyFromBilling, Funded

(* Whatever its clock reads, a reservation writes its own row only.        *)
LEMMA ReserveWrites ==
  ASSUME NEW r, NEW k, NEW i, NEW tokens, NEW lim, NEW observed,
         Reserve(r, k, i, tokens, lim, observed)
  PROVE  /\ usage[r].state = "absent"
         /\ \E row : usage' = [usage EXCEPT ![r] = row]
         /\ UNCHANGED <<funding, revoked, policy, startup, now>>
<1>1. PICK stamp \in Instants, read \in Instants :
        Admit(r, k, i, tokens, lim, observed, stamp, read)
  BY DEF Reserve
<1>2. QED
  BY <1>1 DEF Admit, Exists, Write

(* A reservation enters its hold; the admission checks make room for it.   *)
LEMMA ReserveKeeps ==
  ASSUME LedgerInv, NEW r \in Requests, NEW k \in Keys, NEW i \in Idems,
         NEW tokens \in TokenSizes, NEW lim \in LimitSets,
         NEW observed \in Observed \ {NoValue},
         Reserve(r, k, i, tokens, lim, observed)
  PROVE  LedgerInv' /\ Charged' <= Funded'
<1>0. PICK stamp \in Instants, read \in Instants :
        Admit(r, k, i, tokens, lim, observed, stamp, read)
  BY DEF Reserve
<1> DEFINE amount == tokens * lim.rate
           row == [NoRow EXCEPT !.state = "reserved", !.key = k, !.idem = i,
                     !.tokens = tokens, !.amount = amount,
                     !.created = stamp, !.admitted = now]
<1>1. tokens \in Nat /\ lim.rate \in Nat
  BY QuantityAssumption, LimitAssumption
<1>2. amount \in Nat
  BY <1>1
<1>3. /\ usage[r].state = "absent" /\ Write(r, row) /\ amount <= Available
      /\ UNCHANGED <<funding, revoked, policy, startup, now>>
  BY <1>0 DEF Admit, Exists, Admissible, FitsFunds
<1> HIDE DEF amount
<1>4. /\ TypeOK /\ usage[r] \in Row /\ RowOK(usage[r])
      /\ now \in Nat /\ stamp \in Nat
  BY DEF LedgerInv, TypeOK, Instants
<1>5. row \in Row
  BY <1>1, <1>2, <1>4 DEF NoRow, Row, States, Pending
<1>6. RowOK(row) /\ ChargeOf(row) = amount /\ ExcessOf(row) = 0
  BY DEF NoRow, RowOK, ChargeOf, ExcessOf, Pending
<1> HIDE DEF row
<1>7. /\ usage' \in [Requests -> Row] /\ totals' \in Totals
      /\ \A q \in Requests : RowOK(usage[q])'
      /\ ProjectionExact' /\ ChargesProjected'
  BY <1>3, <1>5, <1>6, WriteKeepsProjection
<1>8. TypeOK'
  BY <1>3, <1>4, <1>7 DEF TypeOK
<1>9. ChargeOf(usage[r]) = 0 /\ ExcessOf(usage[r]) = 0
  BY <1>3, <1>4 DEF RowOK, ChargeOf, ExcessOf, Pending
<1>10. Charged' = Charged + amount /\ Excess' = Excess
  <2>1. usage' = [usage EXCEPT ![r] = row]
    BY <1>3 DEF Write
  <2>2. /\ Charged' = Charged + ChargeOf(row) - ChargeOf(usage[r])
        /\ Excess' = Excess + ExcessOf(row) - ExcessOf(usage[r])
    BY <1>4, <1>5, <2>1, WriteSums
  <2>3. QED
    BY <1>2, <1>4, <1>6, <1>9, <2>2, SumTypes
<1>11. amount > 0 \/ amount = 0
  BY <1>2
<1>12. /\ totals.allocated = Funded
       /\ Charged = totals.spent + totals.reserved
       /\ totals.spent \in Int /\ totals.reserved \in Int
       /\ totals.allocated \in Int
  BY <1>4 DEF LedgerInv, TypeOK, Totals, ProjectionExact, ChargesProjected, Funded
<1>13. amount > 0
  BY <1>1, QuantityAssumption, LimitAssumption DEF amount
<1>14. amount <= Funded - Charged
  BY <1>2, <1>3, <1>12, <1>13 DEF Available
<1>15. Funded' = Funded
  BY <1>3 DEF Funded
<1>16. Funded \in Nat /\ Charged \in Nat /\ Excess \in Nat
  BY <1>4, SumTypes
<1>17. Charged' <= Funded' /\ OverrunOnlyFromBilling'
  BY <1>2, <1>10, <1>14, <1>15, <1>16 DEF OverrunOnlyFromBilling
<1>18. QED
  BY <1>7, <1>8, <1>17 DEF LedgerInv
(* A settlement releases its hold and charges its cost; what it charges    *)
(* beyond the hold is counted as excess.                                   *)
LEMMA SettleKeeps ==
  ASSUME LedgerInv, NEW r \in Requests, NEW used \in UsedTokens,
         NEW cost \in Costs, NEW evidence \in BOOLEAN,
         Settle(r, used, cost, evidence)
  PROVE  LedgerInv'
<1> DEFINE row == [usage[r] EXCEPT !.state = "settled", !.used = used,
                     !.cost = cost, !.evidence = evidence]
<1>1. /\ usage[r].state \in Pending /\ Write(r, row)
      /\ UNCHANGED <<funding, revoked, policy, startup, now>>
  BY DEF Settle
<1>2. TypeOK /\ usage[r] \in Row /\ RowOK(usage[r])
  BY DEF LedgerInv, TypeOK
<1>3. used \in Nat /\ cost \in Nat /\ usage[r].amount \in Nat
  BY <1>2, QuantityAssumption, RowContribution
<1>4. row \in Row
  BY <1>2, <1>3 DEF Row, States
<1>5. /\ RowOK(row) /\ ChargeOf(row) = cost
      /\ ExcessOf(row) = IF cost > usage[r].amount THEN cost - usage[r].amount ELSE 0
  BY <1>2 DEF Row, RowOK, ChargeOf, ExcessOf, Pending
<1> HIDE DEF row
<1>6. /\ usage' \in [Requests -> Row] /\ totals' \in Totals
      /\ \A q \in Requests : RowOK(usage[q])'
      /\ ProjectionExact' /\ ChargesProjected'
  BY <1>1, <1>4, <1>5, WriteKeepsProjection
<1>7. TypeOK'
  BY <1>1, <1>2, <1>6 DEF TypeOK
<1>8. ChargeOf(usage[r]) = usage[r].amount /\ ExcessOf(usage[r]) = 0
  BY <1>1 DEF ChargeOf, ExcessOf, Pending
<1>9. /\ Charged' = Charged + ChargeOf(row) - ChargeOf(usage[r])
      /\ Excess' = Excess + ExcessOf(row) - ExcessOf(usage[r])
  <2>1. usage' = [usage EXCEPT ![r] = row]
    BY <1>1 DEF Write
  <2>2. QED
    BY <1>2, <1>4, <2>1, WriteSums
<1>10. Funded' = Funded /\ Funded \in Nat /\ Charged \in Nat /\ Excess \in Nat
  BY <1>1, <1>2, SumTypes DEF Funded
<1>11. Charged <= Funded + Excess
  BY DEF LedgerInv, OverrunOnlyFromBilling
<1>12. OverrunOnlyFromBilling'
  BY <1>3, <1>5, <1>8, <1>9, <1>10, <1>11 DEF OverrunOnlyFromBilling
<1>13. QED
  BY <1>6, <1>7, <1>12 DEF LedgerInv

(* A review keeps the hold and raises the review count.                    *)
LEMMA ReviewKeeps ==
  ASSUME LedgerInv, NEW r \in Requests, Review(r)
  PROVE  LedgerInv'
<1> DEFINE row == [usage[r] EXCEPT !.state = "needs_review"]
<1>1. /\ usage[r].state = "reserved" /\ Write(r, row)
      /\ UNCHANGED <<funding, revoked, policy, startup, now>>
  BY DEF Review
<1>2. TypeOK /\ usage[r] \in Row /\ RowOK(usage[r])
  BY DEF LedgerInv, TypeOK
<1>3. row \in Row
  BY <1>2 DEF Row, States, Pending
<1>4. /\ RowOK(row) /\ ChargeOf(row) = ChargeOf(usage[r])
      /\ ExcessOf(row) = 0 /\ ExcessOf(usage[r]) = 0
  BY <1>1, <1>2 DEF Row, RowOK, ChargeOf, ExcessOf, Pending
<1> HIDE DEF row
<1>5. /\ usage' \in [Requests -> Row] /\ totals' \in Totals
      /\ \A q \in Requests : RowOK(usage[q])'
      /\ ProjectionExact' /\ ChargesProjected'
  BY <1>1, <1>3, <1>4, WriteKeepsProjection
<1>6. TypeOK'
  BY <1>1, <1>2, <1>5 DEF TypeOK
<1>7. /\ Charged' = Charged + ChargeOf(row) - ChargeOf(usage[r])
      /\ Excess' = Excess + ExcessOf(row) - ExcessOf(usage[r])
  <2>1. usage' = [usage EXCEPT ![r] = row]
    BY <1>1 DEF Write
  <2>2. QED
    BY <1>2, <1>3, <2>1, WriteSums
<1>8. /\ Funded' = Funded /\ Funded \in Nat /\ Charged \in Nat /\ Excess \in Nat
      /\ ChargeOf(usage[r]) \in Nat
  BY <1>1, <1>2, SumTypes, RowContribution DEF Funded
<1>9. Charged <= Funded + Excess
  BY DEF LedgerInv, OverrunOnlyFromBilling
<1>10. OverrunOnlyFromBilling'
  BY <1>4, <1>7, <1>8, <1>9 DEF OverrunOnlyFromBilling
<1>11. QED
  BY <1>5, <1>6, <1>10 DEF LedgerInv

(* An allocation under a fresh reference adds exactly its amount.          *)
LEMMA AllocateKeeps ==
  ASSUME LedgerInv, NEW ref \in Refs, NEW amount \in Grants,
         NEW observed \in Observed, Allocate(ref, amount, observed)
  PROVE  LedgerInv'
<1>1. /\ funding[ref] = 0
      /\ funding' = [funding EXCEPT ![ref] = amount]
      /\ totals' = [totals EXCEPT !.allocated = totals.allocated + amount]
      /\ UNCHANGED <<usage, revoked, policy, startup, now>>
  BY DEF Allocate, FundingTrigger
<1>2. TypeOK /\ amount \in Nat /\ IsFiniteSet(Refs)
  BY QuantityAssumption, RowAssumption DEF LedgerInv
<1>3. funding \in [Refs -> Nat] /\ funding' \in [Refs -> Nat] /\ totals \in Totals
  BY <1>1, <1>2 DEF TypeOK
<1>4. Funded' = Funded + amount
  <2>1. /\ \A f \in Refs \ {ref} : funding'[f] = funding[f]
        /\ funding'[ref] = amount
    BY <1>1, <1>3
  <2>2. SumOf(funding') = SumOf(funding) + funding'[ref] - funding[ref]
    BY <1>2, <1>3, <2>1, SumUpdate
  <2>3. SumOf(funding) \in Nat
    BY <1>2, <1>3, SumType
  <2>4. QED
    BY <1>1, <1>2, <2>1, <2>2, <2>3 DEF Funded
<1>5. /\ totals' \in Totals /\ totals'.allocated = totals.allocated + amount
      /\ totals'.spent = totals.spent /\ totals'.reserved = totals.reserved
      /\ totals'.review = totals.review
  <2>1. totals.allocated + amount \in Int
    BY <1>2, <1>3 DEF Totals
  <2>2. QED
    BY <1>1, <1>3, <2>1 DEF Totals
<1>6. TypeOK' /\ \A r \in Requests : RowOK(usage[r])'
  BY <1>1, <1>2, <1>3, <1>5 DEF LedgerInv, TypeOK, RowOK
<1>7. Charged' = Charged /\ Excess' = Excess
  BY <1>1 DEF Charged, Excess
<1>8. Funded \in Nat /\ Charged \in Nat /\ Excess \in Nat
  BY <1>2, SumTypes
<1>9. ProjectionExact'
  BY <1>1, <1>4, <1>5 DEF LedgerInv, ProjectionExact, Funded
<1>10. ChargesProjected' /\ OverrunOnlyFromBilling'
  BY <1>2, <1>4, <1>5, <1>7, <1>8
  DEF LedgerInv, ChargesProjected, OverrunOnlyFromBilling
<1>11. QED
  BY <1>6, <1>9, <1>10 DEF LedgerInv

(* A step that writes no row and no funding keeps the invariant.           *)
LEMMA QuietKeeps ==
  ASSUME LedgerInv, TypeOK', UNCHANGED <<funding, usage, totals>>
  PROVE  LedgerInv'
<1>1. UNCHANGED <<Funded, Charged, Excess>>
  BY DEF Funded, Charged, Excess
<1>2. QED
  BY <1>1 DEF LedgerInv, RowOK, ProjectionExact, ChargesProjected,
              OverrunOnlyFromBilling

(* Every step keeps the invariant.                                         *)
LEMMA NextInv == LedgerInv /\ [Next]_vars => LedgerInv'
<1> SUFFICES ASSUME LedgerInv, [Next]_vars PROVE LedgerInv'
  OBVIOUS
<1>1. CASE AllocateAny
  BY <1>1, AllocateKeeps DEF AllocateAny
<1>2. ASSUME NEW r \in Requests, ReserveAny(r) PROVE LedgerInv'
  BY <1>2, ReserveKeeps DEF ReserveAny
<1>3. ASSUME NEW r \in Requests, SettleAny(r) PROVE LedgerInv'
  BY <1>3, SettleKeeps DEF SettleAny
<1>4. ASSUME NEW r \in Requests, Review(r) PROVE LedgerInv'
  BY <1>4, ReviewKeeps
<1>5. ASSUME NEW k \in Keys, Revoke(k) PROVE LedgerInv'
  <2>1. TypeOK' /\ UNCHANGED <<funding, usage, totals>>
    BY <1>5 DEF Revoke, LedgerInv, TypeOK
  <2>2. QED
    BY <2>1, QuietKeeps
<1>6. CASE SetPolicyAny
  <2>1. TypeOK' /\ UNCHANGED <<funding, usage, totals>>
    BY <1>6 DEF SetPolicyAny, SetPolicy, LedgerInv, TypeOK
  <2>2. QED
    BY <2>1, QuietKeeps
<1>7. CASE Restart
  <2>1. TypeOK' /\ UNCHANGED <<funding, usage, totals>>
    BY <1>7 DEF Restart, LedgerInv, TypeOK
  <2>2. QED
    BY <2>1, QuietKeeps
<1>8. CASE Tick
  <2>1. TypeOK' /\ UNCHANGED <<funding, usage, totals>>
    BY <1>8 DEF Tick, LedgerInv, TypeOK
  <2>2. QED
    BY <2>1, QuietKeeps
<1>9. CASE UNCHANGED vars
  <2>1. TypeOK' /\ UNCHANGED <<funding, usage, totals>>
    BY <1>9 DEF vars, LedgerInv, TypeOK
  <2>2. QED
    BY <2>1, QuietKeeps
<1>10. QED
  BY <1>1, <1>2, <1>3, <1>4, <1>5, <1>6, <1>7, <1>8, <1>9 DEF Next

(* The inductive invariant holds in every reachable state.                 *)
THEOREM LedgerInvariance == Spec => []LedgerInv
BY InitInv, NextInv, PTL DEF Spec

(* The ledger's state is well typed for every size of the system: amounts, *)
(* costs and tokens stay naturals and rows keep a known state              *)
(* (membership.py allocate, _admit, settle, review).                       *)
THEOREM LedgerTyped == Spec => []TypeOK
<1>1. LedgerInv => TypeOK
  BY DEF LedgerInv
<1>2. QED
  BY <1>1, LedgerInvariance, PTL

(* The trigger-maintained totals always equal the sums over the rows       *)
(* (ledger_totals.py).                                                     *)
THEOREM ProjectionIsExact == Spec => []ProjectionExact
<1>1. LedgerInv => ProjectionExact
  BY DEF LedgerInv
<1>2. QED
  BY <1>1, LedgerInvariance, PTL

(* The pool is never overspent by more than what settlements charged       *)
(* beyond their holds (membership.py _admit, settle).                      *)
THEOREM PoolNotOversold == Spec => []OverrunOnlyFromBilling
<1>1. LedgerInv => OverrunOnlyFromBilling
  BY DEF LedgerInv
<1>2. QED
  BY <1>1, LedgerInvariance, PTL
-----------------------------------------------------------------------------

(* Only a reservation brings a row into existence.                         *)
LEMMA OnlyReserveAdmits ==
  ASSUME TypeOK, [Next]_vars, Admits
  PROVE  \E r \in Requests : ReserveAny(r)
<1>1. PICK q \in Requests : usage[q].state = "absent" /\ usage'[q].state # "absent"
  BY DEF Admits, Exists
<1>2. usage' # usage
  BY <1>1
<1>3. ASSUME NEW r \in Requests, SettleAny(r) PROVE FALSE
  <2>1. PICK row : /\ usage[r].state \in Pending
                   /\ usage' = [usage EXCEPT ![r] = row]
    BY <1>3 DEF SettleAny, Settle, Write
  <2>2. q # r
    BY <1>1, <2>1 DEF Pending
  <2>3. QED
    BY <1>1, <2>1, <2>2 DEF TypeOK
<1>4. ASSUME NEW r \in Requests, Review(r) PROVE FALSE
  <2>1. PICK row : /\ usage[r].state = "reserved"
                   /\ usage' = [usage EXCEPT ![r] = row]
    BY <1>4 DEF Review, Write
  <2>2. q # r
    BY <1>1, <2>1
  <2>3. QED
    BY <1>1, <2>1, <2>2 DEF TypeOK
<1>5. QED
  BY <1>2, <1>3, <1>4 DEF Next, vars, AllocateAny, Allocate, Revoke,
     SetPolicyAny, SetPolicy, Restart, Tick

(* Whatever ran before it, an admission fits into what the operator        *)
(* allocated, earlier overruns included (membership.py _admit).            *)
THEOREM AdmissionsAreCovered == Spec => AdmissionCovered
<1>1. LedgerInv /\ [Next]_vars => [Admits => Charged' <= Funded']_vars
  <2> SUFFICES ASSUME LedgerInv, [Next]_vars, Admits PROVE Charged' <= Funded'
    OBVIOUS
  <2>1. PICK r \in Requests : ReserveAny(r)
    BY OnlyReserveAdmits DEF LedgerInv
  <2>2. QED
    BY <2>1, ReserveKeeps DEF ReserveAny
<1>2. QED
  BY <1>1, LedgerInvariance, PTL DEF Spec, AdmissionCovered

(* A settled row never changes again and a reviewed row only settles with  *)
(* evidence (membership.py settle, review).                                *)
THEOREM SettlementsAreFinal == Spec => SettlementFinal
<1> DEFINE Final ==
      \A r \in Requests :
        /\ usage[r].state = "settled" => usage'[r] = usage[r]
        /\ usage[r].state = "needs_review" =>
             \/ usage'[r] = usage[r]
             \/ usage'[r].state = "settled" /\ usage'[r].evidence
<1>1. TypeOK /\ [Next]_vars => Final
  <2> SUFFICES ASSUME TypeOK, [Next]_vars, NEW q \in Requests
               PROVE  /\ usage[q].state = "settled" => usage'[q] = usage[q]
                      /\ usage[q].state = "needs_review" =>
                           \/ usage'[q] = usage[q]
                           \/ usage'[q].state = "settled" /\ usage'[q].evidence
    OBVIOUS
  <2>1. CASE usage' = usage
    BY <2>1
  <2>2. ASSUME NEW r \in Requests, ReserveAny(r)
        PROVE  usage[q].state # "absent" => usage'[q] = usage[q]
    <3>1. PICK row : usage[r].state = "absent" /\ usage' = [usage EXCEPT ![r] = row]
      BY <2>2, ReserveWrites DEF ReserveAny
    <3>2. QED
      BY <3>1 DEF TypeOK
  <2>3. ASSUME NEW r \in Requests, SettleAny(r)
        PROVE  \/ usage'[q] = usage[q]
               \/ /\ usage[q].state \in Pending /\ usage'[q].state = "settled"
                  /\ usage[q].state = "needs_review" => usage'[q].evidence
    <3>1. PICK used \in UsedTokens, cost \in Costs, evidence \in BOOLEAN :
            /\ usage[r].state \in Pending
            /\ usage[r].state = "needs_review" => evidence
            /\ usage' = [usage EXCEPT ![r] =
                 [usage[r] EXCEPT !.state = "settled", !.used = used,
                                  !.cost = cost, !.evidence = evidence]]
      BY <2>3 DEF SettleAny, Settle, Write
    <3>2. usage[r] \in Row
      BY DEF TypeOK
    <3>3. CASE q = r
      BY <3>1, <3>2, <3>3 DEF TypeOK, Row
    <3>4. CASE q # r
      BY <3>1, <3>4 DEF TypeOK
    <3>5. QED
      BY <3>3, <3>4
  <2>4. ASSUME NEW r \in Requests, Review(r)
        PROVE  usage[q].state # "reserved" => usage'[q] = usage[q]
    <3>1. PICK row : usage[r].state = "reserved" /\ usage' = [usage EXCEPT ![r] = row]
      BY <2>4 DEF Review, Write
    <3>2. QED
      BY <3>1 DEF TypeOK
  <2>5. QED
    BY <2>1, <2>2, <2>3, <2>4 DEF Next, vars, AllocateAny, Allocate, Revoke,
       SetPolicyAny, SetPolicy, Restart, Tick, Pending
<1>2. TypeOK /\ [Next]_vars => [Final]_vars
  BY <1>1
<1>3. QED
  BY <1>2, LedgerTyped, PTL DEF Spec, SettlementFinal

(* A settlement or a review rewrites a pending row and keeps what its      *)
(* reservation wrote.                                                      *)
LEMMA SettleWrites ==
  ASSUME TypeOK, NEW r \in Requests, SettleAny(r) \/ Review(r)
  PROVE  \E row \in Row :
           /\ usage[r].state \in Pending /\ usage' = [usage EXCEPT ![r] = row]
           /\ row.state = "settled" \/ row.state = "needs_review"
           /\ row.key = usage[r].key /\ row.idem = usage[r].idem
           /\ row.tokens = usage[r].tokens
           /\ row.created = usage[r].created /\ row.admitted = usage[r].admitted
<1>1. usage[r] \in Row
  BY DEF TypeOK
<1>2. CASE SettleAny(r)
  <2>1. PICK used \in UsedTokens, cost \in Costs, evidence \in BOOLEAN :
          Settle(r, used, cost, evidence)
    BY <1>2 DEF SettleAny
  <2> DEFINE row == [usage[r] EXCEPT !.state = "settled", !.used = used,
                       !.cost = cost, !.evidence = evidence]
  <2>2. used \in Nat /\ cost \in Nat
    BY QuantityAssumption
  <2>3. row \in Row
    BY <1>1, <2>2 DEF Row, States
  <2>4. /\ usage[r].state \in Pending /\ usage' = [usage EXCEPT ![r] = row]
        /\ row.state = "settled"
        /\ row.key = usage[r].key /\ row.idem = usage[r].idem
        /\ row.tokens = usage[r].tokens
        /\ row.created = usage[r].created /\ row.admitted = usage[r].admitted
    BY <1>1, <2>1 DEF Settle, Write, Row
  <2>5. QED
    BY <2>3, <2>4
<1>3. CASE Review(r)
  <2> DEFINE row == [usage[r] EXCEPT !.state = "needs_review"]
  <2>1. row \in Row
    BY <1>1 DEF Row, States, Pending
  <2>2. /\ usage[r].state \in Pending /\ usage' = [usage EXCEPT ![r] = row]
        /\ row.state = "needs_review"
        /\ row.key = usage[r].key /\ row.idem = usage[r].idem
        /\ row.tokens = usage[r].tokens
        /\ row.created = usage[r].created /\ row.admitted = usage[r].admitted
    BY <1>1, <1>3 DEF Review, Write, Row, Pending
  <2>3. QED
    BY <2>1, <2>2
<1>4. QED
  BY <1>2, <1>3

(* No two rows share a key and an Idempotency-Key, so a retry never creates *)
(* a second charge (membership.py _admit, UNIQUE(key_id,idem)).            *)
THEOREM OneChargePerIdempotencyKey == Spec => []OneChargePerIdem
<1>1. Init => OneChargePerIdem
  BY DEF Init, OneChargePerIdem, Exists, NoRow
<1>2. TypeOK /\ OneChargePerIdem /\ [Next]_vars => OneChargePerIdem'
  <2> SUFFICES ASSUME TypeOK, OneChargePerIdem, [Next]_vars PROVE OneChargePerIdem'
    OBVIOUS
  <2>1. CASE usage' = usage
    BY <2>1 DEF OneChargePerIdem, Exists
  <2>2. ASSUME NEW r \in Requests, ReserveAny(r) PROVE OneChargePerIdem'
    <3>1. PICK row :
            /\ ~Duplicate(row.key, row.idem)
            /\ usage[r].state = "absent"
            /\ usage' = [usage EXCEPT ![r] = row]
      <4>1. PICK k \in Keys, i \in Idems, tokens \in TokenSizes,
                 lim \in LimitSets, observed \in Observed \ {NoValue} :
              Reserve(r, k, i, tokens, lim, observed)
        BY <2>2 DEF ReserveAny
      <4>5. PICK stamp \in Instants, read \in Instants :
              Admit(r, k, i, tokens, lim, observed, stamp, read)
        BY <4>1 DEF Reserve
      <4> DEFINE row == [NoRow EXCEPT !.state = "reserved", !.key = k, !.idem = i,
                           !.tokens = tokens, !.amount = tokens * lim.rate,
                           !.created = stamp, !.admitted = now]
      <4>2. row.key = k /\ row.idem = i
        BY DEF NoRow
      <4>3. /\ ~Duplicate(k, i) /\ usage[r].state = "absent"
            /\ usage' = [usage EXCEPT ![r] = row]
        BY <4>5 DEF Admit, Admissible, Exists, Write
      <4>4. QED
        BY <4>2, <4>3
    <3>2. /\ usage'[r] = row
          /\ \A q \in Requests \ {r} : usage'[q] = usage[q]
      BY <3>1 DEF TypeOK
    <3>3. QED
      BY <3>1, <3>2 DEF OneChargePerIdem, Duplicate, Exists
  <2>3. ASSUME NEW r \in Requests, SettleAny(r) \/ Review(r)
        PROVE  OneChargePerIdem'
    <3>1. /\ usage[r].state # "absent"
          /\ usage'[r].key = usage[r].key /\ usage'[r].idem = usage[r].idem
          /\ \A q \in Requests \ {r} : usage'[q] = usage[q]
      BY <2>3, SettleWrites DEF TypeOK, Pending
    <3>2. QED
      BY <3>1 DEF OneChargePerIdem, Exists
  <2>4. QED
    BY <2>1, <2>2, <2>3 DEF Next, vars, AllocateAny, Allocate, Revoke,
       SetPolicyAny, SetPolicy, Restart, Tick
<1>3. QED
  BY <1>1, <1>2, LedgerTyped, PTL DEF Spec

(* A row only moves on: from absent to reserved, from reserved to review,  *)
(* and from either of these to settled.                                    *)
LEMMA RowMoves ==
  ASSUME TypeOK, [Next]_vars, NEW q \in Requests
  PROVE  \/ usage'[q] = usage[q]
         \/ usage[q].state = "absent" /\ usage'[q].state = "reserved"
         \/ usage[q].state = "reserved" /\ usage'[q].state = "needs_review"
         \/ usage[q].state \in Pending /\ usage'[q].state = "settled"
<1>1. ASSUME NEW r \in Requests, ReserveAny(r)
      PROVE  \/ usage'[q] = usage[q]
             \/ usage[q].state = "absent" /\ usage'[q].state = "reserved"
  BY <1>1 DEF ReserveAny, Reserve, Admit, Exists, Write, TypeOK, NoRow
<1>2. ASSUME NEW r \in Requests, SettleAny(r)
      PROVE  \/ usage'[q] = usage[q]
             \/ usage[q].state \in Pending /\ usage'[q].state = "settled"
  BY <1>2 DEF SettleAny, Settle, Write, TypeOK, Row
<1>3. ASSUME NEW r \in Requests, Review(r)
      PROVE  \/ usage'[q] = usage[q]
             \/ usage[q].state = "reserved" /\ usage'[q].state = "needs_review"
  BY <1>3 DEF Review, Write, TypeOK, Row
<1>4. QED
  BY <1>1, <1>2, <1>3 DEF Next, vars, AllocateAny, Allocate, Revoke,
     SetPolicyAny, SetPolicy, Restart, Tick

(* Only a restart changes the startup snapshot, and it writes no row.      *)
LEMMA StartupMoves ==
  ASSUME [Next]_vars
  PROVE  \/ startup' = startup
         \/ /\ usage' = usage
            /\ startup' = {r \in Requests : usage[r].state = "reserved"}
<1>1. ASSUME NEW r \in Requests, ReserveAny(r) \/ SettleAny(r) \/ Review(r)
      PROVE  startup' = startup
  BY <1>1 DEF ReserveAny, Reserve, Admit, SettleAny, Settle, Review
<1>2. QED
  BY <1>1 DEF Next, vars, AllocateAny, Allocate, Revoke, SetPolicyAny,
     SetPolicy, Restart, Tick

(* An uncertain row is seen by the admission check, through the projected  *)
(* review count or through the startup snapshot.                           *)
LEMMA UncertainIsSeen ==
  ASSUME TypeOK, ProjectionExact, NEW q \in Requests, UncertainRow(q)
  PROVE  ReconciliationRequired
<1>1. CASE usage[q].state = "needs_review"
  <2> DEFINE reviewed == [r \in Requests |-> usage[r].state = "needs_review"]
  <2>1. reviewed \in [Requests -> BOOLEAN] /\ reviewed[q]
    BY <1>1
  <2>2. totals.review = CountOf(reviewed)
    BY DEF ProjectionExact
  <2> HIDE DEF reviewed
  <2>3. CountOf(reviewed) > 0
    BY <2>1, CountPositive, RowAssumption
  <2>4. QED
    BY <2>2, <2>3 DEF ReconciliationRequired
<1>2. CASE q \in startup /\ usage[q].state = "reserved"
  BY <1>2 DEF ReconciliationRequired, StartupPending
<1>3. QED
  BY <1>1, <1>2 DEF UncertainRow

(* No request is admitted while any charge is uncertain, and the only way  *)
(* out of uncertainty is to settle that row (membership.py pool, store.py  *)
(* startup_reservations_pending).                                          *)
THEOREM UncertaintyPauses == Spec => PausedWhileUncertain
<1> DEFINE Paused ==
      \A r \in Requests : UncertainRow(r) =>
        /\ ~Admits
        /\ UncertainRow(r)' \/ usage'[r].state = "settled"
<1>1. LedgerInv /\ [Next]_vars => Paused
  <2> SUFFICES ASSUME LedgerInv, [Next]_vars, NEW q \in Requests, UncertainRow(q)
               PROVE  ~Admits /\ (UncertainRow(q)' \/ usage'[q].state = "settled")
    OBVIOUS
  <2>1. TypeOK /\ ProjectionExact
    BY DEF LedgerInv
  <2>2. ReconciliationRequired
    BY <2>1, UncertainIsSeen
  <2>3. ~Admits
    <3>1. SUFFICES ASSUME Admits PROVE FALSE
      OBVIOUS
    <3>2. PICK r \in Requests : ReserveAny(r)
      BY <2>1, <3>1, OnlyReserveAdmits
    <3>3. QED
      BY <2>2, <3>2 DEF ReserveAny, Reserve, Admit, Admissible
  <2>4. ASSUME usage'[q] = usage[q]
        PROVE  UncertainRow(q)'
    <3>1. \/ startup' = startup
          \/ startup' = {r \in Requests : usage[r].state = "reserved"}
      BY StartupMoves
    <3>2. QED
      BY <2>4, <3>1 DEF UncertainRow
  <2>5. ASSUME usage'[q] # usage[q]
        PROVE  UncertainRow(q)' \/ usage'[q].state = "settled"
    <3>1. usage[q].state \in Pending
      BY DEF UncertainRow, Pending
    <3>2. \/ usage'[q].state = "needs_review"
          \/ usage'[q].state = "settled"
      BY <2>1, <2>5, <3>1, RowMoves DEF Pending
    <3>3. QED
      BY <3>2 DEF UncertainRow
  <2>6. QED
    BY <2>3, <2>4, <2>5
<1>2. LedgerInv /\ [Next]_vars => [Paused]_vars
  BY <1>1
<1>3. QED
  BY <1>2, LedgerInvariance, PTL DEF Spec, PausedWhileUncertain
-----------------------------------------------------------------------------

(* The rows of a finite table that a wallet has in flight are finite.      *)
LEMMA ActiveFinite ==
  ASSUME NEW ws
  PROVE  IsFiniteSet(Active(ws)) /\ Cardinality(Active(ws)) \in Nat
<1>1. Active(ws) \in SUBSET Requests
  BY DEF Active, RowsOf
<1>2. IsFiniteSet(Active(ws))
  BY <1>1, RowAssumption, FS_Subset
<1>3. QED
  BY <1>2, FS_CardinalityType

(* A step that admits nothing puts nothing in flight.                      *)
LEMMA QuietActive ==
  ASSUME TypeOK, [Next]_vars, ~Admits, NEW ws
  PROVE  Active(ws)' \subseteq Active(ws)
<1> SUFFICES ASSUME NEW q \in Requests, q \in Active(ws)'
             PROVE  q \in Active(ws)
  BY DEF Active, RowsOf
<1>1. usage'[q].state = "reserved" /\ WalletOf[usage'[q].key] \in ws
  BY DEF Active, RowsOf, Owner
<1>2. usage'[q] = usage[q]
  BY <1>1, RowMoves DEF Admits, Exists, Pending
<1>3. QED
  BY <1>1, <1>2 DEF Active, RowsOf, Exists, Owner

(* A reservation puts its own row in flight, for its key's wallet.         *)
LEMMA ReserveActive ==
  ASSUME TypeOK, NEW r \in Requests, NEW k \in Keys, NEW i \in Idems,
         NEW tokens \in TokenSizes, NEW lim \in LimitSets,
         NEW observed \in Observed \ {NoValue},
         Reserve(r, k, i, tokens, lim, observed), NEW ws
  PROVE  /\ Active(ws)' \subseteq Active(ws) \cup {r}
         /\ WalletOf[k] \notin ws => Active(ws)' \subseteq Active(ws)
<1>0. PICK stamp \in Instants, read \in Instants :
        Admit(r, k, i, tokens, lim, observed, stamp, read)
  BY DEF Reserve
<1> DEFINE row == [NoRow EXCEPT !.state = "reserved", !.key = k, !.idem = i,
                     !.tokens = tokens, !.amount = tokens * lim.rate,
                     !.created = stamp, !.admitted = now]
<1>1. usage' = [usage EXCEPT ![r] = row]
  BY <1>0 DEF Admit, Write
<1>2. usage'[r].key = k /\ \A q \in Requests \ {r} : usage'[q] = usage[q]
  BY <1>1 DEF TypeOK, NoRow
<1>3. QED
  BY <1>2 DEF Active, RowsOf, Exists, Owner

(* A set that gained one element at most holds one more at most.           *)
LEMMA OneMore ==
  ASSUME NEW S, NEW T, NEW x, IsFiniteSet(S), T \subseteq S \cup {x}
  PROVE  Cardinality(T) \in Nat /\ Cardinality(T) <= Cardinality(S) + 1
<1>1. IsFiniteSet({x}) /\ Cardinality({x}) = 1
  BY FS_Singleton
<1>2. /\ IsFiniteSet(S \cup {x})
      /\ Cardinality(S \cup {x})
           = Cardinality(S) + Cardinality({x}) - Cardinality(S \cap {x})
  BY <1>1, FS_Union
<1>3. IsFiniteSet(T) /\ Cardinality(T) <= Cardinality(S \cup {x})
  BY <1>2, FS_Subset
<1>4. IsFiniteSet(S \cap {x})
  <2>1. S \cap {x} \in SUBSET S
    OBVIOUS
  <2>2. QED
    BY <2>1, FS_Subset
<1>5. /\ Cardinality(S) \in Nat /\ Cardinality(S \cap {x}) \in Nat
      /\ Cardinality(T) \in Nat /\ Cardinality(S \cup {x}) \in Nat
  BY <1>2, <1>3, <1>4, FS_CardinalityType
<1>6. QED
  BY <1>1, <1>2, <1>3, <1>5

(* However many calls run at once and whatever limits each of them reads,  *)
(* the rows in flight stay within a configured concurrency, per wallet and *)
(* over all wallets (membership.py _admit).                                *)
THEOREM ConcurrencyIsCapped == Spec => []ConcurrencyCapped
<1>1. Init => ConcurrencyCapped
  <2> SUFFICES ASSUME Init PROVE ConcurrencyCapped
    OBVIOUS
  <2>1. \A ws : Active(ws) = {}
    BY DEF Init, NoRow, Active, RowsOf, Exists
  <2>2. Cardinality({}) = 0
    BY FS_EmptySet
  <2>3. PICK lim \in LimitSets : lim.concurrency \in Nat /\ lim.globalConcurrency \in Nat
    BY LimitAssumption
  <2>4. \A ws : Cardinality(Active(ws)) = 0
    BY <2>1, <2>2
  <2>5. QED
    BY <2>3, <2>4 DEF ConcurrencyCapped
<1>2. TypeOK /\ ConcurrencyCapped /\ [Next]_vars => ConcurrencyCapped'
  <2> SUFFICES ASSUME TypeOK, ConcurrencyCapped, [Next]_vars
               PROVE  ConcurrencyCapped'
    OBVIOUS
  <2>1. ASSUME NEW ws, NEW cap \in Nat, Active(ws)' \subseteq Active(ws),
               Cardinality(Active(ws)) <= cap
        PROVE  Cardinality(Active(ws)') <= cap
    <3>1. Cardinality(Active(ws)') <= Cardinality(Active(ws))
      BY <2>1, ActiveFinite, FS_Subset
    <3>2. Cardinality(Active(ws)) \in Nat /\ Cardinality(Active(ws)') \in Nat
      BY <2>1, ActiveFinite, FS_Subset, FS_CardinalityType
    <3>3. QED
      BY <2>1, <3>1, <3>2
  <2>2. \A lim \in LimitSets : lim.concurrency \in Nat /\ lim.globalConcurrency \in Nat
    BY LimitAssumption
  <2>3. CASE ~Admits
    <3>1. \A ws : Active(ws)' \subseteq Active(ws)
      BY <2>3, QuietActive
    <3>2. \A ws, cap : /\ cap \in Nat /\ Cardinality(Active(ws)) <= cap
                       => Cardinality(Active(ws)') <= cap
      BY <2>1, <3>1
    <3>3. QED
      BY <2>2, <3>2 DEF ConcurrencyCapped
  <2>4. CASE Admits
    <3>1. PICK r \in Requests : ReserveAny(r)
      BY <2>4, OnlyReserveAdmits
    <3>2. PICK k \in Keys, i \in Idems, tokens \in TokenSizes,
               lim \in LimitSets, observed \in Observed \ {NoValue} :
            Reserve(r, k, i, tokens, lim, observed)
      BY <3>1 DEF ReserveAny
    <3>3. /\ Cardinality(Active({WalletOf[k]})) < lim.concurrency
          /\ Cardinality(Active(Wallets)) < lim.globalConcurrency
      BY <3>2 DEF Reserve, Admit, Admissible, FitsRate
    <3>4. \A ws : /\ Active(ws)' \subseteq Active(ws) \cup {r}
                  /\ WalletOf[k] \notin ws => Active(ws)' \subseteq Active(ws)
      BY <3>2, ReserveActive
    <3>5. \A ws, cap :
            /\ cap \in Nat /\ Cardinality(Active(ws)) < cap
            => Cardinality(Active(ws)') <= cap
      <4> TAKE ws, cap
      <4>1. Cardinality(Active(ws)) \in Nat /\ Cardinality(Active(ws)') \in Nat
              /\ Cardinality(Active(ws)') <= Cardinality(Active(ws)) + 1
        BY <3>4, ActiveFinite, OneMore
      <4>2. QED
        BY <4>1
    <3>6. ASSUME NEW w \in Wallets
          PROVE  \E l \in LimitSets : Cardinality(Active({w})') <= l.concurrency
      <4>1. CASE w = WalletOf[k]
        BY <2>2, <3>3, <3>5, <4>1
      <4>2. CASE w # WalletOf[k]
        <5>1. Active({w})' \subseteq Active({w})
          BY <3>4, <4>2
        <5>2. PICK l \in LimitSets : Cardinality(Active({w})) <= l.concurrency
          BY DEF ConcurrencyCapped
        <5>3. Cardinality(Active({w})') <= l.concurrency
          BY <2>1, <2>2, <5>1, <5>2
        <5>4. QED
          BY <5>3
      <4>3. QED
        BY <4>1, <4>2
    <3>7. \E l \in LimitSets : Cardinality(Active(Wallets)') <= l.globalConcurrency
      BY <2>2, <3>3, <3>5
    <3>8. QED
      BY <3>6, <3>7 DEF ConcurrencyCapped
  <2>5. QED
    BY <2>3, <2>4
<1>3. QED
  BY <1>1, <1>2, LedgerTyped, PTL DEF Spec
-----------------------------------------------------------------------------
(* The daily token limits.  What a row counts for on a day, for the        *)
(* wallets ws, and what it used beyond its reservation.                    *)

OnDay(ws, day, row) ==
  row.state # "absent" /\ WalletOf[row.key] \in ws /\ DayOf(row.created) = day

DayTokens(ws, day, row) == IF OnDay(ws, day, row) THEN TokensFor(row) ELSE 0

DayBeyond(ws, day, row) == IF OnDay(ws, day, row) THEN BeyondCheck(row) ELSE 0

LEMMA DayNats ==
  ASSUME NEW row \in Row, NEW ws, NEW day
  PROVE  /\ row.tokens \in Nat /\ row.used \in Nat
         /\ row.created \in Nat /\ row.admitted \in Nat
         /\ TokensFor(row) \in Nat /\ BeyondCheck(row) \in Nat
         /\ DayTokens(ws, day, row) \in Nat /\ DayBeyond(ws, day, row) \in Nat
BY DEF Row, DayTokens, DayBeyond, TokensFor, BeyondCheck

(* The same sums over a table u of rows, whichever state it is of.         *)
RowsIn(u, ws) ==
  {r \in Requests : u[r].state # "absent" /\ WalletOf[u[r].key] \in ws}

TokensIn(u, ws, day) ==
  SumOf([r \in RowsIn(u, ws) |->
           IF DayOf(u[r].created) = day THEN TokensFor(u[r]) ELSE 0])

BeyondIn(u, ws, day) ==
  SumOf([r \in RowsIn(u, ws) |->
           IF DayOf(u[r].created) = day THEN BeyondCheck(u[r]) ELSE 0])

(* The sums over the rows of ws are sums over all rows.                    *)
LEMMA DaySums ==
  ASSUME NEW u \in [Requests -> Row], NEW ws, NEW day
  PROVE  /\ TokensIn(u, ws, day)
              = SumOf([r \in Requests |-> DayTokens(ws, day, u[r])])
         /\ BeyondIn(u, ws, day)
              = SumOf([r \in Requests |-> DayBeyond(ws, day, u[r])])
<1> DEFINE rows == RowsIn(u, ws)
           f == [r \in Requests |-> DayTokens(ws, day, u[r])]
           g == [r \in rows |-> IF DayOf(u[r].created) = day
                                THEN TokensFor(u[r]) ELSE 0]
           e == [r \in Requests |-> DayBeyond(ws, day, u[r])]
           d == [r \in rows |-> IF DayOf(u[r].created) = day
                                THEN BeyondCheck(u[r]) ELSE 0]
<1>1. \A r \in Requests : /\ u[r].tokens \in Nat /\ u[r].used \in Nat
                          /\ f[r] \in Nat /\ e[r] \in Nat
  BY DayNats
<1>2. rows \subseteq Requests /\ f \in [Requests -> Nat] /\ e \in [Requests -> Nat]
  BY <1>1 DEF RowsIn
<1>3. /\ \A r \in rows : g[r] = f[r] /\ d[r] = e[r]
      /\ \A r \in Requests \ rows : f[r] = 0 /\ e[r] = 0
  BY DEF DayTokens, DayBeyond, OnDay, RowsIn
<1>4. g \in [rows -> Nat] /\ d \in [rows -> Nat]
  BY <1>1, <1>2, <1>3
<1> HIDE DEF rows, f, g, e, d
<1>5. SumOf(g) = SumOf(f)
  BY <1>2, <1>3, <1>4, SumRestrict
<1>6. SumOf(d) = SumOf(e)
  BY <1>2, <1>3, <1>4, SumRestrict
<1>7. QED
  BY <1>5, <1>6 DEF rows, f, g, e, d, TokensIn, BeyondIn

LEMMA DayTypes ==
  ASSUME TypeOK, NEW ws, NEW day
  PROVE  TokensOn(ws, day) \in Nat /\ BeyondOn(ws, day) \in Nat
<1> DEFINE f == [r \in Requests |-> DayTokens(ws, day, usage[r])]
           e == [r \in Requests |-> DayBeyond(ws, day, usage[r])]
<1>1. f \in [Requests -> Nat] /\ e \in [Requests -> Nat]
  BY DayNats DEF TypeOK
<1>2. /\ TokensOn(ws, day) = TokensIn(usage, ws, day)
      /\ BeyondOn(ws, day) = BeyondIn(usage, ws, day)
  BY DEF TokensOn, BeyondOn, TokensIn, BeyondIn, RowsIn, RowsOf, Exists, Owner
<1>3. TokensIn(usage, ws, day) = SumOf(f) /\ BeyondIn(usage, ws, day) = SumOf(e)
  BY DaySums DEF TypeOK
<1> HIDE DEF f, e
<1>4. QED
  BY <1>1, <1>2, <1>3, SumType, RowAssumption

(* What writing one row does to a day.                                     *)
LEMMA WriteDay ==
  ASSUME TypeOK, NEW r \in Requests, NEW row \in Row, NEW ws, NEW day,
         usage' = [usage EXCEPT ![r] = row]
  PROVE  /\ TokensOn(ws, day)' = TokensOn(ws, day)
              + DayTokens(ws, day, row) - DayTokens(ws, day, usage[r])
         /\ BeyondOn(ws, day)' = BeyondOn(ws, day)
              + DayBeyond(ws, day, row) - DayBeyond(ws, day, usage[r])
<1> DEFINE f == [q \in Requests |-> DayTokens(ws, day, usage[q])]
           f2 == [q \in Requests |-> DayTokens(ws, day, usage'[q])]
           e == [q \in Requests |-> DayBeyond(ws, day, usage[q])]
           e2 == [q \in Requests |-> DayBeyond(ws, day, usage'[q])]
<1>1. usage \in [Requests -> Row] /\ usage' \in [Requests -> Row]
  BY DEF TypeOK
<1>2. /\ f \in [Requests -> Nat] /\ f2 \in [Requests -> Nat]
      /\ e \in [Requests -> Nat] /\ e2 \in [Requests -> Nat]
  BY <1>1, DayNats
<1>3. /\ \A q \in Requests \ {r} : f2[q] = f[q] /\ e2[q] = e[q]
      /\ f[r] = DayTokens(ws, day, usage[r]) /\ f2[r] = DayTokens(ws, day, row)
      /\ e[r] = DayBeyond(ws, day, usage[r]) /\ e2[r] = DayBeyond(ws, day, row)
  BY <1>1
<1>4. /\ TokensOn(ws, day) = TokensIn(usage, ws, day)
      /\ BeyondOn(ws, day) = BeyondIn(usage, ws, day)
      /\ TokensOn(ws, day)' = TokensIn(usage', ws, day)
      /\ BeyondOn(ws, day)' = BeyondIn(usage', ws, day)
  BY DEF TokensOn, BeyondOn, TokensIn, BeyondIn, RowsIn, RowsOf, Exists, Owner
<1>5. /\ TokensIn(usage, ws, day) = SumOf(f) /\ BeyondIn(usage, ws, day) = SumOf(e)
      /\ TokensIn(usage', ws, day) = SumOf(f2) /\ BeyondIn(usage', ws, day) = SumOf(e2)
  BY <1>1, DaySums
<1> HIDE DEF f, f2, e, e2
<1>6. SumOf(f2) = SumOf(f) + f2[r] - f[r]
  BY <1>2, <1>3, SumUpdate, RowAssumption
<1>7. SumOf(e2) = SumOf(e) + e2[r] - e[r]
  BY <1>2, <1>3, SumUpdate, RowAssumption
<1>8. QED
  BY <1>3, <1>4, <1>5, <1>6, <1>7

(* Days follow the clock: a time between two of one day is of that day.    *)
LEMMA DaysInOrder ==
  ASSUME NEW a \in Nat, NEW b \in Nat, NEW c \in Nat, a <= b, b <= c,
         DayOf(a) = DayOf(c)
  PROVE  DayOf(b) = DayOf(a)
BY TimeAssumption, DivMonotone DEF DayOf

(* What an admission check that reads the clock at `time` counts covers    *)
(* every token of that day.                                                *)
LEMMA TodayCovered ==
  ASSUME TypeOK, NEW ws, NEW time
  PROVE  /\ UsedToday(ws, time) \in Nat /\ HeldTokens(ws) \in Nat
         /\ TokensOn(ws, DayOf(time)) <= UsedToday(ws, time) + HeldTokens(ws)
<1> DEFINE day == DayOf(time)
           t == [r \in RowsOf(ws) |->
                   IF DayOf(usage[r].created) = day THEN TokensFor(usage[r]) ELSE 0]
           u == [r \in RowsOf(ws) |-> IF usage[r].created >= day * DayLength
                                      THEN usage[r].used ELSE 0]
           h == [r \in RowsOf(ws) |-> IF usage[r].state \in Pending
                                      THEN usage[r].tokens ELSE 0]
           s == [r \in RowsOf(ws) |-> u[r] + h[r]]
<1>1. RowsOf(ws) \in SUBSET Requests /\ IsFiniteSet(RowsOf(ws))
  <2>1. RowsOf(ws) \in SUBSET Requests
    BY DEF RowsOf
  <2>2. QED
    BY <2>1, RowAssumption, FS_Subset
<1>2. \A r \in RowsOf(ws) :
        usage[r].tokens \in Nat /\ usage[r].used \in Nat /\ usage[r].created \in Nat
  BY <1>1, DayNats DEF TypeOK
<1>3. \A r \in RowsOf(ws) :
        DayOf(usage[r].created) = day => usage[r].created >= day * DayLength
  <2> TAKE r \in RowsOf(ws)
  <2>1. usage[r].created \in Nat /\ DayLength \in Nat \ {0}
    BY <1>2, TimeAssumption
  <2>2. /\ usage[r].created \div DayLength \in Nat
        /\ (usage[r].created \div DayLength) * DayLength <= usage[r].created
    BY <2>1, DivFloor
  <2>3. QED
    BY <2>1, <2>2 DEF DayOf
<1>4. UsedToday(ws, time) = SumOf(u) /\ HeldTokens(ws) = SumOf(h)
        /\ TokensOn(ws, DayOf(time)) = SumOf(t)
  BY DEF UsedToday, HeldTokens, TokensOn
<1> HIDE DEF day
<1>5. /\ t \in [RowsOf(ws) -> Nat] /\ u \in [RowsOf(ws) -> Nat]
      /\ h \in [RowsOf(ws) -> Nat] /\ s \in [RowsOf(ws) -> Nat]
  BY <1>2 DEF TokensFor
<1>6. \A r \in RowsOf(ws) : t[r] <= s[r] /\ s[r] = u[r] + h[r]
  BY <1>2, <1>3 DEF TokensFor
<1> HIDE DEF t, u, h, s
<1>7. SumOf(s) = SumOf(u) + SumOf(h)
  BY <1>1, <1>5, <1>6, SumAdd
<1>8. SumOf(t) <= SumOf(s)
  BY <1>1, <1>5, <1>6, SumMonotone
<1>9. SumOf(u) \in Nat /\ SumOf(h) \in Nat
  BY <1>1, <1>5, SumType
<1>10. QED
  BY <1>4, <1>7, <1>8, <1>9

(* The sums of one day are within its limits.                              *)
DayWithin(day) ==
  /\ \A w \in Wallets :
       \E limit \in {lim.walletDaily : lim \in LimitSets}
                     \cup (Overrides \ {NoValue}) :
         TokensOn({w}, day) <= limit + BeyondOn({w}, day)
  /\ \E lim \in LimitSets :
       TokensOn(Wallets, day) <= lim.globalDaily + BeyondOn(Wallets, day)

(* A row whose tokens grow by no more than its excess keeps every day.     *)
LEMMA CoveredWriteKeepsDay ==
  ASSUME TypeOK, NEW r \in Requests, NEW row \in Row,
         usage' = [usage EXCEPT ![r] = row], NEW ws, NEW day, NEW limit \in Nat,
         DayTokens(ws, day, row) + DayBeyond(ws, day, usage[r])
           <= DayTokens(ws, day, usage[r]) + DayBeyond(ws, day, row),
         TokensOn(ws, day) <= limit + BeyondOn(ws, day)
  PROVE  TokensOn(ws, day)' <= limit + BeyondOn(ws, day)'
<1>1. usage[r] \in Row
  BY DEF TypeOK
<1>2. /\ DayTokens(ws, day, row) \in Nat /\ DayBeyond(ws, day, row) \in Nat
      /\ DayTokens(ws, day, usage[r]) \in Nat /\ DayBeyond(ws, day, usage[r]) \in Nat
  BY <1>1, DayNats
<1>3. TokensOn(ws, day) \in Nat /\ BeyondOn(ws, day) \in Nat
  BY DayTypes
<1>4. /\ TokensOn(ws, day)' = TokensOn(ws, day)
           + DayTokens(ws, day, row) - DayTokens(ws, day, usage[r])
      /\ BeyondOn(ws, day)' = BeyondOn(ws, day)
           + DayBeyond(ws, day, row) - DayBeyond(ws, day, usage[r])
  BY WriteDay
<1>5. QED
  BY <1>2, <1>3, <1>4

(* Every limit a day is held to is a number.                               *)
LEMMA LimitNats ==
  /\ \A limit \in {lim.walletDaily : lim \in LimitSets} \cup (Overrides \ {NoValue}) :
       limit \in Nat
  /\ \A lim \in LimitSets : lim.walletDaily \in Nat /\ lim.globalDaily \in Nat
BY LimitAssumption, QuantityAssumption

(* A write that is covered for every set of wallets keeps the day.         *)
LEMMA CoveredKeepsDayWithin ==
  ASSUME TypeOK, NEW r \in Requests, NEW row \in Row,
         usage' = [usage EXCEPT ![r] = row], NEW day, DayWithin(day),
         \A ws : DayTokens(ws, day, row) + DayBeyond(ws, day, usage[r])
                   <= DayTokens(ws, day, usage[r]) + DayBeyond(ws, day, row)
  PROVE  DayWithin(day)'
<1>1. ASSUME NEW ws, NEW limit \in Nat,
             TokensOn(ws, day) <= limit + BeyondOn(ws, day)
      PROVE  TokensOn(ws, day)' <= limit + BeyondOn(ws, day)'
  BY <1>1, CoveredWriteKeepsDay
<1>2. ASSUME NEW w \in Wallets
      PROVE  \E limit \in {lim.walletDaily : lim \in LimitSets}
                           \cup (Overrides \ {NoValue}) :
               TokensOn({w}, day)' <= limit + BeyondOn({w}, day)'
  BY <1>1, LimitNats DEF DayWithin
<1>3. \E lim \in LimitSets :
        TokensOn(Wallets, day)' <= lim.globalDaily + BeyondOn(Wallets, day)'
  BY <1>1, LimitNats DEF DayWithin
<1>4. QED
  BY <1>2, <1>3 DEF DayWithin

(* A settlement or a review is covered: what a settlement reports beyond   *)
(* its reservation is excess.                                              *)
LEMMA SettleKeepsDay ==
  ASSUME TypeOK, NEW r \in Requests, SettleAny(r) \/ Review(r),
         NEW day, DayWithin(day)
  PROVE  DayWithin(day)'
<1>1. PICK row \in Row :
        /\ usage[r].state \in Pending /\ usage' = [usage EXCEPT ![r] = row]
        /\ row.state = "settled" \/ row.state = "needs_review"
        /\ row.key = usage[r].key /\ row.tokens = usage[r].tokens
        /\ row.created = usage[r].created /\ row.admitted = usage[r].admitted
  BY SettleWrites
<1>2. usage[r] \in Row
  BY DEF TypeOK
<1>3. \A ws : DayTokens(ws, day, row) + DayBeyond(ws, day, usage[r])
                <= DayTokens(ws, day, usage[r]) + DayBeyond(ws, day, row)
  <2> TAKE ws
  <2>1. OnDay(ws, day, row) = OnDay(ws, day, usage[r])
    BY <1>1 DEF OnDay, Pending
  <2>2. /\ TokensFor(row) \in Nat /\ TokensFor(usage[r]) \in Nat
        /\ row.tokens \in Nat /\ row.used \in Nat
    BY <1>2, DayNats
  <2>3. OverMidnight(row) = OverMidnight(usage[r])
    BY <1>1 DEF OverMidnight
  <2>4. TokensFor(row) + BeyondCheck(usage[r]) <= TokensFor(usage[r]) + BeyondCheck(row)
    BY <1>1, <2>2, <2>3 DEF TokensFor, BeyondCheck, Pending
  <2>5. QED
    BY <2>1, <2>4 DEF DayTokens, DayBeyond
<1>4. QED
  BY <1>1, <1>3, CoveredKeepsDayWithin

(* A row whose tokens fit what the check counts keeps that day's limit.    *)
LEMMA AddedTokensFit ==
  ASSUME TypeOK, NEW r \in Requests, NEW row \in Row, NEW ws, NEW limit \in Nat,
         NEW time, NEW day, day = DayOf(time), NEW tokens \in Nat,
         usage' = [usage EXCEPT ![r] = row],
         DayTokens(ws, day, usage[r]) = 0, DayBeyond(ws, day, usage[r]) = 0,
         DayTokens(ws, day, row) = tokens, FitsDay(ws, tokens, limit, time)
  PROVE  TokensOn(ws, day)' <= limit + BeyondOn(ws, day)'
<1>1. /\ UsedToday(ws, time) \in Nat /\ HeldTokens(ws) \in Nat
      /\ TokensOn(ws, day) <= UsedToday(ws, time) + HeldTokens(ws)
  BY TodayCovered
<1>2. /\ TokensOn(ws, day)' = TokensOn(ws, day)
           + DayTokens(ws, day, row) - DayTokens(ws, day, usage[r])
      /\ BeyondOn(ws, day)' = BeyondOn(ws, day)
           + DayBeyond(ws, day, row) - DayBeyond(ws, day, usage[r])
  BY WriteDay
<1>3. /\ TokensOn(ws, day) \in Nat /\ BeyondOn(ws, day) \in Nat
      /\ DayBeyond(ws, day, row) \in Nat
  BY DayTypes, DayNats
<1>4. UsedToday(ws, time) + HeldTokens(ws) + tokens <= limit
  BY DEF FitsDay
<1>5. QED
  BY <1>1, <1>2, <1>3, <1>4

(* A reservation adds its tokens to the day it is stamped with and to its  *)
(* own wallet: only after that day's count, with it, was compared with the *)
(* limits, or else over midnight.                                          *)
LEMMA ReserveKeepsDay ==
  ASSUME TypeOK, NEW r \in Requests, NEW k \in Keys, NEW i \in Idems,
         NEW tokens \in TokenSizes, NEW lim \in LimitSets,
         NEW observed \in Observed \ {NoValue},
         NEW stamp \in Instants, NEW read \in Instants, stamp <= read,
         Admit(r, k, i, tokens, lim, observed, stamp, read),
         NEW day, DayWithin(day)
  PROVE  DayWithin(day)'
<1> DEFINE row == [NoRow EXCEPT !.state = "reserved", !.key = k, !.idem = i,
                     !.tokens = tokens, !.amount = tokens * lim.rate,
                     !.created = stamp, !.admitted = now]
<1>1. /\ tokens \in Nat /\ tokens * lim.rate \in Nat
      /\ now \in Nat /\ stamp \in Nat /\ read \in Nat /\ read <= now
  <2>1. tokens \in Nat /\ lim.rate \in Nat
    BY QuantityAssumption, LimitAssumption
  <2>2. tokens * lim.rate \in Nat
    BY <2>1
  <2>3. QED
    BY <2>1, <2>2 DEF TypeOK, Instants
<1>2. usage[r].state = "absent" /\ usage' = [usage EXCEPT ![r] = row]
  BY DEF Admit, Exists, Write
<1>3. /\ row \in Row /\ row.state = "reserved" /\ row.key = k
      /\ row.tokens = tokens /\ row.created = stamp /\ row.admitted = now
  BY <1>1 DEF NoRow, Row, States, Pending
<1> HIDE DEF row
<1>4. /\ FitsDay({WalletOf[k]}, tokens, DailyLimit(WalletOf[k], lim), read)
      /\ FitsDay(Wallets, tokens, lim.globalDaily, now)
  BY DEF Admit, Admissible
<1>5. \A ws : /\ DayTokens(ws, day, usage[r]) = 0 /\ DayBeyond(ws, day, usage[r]) = 0
              /\ DayTokens(ws, day, row)
                   = IF WalletOf[k] \in ws /\ DayOf(stamp) = day THEN tokens ELSE 0
  BY <1>2, <1>3 DEF DayTokens, DayBeyond, OnDay, TokensFor, Pending
<1>6. ASSUME NEW ws, NEW limit \in Nat,
             \/ DayOf(stamp) # day \/ WalletOf[k] \notin ws
             \/ DayOf(stamp) # DayOf(now),
             TokensOn(ws, day) <= limit + BeyondOn(ws, day)
      PROVE  TokensOn(ws, day)' <= limit + BeyondOn(ws, day)'
  <2>1. DayBeyond(ws, day, row) \in Nat
    BY <1>3, DayNats
  <2>2. DayTokens(ws, day, row) = 0 \/ DayTokens(ws, day, row) = DayBeyond(ws, day, row)
    BY <1>3, <1>5, <1>6 DEF DayTokens, DayBeyond, BeyondCheck, OverMidnight
  <2>3. DayTokens(ws, day, row) + DayBeyond(ws, day, usage[r])
          <= DayTokens(ws, day, usage[r]) + DayBeyond(ws, day, row)
    BY <1>1, <1>5, <2>1, <2>2
  <2>4. QED
    BY <1>2, <1>3, <1>6, <2>3, CoveredWriteKeepsDay
<1>7. CASE DayOf(stamp) # day \/ DayOf(stamp) # DayOf(now)
  <2>1. \A w \in Wallets :
          \E limit \in {l.walletDaily : l \in LimitSets} \cup (Overrides \ {NoValue}) :
            TokensOn({w}, day)' <= limit + BeyondOn({w}, day)'
    BY <1>6, <1>7, LimitNats DEF DayWithin
  <2>2. \E l \in LimitSets :
          TokensOn(Wallets, day)' <= l.globalDaily + BeyondOn(Wallets, day)'
    BY <1>6, <1>7, LimitNats DEF DayWithin
  <2>3. QED
    BY <2>1, <2>2 DEF DayWithin
<1>8. CASE DayOf(stamp) = day /\ DayOf(stamp) = DayOf(now)
  <2>1. DayOf(read) = day /\ DayOf(now) = day
    BY <1>1, <1>8, DaysInOrder
  <2>2. ASSUME NEW w \in Wallets
        PROVE  \E limit \in {l.walletDaily : l \in LimitSets}
                             \cup (Overrides \ {NoValue}) :
                 TokensOn({w}, day)' <= limit + BeyondOn({w}, day)'
    <3>1. CASE w = WalletOf[k]
      <4>1. DailyLimit(w, lim) \in {l.walletDaily : l \in LimitSets}
                                    \cup (Overrides \ {NoValue})
        BY DEF TypeOK, DailyLimit
      <4>2. DailyLimit(w, lim) \in Nat
        BY <4>1, LimitNats
      <4>3. DayTokens({w}, day, row) = tokens
        BY <1>5, <1>8, <3>1
      <4>4. TokensOn({w}, day)' <= DailyLimit(w, lim) + BeyondOn({w}, day)'
        BY <1>1, <1>2, <1>3, <1>4, <1>5, <2>1, <3>1, <4>2, <4>3, AddedTokensFit
      <4>5. QED
        BY <4>1, <4>4
    <3>2. CASE w # WalletOf[k]
      <4>1. PICK limit \in {l.walletDaily : l \in LimitSets}
                            \cup (Overrides \ {NoValue}) :
              TokensOn({w}, day) <= limit + BeyondOn({w}, day)
        BY DEF DayWithin
      <4>2. limit \in Nat /\ WalletOf[k] \notin {w}
        BY <3>2, LimitNats
      <4>3. TokensOn({w}, day)' <= limit + BeyondOn({w}, day)'
        BY <1>6, <4>1, <4>2
      <4>4. QED
        BY <4>3
    <3>3. QED
      BY <3>1, <3>2
  <2>3. TokensOn(Wallets, day)' <= lim.globalDaily + BeyondOn(Wallets, day)'
    <3>1. WalletOf[k] \in Wallets /\ lim.globalDaily \in Nat
      BY KeyAssumption, LimitNats
    <3>2. DayTokens(Wallets, day, row) = tokens
      BY <1>5, <1>8, <3>1
    <3>3. QED
      BY <1>1, <1>2, <1>3, <1>4, <1>5, <2>1, <3>1, <3>2, AddedTokensFit
  <2>4. QED
    BY <2>2, <2>3 DEF DayWithin
<1>9. QED
  BY <1>7, <1>8

(* An empty ledger is within every day's limits.                           *)
LEMMA InitDays ==
  ASSUME Init, NEW day
  PROVE  DayWithin(day)
<1>1. TypeOK /\ \A r \in Requests : usage[r].state = "absent"
  <2>1. TypeOK
    BY InitInv DEF LedgerInv
  <2>2. QED
    BY <2>1 DEF Init, NoRow
<1>2. \A ws : TokensOn(ws, day) = 0 /\ BeyondOn(ws, day) \in Nat
  <2> TAKE ws
  <2>1. BeyondOn(ws, day) \in Nat
    BY <1>1, DayTypes
  <2>2. RowsOf(ws) = {}
    BY <1>1 DEF RowsOf, Exists
  <2> DEFINE f == [r \in RowsOf(ws) |->
                     IF DayOf(usage[r].created) = day
                     THEN TokensFor(usage[r]) ELSE 0]
  <2>3. f \in [RowsOf(ws) -> Nat] /\ \A r \in RowsOf(ws) : f[r] = 0
    BY <2>2
  <2>4. TokensOn(ws, day) = SumOf(f)
    BY DEF TokensOn
  <2> HIDE DEF f
  <2>5. QED
    BY <2>1, <2>3, <2>4, SumZero
<1>3. PICK lim \in LimitSets : lim.walletDaily \in Nat /\ lim.globalDaily \in Nat
  BY LimitAssumption
<1>4. \A ws : /\ TokensOn(ws, day) <= lim.walletDaily + BeyondOn(ws, day)
              /\ TokensOn(ws, day) <= lim.globalDaily + BeyondOn(ws, day)
  BY <1>2, <1>3
<1>5. QED
  BY <1>4 DEF DayWithin

(* A row is inserted at or after its stamp, and of two rows one was        *)
(* inserted before the other was stamped.                                  *)
Serial ==
  /\ \A r \in Requests : usage[r].created <= usage[r].admitted
  /\ \A r, s \in Requests :
       Exists(r) /\ Exists(s) /\ r # s =>
         \/ usage[r].admitted <= usage[s].created
         \/ usage[s].admitted <= usage[r].created

(* Reservations are stamped after the one before them was inserted, and    *)
(* nothing changes either time.                                            *)
LEMMA SerialStep == TypeOK /\ Serial /\ [Next]_vars => Serial'
<1> SUFFICES ASSUME TypeOK, Serial, [Next]_vars PROVE Serial'
  OBVIOUS
<1>1. CASE usage' = usage
  BY <1>1 DEF Serial, Exists
<1>2. ASSUME NEW r \in Requests, ReserveAny(r) PROVE Serial'
  <2>1. PICK k \in Keys, i \in Idems, tokens \in TokenSizes, lim \in LimitSets,
             observed \in Observed \ {NoValue} :
          Reserve(r, k, i, tokens, lim, observed)
    BY <1>2 DEF ReserveAny
  <2>2. PICK stamp \in Instants, read \in Instants :
          /\ \A s \in Requests : usage[s].admitted <= stamp
          /\ Admit(r, k, i, tokens, lim, observed, stamp, read)
    BY <2>1 DEF Reserve
  <2>3. /\ usage'[r].created = stamp /\ usage'[r].admitted = now
        /\ \A q \in Requests \ {r} : usage'[q] = usage[q]
    BY <2>2 DEF Admit, Write, TypeOK, NoRow
  <2>4. stamp <= now
    BY DEF Instants
  <2>5. QED
    BY <2>2, <2>3, <2>4 DEF Serial, Exists
<1>3. ASSUME NEW r \in Requests, SettleAny(r) \/ Review(r) PROVE Serial'
  <2>1. /\ usage[r].state # "absent"
        /\ usage'[r].created = usage[r].created
        /\ usage'[r].admitted = usage[r].admitted
        /\ \A q \in Requests \ {r} : usage'[q] = usage[q]
    BY <1>3, SettleWrites DEF TypeOK, Pending
  <2>2. QED
    BY <2>1 DEF Serial, Exists
<1>4. QED
  BY <1>1, <1>2, <1>3 DEF Next, vars, AllocateAny, Allocate, Revoke,
     SetPolicyAny, SetPolicy, Restart, Tick

(* Of two rows stamped with one day, the earlier was inserted on that day. *)
LEMMA OneOverMidnight ==
  ASSUME TypeOK, Serial, NEW r \in Requests, NEW s \in Requests,
         Exists(r), Exists(s), OverMidnight(usage[r]), OverMidnight(usage[s]),
         DayOf(usage[r].created) = DayOf(usage[s].created)
  PROVE  r = s
<1>1. /\ usage[r].created \in Nat /\ usage[r].admitted \in Nat
      /\ usage[s].created \in Nat /\ usage[s].admitted \in Nat
  BY DEF TypeOK, Row
<1>2. ASSUME usage[r].admitted <= usage[s].created PROVE FALSE
  <2>1. DayOf(usage[r].admitted) = DayOf(usage[r].created)
    BY <1>1, <1>2, DaysInOrder DEF Serial
  <2>2. QED
    BY <2>1 DEF OverMidnight
<1>3. ASSUME usage[s].admitted <= usage[r].created PROVE FALSE
  <2>1. DayOf(usage[s].admitted) = DayOf(usage[s].created)
    BY <1>1, <1>3, DaysInOrder DEF Serial
  <2>2. QED
    BY <2>1 DEF OverMidnight
<1>4. QED
  BY <1>2, <1>3 DEF Serial

(* The tokens stamped with a UTC day, held or used, stay within the        *)
(* largest limit in force, per wallet and over all wallets, except by what *)
(* providers reported beyond a reservation and by the tokens of one        *)
(* request at most, which waited for the lock over midnight and was        *)
(* checked against the next day (membership.py _admit, totals).            *)
THEOREM DaysOversoldByOneAtMost == Spec => []DayOversoldByOneAtMost
<1> DEFINE AllDays == \A day \in Nat : DayWithin(day)
<1>1. Init => AllDays /\ Serial
  <2>1. Init => Serial
    BY DEF Init, NoRow, Serial, Exists
  <2>2. QED
    BY <2>1, InitDays
<1>2. TypeOK /\ AllDays /\ [Next]_vars => AllDays'
  <2> SUFFICES ASSUME TypeOK, AllDays, [Next]_vars, NEW day \in Nat
               PROVE  DayWithin(day)'
    OBVIOUS
  <2>1. DayWithin(day)
    OBVIOUS
  <2>2. CASE usage' = usage
    BY <2>1, <2>2 DEF DayWithin, TokensOn, BeyondOn, RowsOf, Exists, Owner
  <2>3. ASSUME NEW r \in Requests, ReserveAny(r) PROVE DayWithin(day)'
    <3>1. PICK k \in Keys, i \in Idems, tokens \in TokenSizes, lim \in LimitSets,
               observed \in Observed \ {NoValue} :
            Reserve(r, k, i, tokens, lim, observed)
      BY <2>3 DEF ReserveAny
    <3>2. PICK stamp \in Instants, read \in Instants :
            stamp <= read /\ Admit(r, k, i, tokens, lim, observed, stamp, read)
      BY <3>1 DEF Reserve
    <3>3. QED
      BY <2>1, <3>2, ReserveKeepsDay
  <2>4. ASSUME NEW r \in Requests, SettleAny(r) \/ Review(r) PROVE DayWithin(day)'
    BY <2>1, <2>4, SettleKeepsDay
  <2>5. QED
    BY <2>2, <2>3, <2>4 DEF Next, vars, AllocateAny, Allocate, Revoke,
       SetPolicyAny, SetPolicy, Restart, Tick
<1>3. TypeOK /\ AllDays /\ Serial => DayOversoldByOneAtMost
  <2> SUFFICES ASSUME TypeOK, AllDays, Serial, NEW t \in 0 .. now
               PROVE  /\ DayWithin(DayOf(t))
                      /\ \A r, s \in {q \in Requests :
                                        /\ Exists(q) /\ OverMidnight(usage[q])
                                        /\ DayOf(usage[q].created) = DayOf(t)} :
                           r = s
    BY DEF DayOversoldByOneAtMost, DayWithin
  <2>1. DayOf(t) \in Nat
    BY DivFloor, TimeAssumption DEF TypeOK, DayOf
  <2>2. QED
    BY <2>1, OneOverMidnight
<1>4. QED
  BY <1>1, <1>2, <1>3, LedgerTyped, SerialStep, PTL DEF Spec
-----------------------------------------------------------------------------
(* The refinement.  A row's phase in the abstract account depends on the   *)
(* row and on whether the startup snapshot holds it.                       *)

Phases == [r \in Requests |-> PhaseOf(r)]

Charges == [r \in Requests |-> ChargeOf(usage[r])]

(* Every row the snapshot captured exists, so a new row is never in it.    *)
StartupRows == \A r \in startup : r \in Requests /\ Exists(r)

LEMMA StartupRowsKept == TypeOK /\ StartupRows /\ [Next]_vars => StartupRows'
<1> SUFFICES ASSUME TypeOK, StartupRows, [Next]_vars, NEW q, q \in startup'
             PROVE  q \in Requests /\ usage'[q].state # "absent"
  BY DEF StartupRows, Exists
<1>1. \/ startup' = startup
      \/ startup' = {r \in Requests : usage[r].state = "reserved"}
  BY StartupMoves
<1>2. q \in Requests /\ usage[q].state # "absent"
  BY <1>1 DEF StartupRows, Exists
<1>3. QED
  BY <1>2, RowMoves

LEMMA PhaseCases ==
  ASSUME TypeOK, NEW r \in Requests
  PROVE  /\ PhaseOf(r) \in {"none", "closed", "doubtful", "open"}
         /\ usage[r].state = "absent" <=> PhaseOf(r) = "none"
         /\ usage[r].state = "settled" <=> PhaseOf(r) = "closed"
         /\ UncertainRow(r) <=> PhaseOf(r) = "doubtful"
         /\ usage[r].state = "reserved" /\ r \notin startup <=> PhaseOf(r) = "open"
<1>1. usage[r].state \in {"absent", "reserved", "needs_review", "settled"}
  BY DEF TypeOK, Row, States, Pending
<1>2. QED
  BY <1>1 DEF PhaseOf, UncertainRow

LEMMA AllocateFunds ==
  ASSUME TypeOK, AllocateAny
  PROVE  Account!Fund
<1>1. PICK ref \in Refs, amount \in Grants, observed \in Observed :
        Allocate(ref, amount, observed)
  BY DEF AllocateAny
<1>2. /\ funding[ref] = 0 /\ funding' = [funding EXCEPT ![ref] = amount]
      /\ usage' = usage /\ startup' = startup
  BY <1>1 DEF Allocate
<1>3. amount \in Nat \ {0} /\ IsFiniteSet(Refs) /\ funding \in [Refs -> Nat]
  BY QuantityAssumption, RowAssumption DEF TypeOK
<1>4. funding' \in [Refs -> Nat] /\ funding'[ref] = amount
        /\ \A f \in Refs \ {ref} : funding'[f] = funding[f]
  BY <1>2, <1>3
<1>5. SumOf(funding') = SumOf(funding) + funding'[ref] - funding[ref]
  BY <1>3, <1>4, SumUpdate
<1>6. SumOf(funding) \in Nat
  BY <1>3, SumType
<1>7. Funded' \in Nat /\ Funded' > Funded
  BY <1>2, <1>3, <1>4, <1>5, <1>6 DEF Funded
<1>8. /\ [r \in Requests |-> PhaseOf(r)]' = [r \in Requests |-> PhaseOf(r)]
      /\ [r \in Requests |-> ChargeOf(usage[r])]'
           = [r \in Requests |-> ChargeOf(usage[r])]
  BY <1>2 DEF PhaseOf, UncertainRow
<1>9. QED
  BY <1>7, <1>8 DEF Account!Fund

LEMMA ReserveOpens ==
  ASSUME LedgerInv, StartupRows, NEW r \in Requests, ReserveAny(r)
  PROVE  Account!Open(r)
<1>1. PICK k \in Keys, i \in Idems, tokens \in TokenSizes, lim \in LimitSets,
           observed \in Observed \ {NoValue} :
        Reserve(r, k, i, tokens, lim, observed)
  BY DEF ReserveAny
<1>0. PICK stamp \in Instants, read \in Instants :
        Admit(r, k, i, tokens, lim, observed, stamp, read)
  BY <1>1 DEF Reserve
<1> DEFINE amount == tokens * lim.rate
           row == [NoRow EXCEPT !.state = "reserved", !.key = k, !.idem = i,
                     !.tokens = tokens, !.amount = amount,
                     !.created = stamp, !.admitted = now]
<1>2. TypeOK /\ TypeOK' /\ ProjectionExact /\ Charged' <= Funded'
  BY <1>1, ReserveKeeps DEF LedgerInv
<1>3. amount \in Nat \ {0}
  <2>1. tokens \in Nat \ {0} /\ lim.rate \in Nat \ {0}
    BY QuantityAssumption, LimitAssumption
  <2>2. QED
    BY <2>1
<1>4. /\ usage[r].state = "absent" /\ usage' = [usage EXCEPT ![r] = row]
      /\ ~ReconciliationRequired /\ UNCHANGED <<funding, startup>>
  BY <1>0 DEF Admit, Exists, Admissible, Write
<1>5. row.state = "reserved" /\ ChargeOf(row) = amount
  BY DEF NoRow, ChargeOf, Pending
<1> HIDE DEF amount, row
<1>6. r \notin startup
  BY <1>4 DEF StartupRows, Exists
<1>7. /\ usage'[r] = row
      /\ \A q \in Requests \ {r} : usage'[q] = usage[q]
  BY <1>2, <1>4 DEF TypeOK
<1>8. Phases[r] = "none" /\ \A q \in Requests : Phases[q] # "doubtful"
  <2>1. \A q \in Requests : ~UncertainRow(q)
    BY <1>2, <1>4, UncertainIsSeen
  <2>2. QED
    BY <1>2, <1>4, <2>1, PhaseCases DEF Phases
<1>9. Phases' = [Phases EXCEPT ![r] = "open"]
  <2>1. PhaseOf(r)' = "open"
    BY <1>4, <1>5, <1>6, <1>7 DEF PhaseOf, UncertainRow
  <2>2. \A q \in Requests \ {r} : PhaseOf(q)' = PhaseOf(q)
    BY <1>4, <1>7 DEF PhaseOf, UncertainRow
  <2>3. QED
    BY <2>1, <2>2 DEF Phases
<1>10. Charges'[r] \in Nat \ {0} /\ Charges' = [Charges EXCEPT ![r] = Charges'[r]]
  BY <1>3, <1>5, <1>7 DEF Charges
<1>11. SumOf(Charges') <= Funded /\ Funded' = Funded
  BY <1>2, <1>4 DEF Charged, Funded, Charges
<1>12. Account!SumOf(Charges') = SumOf(Charges')
  BY DEF Account!SumOf, Account!Units, Account!UnitsOf, SumOf, Units, UnitsOf,
     Account!Cardinality, Cardinality
<1>13. QED
  BY <1>8, <1>9, <1>10, <1>11, <1>12 DEF Account!Open, Phases, Charges

LEMMA SettleCloses ==
  ASSUME TypeOK, NEW r \in Requests, SettleAny(r)
  PROVE  Account!Close(r)
<1>1. PICK used \in UsedTokens, cost \in Costs, evidence \in BOOLEAN :
        Settle(r, used, cost, evidence)
  BY DEF SettleAny
<1> DEFINE row == [usage[r] EXCEPT !.state = "settled", !.used = used,
                     !.cost = cost, !.evidence = evidence]
<1>2. /\ usage[r].state \in Pending /\ usage' = [usage EXCEPT ![r] = row]
      /\ UNCHANGED <<funding, startup>>
  BY <1>1 DEF Settle, Write
<1>3. row.state = "settled" /\ row.cost = cost /\ cost \in Nat
  BY QuantityAssumption DEF TypeOK, Row
<1> HIDE DEF row
<1>4. /\ usage'[r] = row
      /\ \A q \in Requests \ {r} : usage'[q] = usage[q]
  BY <1>2 DEF TypeOK
<1>5. Phases[r] \in {"open", "doubtful"}
  BY <1>2, PhaseCases DEF Phases, UncertainRow, Pending
<1>6. Phases' = [Phases EXCEPT ![r] = "closed"]
  <2>1. PhaseOf(r)' = "closed"
    BY <1>3, <1>4 DEF PhaseOf, UncertainRow
  <2>2. \A q \in Requests \ {r} : PhaseOf(q)' = PhaseOf(q)
    BY <1>2, <1>4 DEF PhaseOf, UncertainRow
  <2>3. QED
    BY <2>1, <2>2 DEF Phases
<1>7. Charges'[r] \in Nat /\ Charges' = [Charges EXCEPT ![r] = Charges'[r]]
  BY <1>3, <1>4 DEF Charges, ChargeOf, Pending
<1>8. Funded' = Funded
  BY <1>2 DEF Funded
<1>9. QED
  BY <1>5, <1>6, <1>7, <1>8 DEF Account!Close, Phases, Charges

(* A review of a row the snapshot holds is nothing new to the account.     *)
LEMMA ReviewDoubts ==
  ASSUME TypeOK, NEW r \in Requests, Review(r)
  PROVE  Account!Doubt({r}) \/ UNCHANGED Account!account
<1> DEFINE row == [usage[r] EXCEPT !.state = "needs_review"]
<1>1. /\ usage[r].state = "reserved" /\ usage' = [usage EXCEPT ![r] = row]
      /\ UNCHANGED <<funding, startup>>
  BY DEF Review, Write
<1>2. /\ row.state = "needs_review" /\ ChargeOf(row) = ChargeOf(usage[r])
  BY <1>1 DEF TypeOK, Row, ChargeOf, Pending
<1> HIDE DEF row
<1>3. /\ usage'[r] = row
      /\ \A q \in Requests \ {r} : usage'[q] = usage[q]
  BY <1>1 DEF TypeOK
<1>4. Funded' = Funded /\ Charges' = Charges
  BY <1>1, <1>2, <1>3 DEF Funded, Charges
<1>5. /\ PhaseOf(r)' = "doubtful"
      /\ \A q \in Requests \ {r} : PhaseOf(q)' = PhaseOf(q)
  BY <1>1, <1>2, <1>3 DEF PhaseOf, UncertainRow
<1>6. CASE r \in startup
  <2>1. PhaseOf(r) = "doubtful"
    BY <1>1, <1>6 DEF PhaseOf, UncertainRow
  <2>2. Phases' = Phases
    BY <1>5, <2>1 DEF Phases
  <2>3. QED
    BY <1>4, <2>2 DEF Account!account, Phases, Charges
<1>7. CASE r \notin startup
  <2>1. PhaseOf(r) = "open"
    BY <1>1, <1>7 DEF PhaseOf, UncertainRow
  <2>2. /\ \A q \in {r} : Phases[q] = "open"
        /\ Phases' = [q \in Requests |-> IF q \in {r} THEN "doubtful" ELSE Phases[q]]
    BY <1>5, <2>1 DEF Phases
  <2>3. QED
    BY <1>4, <2>2 DEF Account!Doubt, Phases, Charges
<1>8. QED
  BY <1>6, <1>7

(* A restart makes every open row doubtful.                                *)
LEMMA RestartDoubts ==
  ASSUME TypeOK, Restart
  PROVE  \E S \in SUBSET Requests : Account!Doubt(S)
<1> DEFINE S == {r \in Requests : usage[r].state = "reserved" /\ r \notin startup}
<1>1. /\ startup' = {r \in Requests : usage[r].state = "reserved"}
      /\ UNCHANGED <<funding, usage>>
  BY DEF Restart
<1>2. \A r \in S : Phases[r] = "open"
  BY PhaseCases DEF Phases
<1>3. \A r \in Requests : PhaseOf(r)' = IF r \in S THEN "doubtful" ELSE PhaseOf(r)
  <2> TAKE r \in Requests
  <2>1. usage[r].state \in {"absent", "reserved", "needs_review", "settled"}
    BY DEF TypeOK, Row, States, Pending
  <2>2. QED
    BY <1>1, <2>1 DEF PhaseOf, UncertainRow
<1>4. Phases' = [r \in Requests |-> IF r \in S THEN "doubtful" ELSE Phases[r]]
  BY <1>3 DEF Phases
<1>5. Funded' = Funded /\ Charges' = Charges
  BY <1>1 DEF Funded, Charges
<1>6. Account!Doubt(S)
  BY <1>2, <1>4, <1>5 DEF Account!Doubt, Phases, Charges
<1>7. QED
  BY <1>6

(* The ledger, with its triggers, its projection and its startup snapshot, *)
(* implements the abstract account: every transaction is one step of it,   *)
(* or invisible (membership.py, ledger_totals.py, store.py).               *)
THEOREM LedgerImplementsAccount == Spec => ImplementsAccount
<1>1. Init => Account!Init /\ StartupRows
  <2> SUFFICES ASSUME Init PROVE Account!Init /\ StartupRows
    OBVIOUS
  <2>1. Funded = 0
    <3>1. funding \in [Refs -> Nat] /\ \A f \in Refs : funding[f] = 0
      BY DEF Init
    <3>2. QED
      BY <3>1, SumZero DEF Funded
  <2>2. \A r \in Requests : PhaseOf(r) = "none" /\ ChargeOf(usage[r]) = 0
    BY DEF Init, NoRow, PhaseOf, UncertainRow, ChargeOf, Pending
  <2>3. QED
    BY <2>1, <2>2 DEF Init, StartupRows, Account!Init
<1>2. LedgerInv /\ StartupRows /\ [Next]_vars => [Account!Next]_(Account!account)
  <2> SUFFICES ASSUME LedgerInv, StartupRows, [Next]_vars
               PROVE  Account!Next \/ UNCHANGED Account!account
    OBVIOUS
  <2>1. TypeOK
    BY DEF LedgerInv
  <2>2. ASSUME UNCHANGED <<funding, usage, startup>>
        PROVE  UNCHANGED Account!account
    BY <2>2 DEF Account!account, Funded, PhaseOf, UncertainRow
  <2>3. CASE AllocateAny
    BY <2>1, <2>3, AllocateFunds DEF Account!Next
  <2>4. ASSUME NEW r \in Requests, ReserveAny(r) PROVE Account!Next
    BY <2>4, ReserveOpens DEF Account!Next
  <2>5. ASSUME NEW r \in Requests, SettleAny(r) PROVE Account!Next
    BY <2>1, <2>5, SettleCloses DEF Account!Next
  <2>6. ASSUME NEW r \in Requests, Review(r)
        PROVE  Account!Next \/ UNCHANGED Account!account
    BY <2>1, <2>6, ReviewDoubts DEF Account!Next
  <2>7. CASE Restart
    BY <2>1, <2>7, RestartDoubts DEF Account!Next
  <2>8. QED
    BY <2>2, <2>3, <2>4, <2>5, <2>6, <2>7 DEF Next, vars, Revoke,
       SetPolicyAny, SetPolicy, Tick
<1>3. Spec => []StartupRows
  BY <1>1, LedgerTyped, StartupRowsKept, PTL DEF Spec
<1>4. QED
  BY <1>1, <1>2, <1>3, LedgerInvariance, PTL DEF Spec, ImplementsAccount, Account!Spec
=============================================================================
