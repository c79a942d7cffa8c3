------------------------- MODULE PrepaidLedger_proofs -------------------------
(* The running values of the prepaid ledger are the sums of its rows, for  *)
(* every number of rows, keys and wallets.  A row's charge counts for its  *)
(* key and for the key's wallet, so one lemma about writing a row serves   *)
(* reservations, settlements and reviews.                                  *)
EXTENDS PrepaidLedger, Sums_proofs

RowCharge(ks, row) == IF row.state # "absent" /\ row.key \in ks THEN ChargeOf(row) ELSE 0

RowExcess(ks, row) == IF row.key \in ks THEN Overbilled(row) ELSE 0

RowOK(row) == row.state # "absent" => row.key \in Keys

PrepaidInv ==
  /\ TypeOK /\ \A r \in Requests : RowOK(usage[r])
  /\ CreditConserved /\ OverdraftOnlyFromBilling

LEMMA RowNats ==
  ASSUME NEW row \in Row, NEW ks
  PROVE  /\ row.amount \in Nat /\ row.billed \in Nat /\ row.created \in Nat
         /\ RowCharge(ks, row) \in Nat /\ RowExcess(ks, row) \in Nat
         /\ ChargeOf(row) \in Nat /\ Overbilled(row) \in Nat
  BY DEF Row, RowCharge, RowExcess, ChargeOf, Overbilled

LEMMA SumsOfRows ==
  ASSUME TypeOK, NEW ks
  PROVE  /\ ChargedOn(ks) = SumOf([q \in Requests |-> RowCharge(ks, usage[q])])
         /\ OverbilledOn(ks) = SumOf([q \in Requests |-> RowExcess(ks, usage[q])])
         /\ ChargedOn(ks) \in Nat /\ OverbilledOn(ks) \in Nat
<1> DEFINE f == [q \in Requests |-> RowCharge(ks, usage[q])]
           g == [q \in Requests |-> RowExcess(ks, usage[q])]
<1>1. f \in [Requests -> Nat] /\ g \in [Requests -> Nat]
  BY RowNats DEF TypeOK
<1>2. ChargedOn(ks) = SumOf(f) /\ OverbilledOn(ks) = SumOf(g)
  BY DEF ChargedOn, OverbilledOn, ChargeOn, Exists, RowCharge, RowExcess
<1> HIDE DEF f, g
<1>3. SumOf(f) \in Nat /\ SumOf(g) \in Nat
  BY <1>1, SumType, RowAssumption
<1>4. QED
  BY <1>2, <1>3 DEF f, g

(* What writing one row does to the sums over any set of keys.             *)
LEMMA WriteRow ==
  ASSUME TypeOK, TypeOK', NEW r \in Requests, NEW row \in Row, NEW ks,
         usage' = [usage EXCEPT ![r] = row]
  PROVE  /\ ChargedOn(ks)' = ChargedOn(ks) + RowCharge(ks, row) - RowCharge(ks, usage[r])
         /\ OverbilledOn(ks)' = OverbilledOn(ks) + RowExcess(ks, row) - RowExcess(ks, usage[r])
<1> DEFINE f == [q \in Requests |-> RowCharge(ks, usage[q])]
           f2 == [q \in Requests |-> RowCharge(ks, usage'[q])]
           g == [q \in Requests |-> RowExcess(ks, usage[q])]
           g2 == [q \in Requests |-> RowExcess(ks, usage'[q])]
<1>1. /\ f \in [Requests -> Nat] /\ f2 \in [Requests -> Nat]
      /\ g \in [Requests -> Nat] /\ g2 \in [Requests -> Nat]
  BY RowNats DEF TypeOK
<1>2. /\ \A q \in Requests \ {r} : f2[q] = f[q] /\ g2[q] = g[q]
      /\ f[r] = RowCharge(ks, usage[r]) /\ f2[r] = RowCharge(ks, row)
      /\ g[r] = RowExcess(ks, usage[r]) /\ g2[r] = RowExcess(ks, row)
  BY DEF TypeOK
<1>3. /\ ChargedOn(ks) = SumOf(f) /\ ChargedOn(ks)' = SumOf(f2)
      /\ OverbilledOn(ks) = SumOf(g) /\ OverbilledOn(ks)' = SumOf(g2)
  BY DEF ChargedOn, OverbilledOn, ChargeOn, Exists, RowCharge, RowExcess
<1> HIDE DEF f, f2, g, g2
<1>4. SumOf(f2) = SumOf(f) + f2[r] - f[r]
  BY <1>1, <1>2, SumUpdate, RowAssumption
<1>5. SumOf(g2) = SumOf(g) + g2[r] - g[r]
  BY <1>1, <1>2, SumUpdate, RowAssumption
<1>6. QED
  BY <1>2, <1>3, <1>4, <1>5

LEMMA CreditedIsNat ==
  ASSUME TypeOK, NEW w \in Wallets
  PROVE  CreditedTo(w) \in Nat
<1> DEFINE f == [x \in Refs |-> IF credits[x].wallet = w THEN credits[x].amount ELSE 0]
<1>1. f \in [Refs -> Nat]
  BY DEF TypeOK
<1>2. CreditedTo(w) = SumOf(f)
  BY DEF CreditedTo
<1> HIDE DEF f
<1>3. QED
  BY <1>1, <1>2, SumType, RowAssumption

-----------------------------------------------------------------------------

(* A row of key k is written over an absent one or over one of the same    *)
(* key, and d more is charged for it: the balance of the key's wallet      *)
(* falls by d and the key's spend grows by d.                              *)
ChargeMove(r, k, row, d) ==
  /\ row.key = k /\ row.state # "absent"
  /\ usage[r].state = "absent" \/ usage[r].key = k
  /\ d = ChargeOf(row) - (IF usage[r].state = "absent" THEN 0 ELSE ChargeOf(usage[r]))
  /\ usage' = [usage EXCEPT ![r] = row]
  /\ balance' = [balance EXCEPT ![WalletOf[k]] = @ - d]
  /\ spent' = [spent EXCEPT ![k] = @ + d]
  /\ credits' = credits /\ revoked' = revoked /\ startup' = startup /\ now' = now

LEMMA ChargeMoves ==
  ASSUME PrepaidInv, NEW r \in Requests, NEW k \in Keys, NEW row \in Row, NEW d \in Int,
         ChargeMove(r, k, row, d)
  PROVE  /\ TypeOK' /\ CreditConserved'
         /\ \A q \in Requests : RowOK(usage'[q])
         /\ \A w \in Wallets : OverbilledOn(KeysOf(w))' = OverbilledOn(KeysOf(w))
              + (IF w = WalletOf[k] THEN Overbilled(row) - RowExcess({k}, usage[r]) ELSE 0)
         /\ \A j \in Keys : OverbilledOn({j})' = OverbilledOn({j})
              + (IF j = k THEN Overbilled(row) - RowExcess({k}, usage[r]) ELSE 0)
<1>1. /\ TypeOK /\ usage[r] \in Row
      /\ WalletOf[k] \in Wallets
      /\ row.key = k /\ row.state # "absent"
      /\ usage[r].state = "absent" \/ usage[r].key = k
      /\ d = ChargeOf(row) - (IF usage[r].state = "absent" THEN 0 ELSE ChargeOf(usage[r]))
      /\ usage' = [usage EXCEPT ![r] = row]
      /\ credits' = credits
  BY KeyAssumption DEF PrepaidInv, TypeOK, ChargeMove
<1>1a. /\ balance' \in [Wallets -> Int] /\ spent' \in [Keys -> Int]
       /\ \A w \in Wallets : balance'[w] = balance[w] - (IF w = WalletOf[k] THEN d ELSE 0)
       /\ \A j \in Keys : spent'[j] = spent[j] + (IF j = k THEN d ELSE 0)
  BY <1>1 DEF TypeOK, ChargeMove
<1>2. TypeOK'
  BY <1>1a, <1>1 DEF TypeOK, ChargeMove
<1>3. \A q \in Requests : RowOK(usage'[q])
  BY <1>1 DEF PrepaidInv, RowOK, TypeOK
<1>4. usage[r].state = "absent" => Overbilled(usage[r]) = 0
  BY DEF Overbilled, Closed
<1>5. ASSUME NEW ks
      PROVE  /\ ChargedOn(ks) \in Nat /\ OverbilledOn(ks) \in Nat
             /\ ChargedOn(ks)' = ChargedOn(ks) + (IF k \in ks THEN d ELSE 0)
             /\ OverbilledOn(ks)' = OverbilledOn(ks)
                  + (IF k \in ks THEN Overbilled(row) - RowExcess({k}, usage[r]) ELSE 0)
  <2>1. /\ ChargedOn(ks)' = ChargedOn(ks) + RowCharge(ks, row) - RowCharge(ks, usage[r])
        /\ OverbilledOn(ks)' = OverbilledOn(ks) + RowExcess(ks, row) - RowExcess(ks, usage[r])
    BY <1>1, <1>2, WriteRow
  <2>2. ChargedOn(ks) \in Nat /\ OverbilledOn(ks) \in Nat
    BY <1>1, SumsOfRows
  <2>3. /\ ChargeOf(row) \in Nat /\ ChargeOf(usage[r]) \in Nat
        /\ Overbilled(row) \in Nat /\ Overbilled(usage[r]) \in Nat
    BY <1>1, RowNats
  <2>4. RowCharge(ks, row) - RowCharge(ks, usage[r]) = IF k \in ks THEN d ELSE 0
    BY <1>1, <2>3 DEF RowCharge
  <2>5. RowExcess(ks, row) - RowExcess(ks, usage[r])
          = IF k \in ks THEN Overbilled(row) - RowExcess({k}, usage[r]) ELSE 0
    BY <1>1, <1>4, <2>3 DEF RowExcess
  <2>6. RowCharge(ks, row) \in Nat /\ RowCharge(ks, usage[r]) \in Nat
        /\ RowExcess(ks, row) \in Nat /\ RowExcess(ks, usage[r]) \in Nat
    BY <1>1, RowNats
  <2>7. QED
    BY <2>1, <2>2, <2>4, <2>5, <2>6
<1>6. \A w \in Wallets : k \in KeysOf(w) <=> w = WalletOf[k]
  BY KeyAssumption DEF KeysOf
<1>7. CreditConserved'
  <2>1. ASSUME NEW w \in Wallets
        PROVE  balance'[w] = CreditedTo(w)' - ChargedOn(KeysOf(w))'
    <3>1. CreditedTo(w)' = CreditedTo(w) /\ CreditedTo(w) \in Nat
      BY <1>1, CreditedIsNat DEF CreditedTo
    <3>2. balance[w] = CreditedTo(w) - ChargedOn(KeysOf(w))
      BY DEF PrepaidInv, CreditConserved
    <3>3. /\ ChargedOn(KeysOf(w)) \in Nat
          /\ ChargedOn(KeysOf(w))' = ChargedOn(KeysOf(w)) + (IF w = WalletOf[k] THEN d ELSE 0)
      BY <1>5, <1>6
    <3>4. QED
      BY <1>1a, <3>1, <3>2, <3>3
  <2>2. ASSUME NEW j \in Keys
        PROVE  spent'[j] = ChargedOn({j})'
    <3>1. spent[j] = ChargedOn({j})
      BY DEF PrepaidInv, CreditConserved
    <3>2. /\ ChargedOn({j})' = ChargedOn({j}) + (IF j = k THEN d ELSE 0)
          /\ ChargedOn({j}) \in Nat
      BY <1>5
    <3>3. spent'[j] = spent[j] + (IF j = k THEN d ELSE 0)
      BY <1>1a
    <3>4. QED
      BY <3>1, <3>2, <3>3
  <2>3. QED
    BY <2>1, <2>2 DEF CreditConserved
<1>8. QED
  BY <1>2, <1>3, <1>5, <1>6, <1>7

-----------------------------------------------------------------------------

LEMMA PrepaidInitOK == Init => PrepaidInv
<1> SUFFICES ASSUME Init
             PROVE  PrepaidInv
  OBVIOUS
<1>1. NoRow \in Row /\ NoCredit \in [wallet : Wallets \cup {NoValue}, amount : Nat]
  BY DEF NoRow, Row, NoCredit, Pending
<1>2. TypeOK
  BY <1>1 DEF Init, TypeOK
<1>3. \A r \in Requests : RowOK(usage[r])
  BY DEF Init, RowOK, NoRow
<1>4. ASSUME NEW ks
      PROVE  ChargedOn(ks) = 0 /\ OverbilledOn(ks) = 0
  <2> DEFINE f == [q \in Requests |-> RowCharge(ks, usage[q])]
             g == [q \in Requests |-> RowExcess(ks, usage[q])]
  <2>1. \A q \in Requests : f[q] = 0 /\ g[q] = 0
    BY DEF Init, NoRow, RowCharge, RowExcess, Overbilled, Closed
  <2>2. f \in [Requests -> Nat] /\ g \in [Requests -> Nat]
    BY <2>1
  <2>3. ChargedOn(ks) = SumOf(f) /\ OverbilledOn(ks) = SumOf(g)
    BY <1>2, SumsOfRows
  <2> HIDE DEF f, g
  <2>4. QED
    BY <2>1, <2>2, <2>3, SumZero
<1>5. ASSUME NEW w \in Wallets
      PROVE  CreditedTo(w) = 0
  <2> DEFINE f == [x \in Refs |-> IF credits[x].wallet = w THEN credits[x].amount ELSE 0]
  <2>1. f \in [Refs -> Nat] /\ \A x \in Refs : f[x] = 0
    BY DEF Init, NoCredit
  <2>2. CreditedTo(w) = SumOf(f)
    BY DEF CreditedTo
  <2> HIDE DEF f
  <2>3. QED
    BY <2>1, <2>2, SumZero
<1>6. CreditConserved
  BY <1>4, <1>5 DEF Init, CreditConserved
<1>7. OverdraftOnlyFromBilling
  BY <1>4, KeyAssumption DEF Init, OverdraftOnlyFromBilling
<1>8. QED
  BY <1>2, <1>3, <1>6, <1>7 DEF PrepaidInv

(* Whatever its clock reads, a reservation writes its own row only.        *)
LEMMA ReserveWrites ==
  ASSUME NEW r, NEW k, NEW i, NEW amount, NEW rpm, Reserve(r, k, i, amount, rpm)
  PROVE  /\ usage[r].state = "absent"
         /\ \E row : usage' = [usage EXCEPT ![r] = row]
         /\ UNCHANGED <<credits, revoked, startup, now>>
<1>1. PICK stamp \in Instants, read \in Instants : Admit(r, k, i, amount, rpm, stamp, read)
  BY DEF Reserve
<1>2. QED
  BY <1>1 DEF Admit, Exists

LEMMA ReserveKeeps ==
  ASSUME PrepaidInv, NEW r \in Requests, NEW k \in Keys, NEW i \in Idems,
         NEW amount \in Amounts, NEW rpm \in Rates, Reserve(r, k, i, amount, rpm)
  PROVE  PrepaidInv'
<1>0. PICK stamp \in Instants, read \in Instants : Admit(r, k, i, amount, rpm, stamp, read)
  BY DEF Reserve
<1> DEFINE row == [NoRow EXCEPT !.state = "reserved", !.key = k, !.idem = i,
                                !.amount = amount, !.created = stamp,
                                !.admitted = now]
<1>1. /\ TypeOK /\ usage[r].state = "absent" /\ amount \in Nat
      /\ stamp \in Nat /\ now \in Nat
  BY <1>0, QuantityAssumption DEF PrepaidInv, TypeOK, Admit, Exists, Instants
<1>2. /\ row \in Row /\ row.key = k /\ row.state = "reserved"
      /\ ChargeOf(row) = amount /\ Overbilled(row) = 0
  BY <1>1 DEF TypeOK, NoRow, Row, Pending, Closed, ChargeOf, Overbilled
<1>3. usage' = [usage EXCEPT ![r] = row]
  BY <1>0 DEF Admit
<1>4. /\ balance' = [balance EXCEPT ![WalletOf[k]] = @ - amount]
      /\ spent' = [spent EXCEPT ![k] = @ + amount]
      /\ UNCHANGED <<credits, revoked, startup, now>>
      /\ amount <= balance[WalletOf[k]] /\ spent[k] + amount <= KeyLimit[k]
  BY <1>0 DEF Admit, Admissible
<1> HIDE DEF row
<1>5. /\ balance \in [Wallets -> Int] /\ spent \in [Keys -> Int]
      /\ WalletOf[k] \in Wallets /\ amount \in Int
  BY <1>1, KeyAssumption DEF TypeOK
<1>6. /\ balance' \in [Wallets -> Int] /\ spent' \in [Keys -> Int]
      /\ \A w \in Wallets : balance'[w] = balance[w] - (IF w = WalletOf[k] THEN amount ELSE 0)
      /\ \A j \in Keys : spent'[j] = spent[j] + (IF j = k THEN amount ELSE 0)
  BY <1>4, <1>5
<1>7. RowExcess({k}, usage[r]) = 0
  BY <1>1 DEF RowExcess, Overbilled, Closed
<1>8. /\ TypeOK' /\ CreditConserved'
      /\ \A q \in Requests : RowOK(usage'[q])
      /\ \A w \in Wallets : OverbilledOn(KeysOf(w))' = OverbilledOn(KeysOf(w))
           + (IF w = WalletOf[k] THEN Overbilled(row) - RowExcess({k}, usage[r]) ELSE 0)
      /\ \A j \in Keys : OverbilledOn({j})' = OverbilledOn({j})
           + (IF j = k THEN Overbilled(row) - RowExcess({k}, usage[r]) ELSE 0)
  <2>1. ChargeMove(r, k, row, amount)
    BY <1>1, <1>2, <1>3, <1>4 DEF ChargeMove
  <2>2. row \in Row /\ amount \in Int
    BY <1>2, <1>5
  <2>3. QED
    BY <2>1, <2>2, ChargeMoves
<1>9. ASSUME NEW ks
      PROVE  OverbilledOn(ks) \in Nat
  BY <1>1, SumsOfRows
<1>10. \A w \in Wallets : balance'[w] + OverbilledOn(KeysOf(w))' >= 0
  <2> SUFFICES ASSUME NEW w \in Wallets
               PROVE  balance'[w] + OverbilledOn(KeysOf(w))' >= 0
    OBVIOUS
  <2>1. OverbilledOn(KeysOf(w))' = OverbilledOn(KeysOf(w)) /\ OverbilledOn(KeysOf(w)) \in Nat
    <3>1. OverbilledOn(KeysOf(w))' = OverbilledOn(KeysOf(w))
           + (IF w = WalletOf[k] THEN Overbilled(row) - RowExcess({k}, usage[r]) ELSE 0)
      BY <1>8
    <3>2. OverbilledOn(KeysOf(w)) \in Nat
      BY <1>9
    <3>3. QED
      BY <1>2, <1>7, <3>1, <3>2
  <2>2. balance[w] + OverbilledOn(KeysOf(w)) >= 0
    BY DEF PrepaidInv, OverdraftOnlyFromBilling
  <2>3. QED
    BY <1>1, <1>4, <1>5, <1>6, <2>1, <2>2
<1>11. \A j \in Keys : spent'[j] <= KeyLimit[j] + OverbilledOn({j})'
  <2> SUFFICES ASSUME NEW j \in Keys
               PROVE  spent'[j] <= KeyLimit[j] + OverbilledOn({j})'
    OBVIOUS
  <2>1. OverbilledOn({j})' = OverbilledOn({j}) /\ OverbilledOn({j}) \in Nat
    <3>1. OverbilledOn({j})' = OverbilledOn({j})
           + (IF j = k THEN Overbilled(row) - RowExcess({k}, usage[r]) ELSE 0)
      BY <1>8
    <3>2. OverbilledOn({j}) \in Nat
      BY <1>9
    <3>3. QED
      BY <1>2, <1>7, <3>1, <3>2
  <2>2. spent[j] <= KeyLimit[j] + OverbilledOn({j}) /\ KeyLimit[j] \in Nat
    BY KeyAssumption DEF PrepaidInv, OverdraftOnlyFromBilling
  <2>3. QED
    BY <1>1, <1>4, <1>5, <1>6, <2>1, <2>2
<1>12. QED
  BY <1>8, <1>10, <1>11 DEF PrepaidInv, OverdraftOnlyFromBilling

LEMMA SettleKeeps ==
  ASSUME PrepaidInv, NEW r \in Requests, NEW billed \in Bills, NEW operator \in BOOLEAN,
         Settle(r, billed, operator)
  PROVE  PrepaidInv'
<1> DEFINE row == Settled(r, billed, operator)
           k == usage[r].key
           old == usage[r].amount
           d == billed - old
<1>1. TypeOK /\ usage[r] \in Row /\ usage[r].state \in Pending /\ billed \in Nat
  BY QuantityAssumption DEF PrepaidInv, TypeOK, Settle
<1>2. k \in Keys /\ old \in Nat /\ d \in Int /\ usage[r].state # "absent"
  BY <1>1 DEF PrepaidInv, RowOK, Row, Pending
<1>3. /\ row \in Row /\ row.key = k /\ row.state \in Closed
      /\ row.billed = billed /\ row.amount = old
  BY <1>1, <1>2 DEF Settled, Row, Closed
<1>4. /\ balance' = [balance EXCEPT ![WalletOf[k]] = @ + (old - billed)]
      /\ spent' = [spent EXCEPT ![k] = @ - (old - billed)]
      /\ usage' = [usage EXCEPT ![r] = row]
      /\ UNCHANGED <<credits, revoked, startup, now>>
  BY DEF Settle, Reprice
<1>5. ChargeOf(usage[r]) = old /\ RowExcess({k}, usage[r]) = 0
  BY <1>1 DEF ChargeOf, RowExcess, Overbilled, Closed, Pending
<1>6. /\ row.state # "absent" /\ ChargeOf(row) = billed
      /\ Overbilled(row) = IF billed > old THEN billed - old ELSE 0
  BY <1>3 DEF ChargeOf, Overbilled, Closed, Pending
<1>7. /\ balance \in [Wallets -> Int] /\ spent \in [Keys -> Int] /\ WalletOf[k] \in Wallets
  BY <1>1, <1>2, KeyAssumption DEF TypeOK
<1>8. d = ChargeOf(row) - (IF usage[r].state = "absent" THEN 0 ELSE ChargeOf(usage[r]))
  BY <1>2, <1>5, <1>6
<1>9. old - billed \in Int /\ old - billed = 0 - d
  BY <1>1, <1>2
<1> HIDE DEF row, k, old, d
<1>10. /\ balance' \in [Wallets -> Int] /\ spent' \in [Keys -> Int]
       /\ \A w \in Wallets : balance'[w] = balance[w] - (IF w = WalletOf[k] THEN d ELSE 0)
       /\ \A j \in Keys : spent'[j] = spent[j] + (IF j = k THEN d ELSE 0)
  BY <1>2, <1>4, <1>7, <1>9
<1>11. /\ TypeOK' /\ CreditConserved'
       /\ \A q \in Requests : RowOK(usage'[q])
       /\ \A w \in Wallets : OverbilledOn(KeysOf(w))' = OverbilledOn(KeysOf(w))
            + (IF w = WalletOf[k] THEN Overbilled(row) - RowExcess({k}, usage[r]) ELSE 0)
       /\ \A j \in Keys : OverbilledOn({j})' = OverbilledOn({j})
            + (IF j = k THEN Overbilled(row) - RowExcess({k}, usage[r]) ELSE 0)
  <2>1. usage[r].state = "absent" \/ usage[r].key = k
    BY DEF k
  <2>2. /\ balance' = [balance EXCEPT ![WalletOf[k]] = @ - d]
        /\ spent' = [spent EXCEPT ![k] = @ + d]
    <3>1. /\ balance[WalletOf[k]] + (old - billed) = balance[WalletOf[k]] - d
          /\ spent[k] - (old - billed) = spent[k] + d
      BY <1>2, <1>7, <1>9
    <3>2. QED
      BY <1>4, <3>1
  <2>3. ChargeMove(r, k, row, d)
    BY <1>3, <1>4, <1>6, <1>8, <2>1, <2>2 DEF ChargeMove
  <2>4. QED
    BY <1>2, <1>3, <2>3, ChargeMoves
<1>12. Overbilled(row) = IF d > 0 THEN d ELSE 0
  BY <1>1, <1>2, <1>6, <1>9 DEF d
<1>13. ASSUME NEW ks
       PROVE  OverbilledOn(ks) \in Nat
  BY <1>1, SumsOfRows
<1>14. \A w \in Wallets : balance'[w] + OverbilledOn(KeysOf(w))' >= 0
  <2> SUFFICES ASSUME NEW w \in Wallets
               PROVE  balance'[w] + OverbilledOn(KeysOf(w))' >= 0
    OBVIOUS
  <2>1. /\ OverbilledOn(KeysOf(w))' = OverbilledOn(KeysOf(w))
             + (IF w = WalletOf[k] THEN Overbilled(row) ELSE 0)
        /\ OverbilledOn(KeysOf(w)) \in Nat
    <3>1. OverbilledOn(KeysOf(w))' = OverbilledOn(KeysOf(w))
           + (IF w = WalletOf[k] THEN Overbilled(row) - RowExcess({k}, usage[r]) ELSE 0)
      BY <1>11
    <3>2. OverbilledOn(KeysOf(w)) \in Nat
      BY <1>13
    <3>3. QED
      BY <1>2, <1>5, <1>12, <3>1, <3>2
  <2>2. balance[w] + OverbilledOn(KeysOf(w)) >= 0
    BY DEF PrepaidInv, OverdraftOnlyFromBilling
  <2>3. QED
    BY <1>2, <1>7, <1>10, <1>12, <2>1, <2>2
<1>15. \A j \in Keys : spent'[j] <= KeyLimit[j] + OverbilledOn({j})'
  <2> SUFFICES ASSUME NEW j \in Keys
               PROVE  spent'[j] <= KeyLimit[j] + OverbilledOn({j})'
    OBVIOUS
  <2>1. /\ OverbilledOn({j})' = OverbilledOn({j}) + (IF j = k THEN Overbilled(row) ELSE 0)
        /\ OverbilledOn({j}) \in Nat
    <3>1. OverbilledOn({j})' = OverbilledOn({j})
           + (IF j = k THEN Overbilled(row) - RowExcess({k}, usage[r]) ELSE 0)
      BY <1>11
    <3>2. OverbilledOn({j}) \in Nat
      BY <1>13
    <3>3. QED
      BY <1>2, <1>5, <1>12, <3>1, <3>2
  <2>2. spent[j] <= KeyLimit[j] + OverbilledOn({j}) /\ KeyLimit[j] \in Nat
    BY KeyAssumption DEF PrepaidInv, OverdraftOnlyFromBilling
  <2>3. QED
    BY <1>2, <1>7, <1>10, <1>12, <2>1, <2>2
<1>16. QED
  BY <1>11, <1>14, <1>15 DEF PrepaidInv, OverdraftOnlyFromBilling

LEMMA ReviewKeeps ==
  ASSUME PrepaidInv, NEW r \in Requests, Review(r)
  PROVE  PrepaidInv'
<1> DEFINE row == [usage[r] EXCEPT !.state = "needs_review"]
           k == usage[r].key
<1>1. TypeOK /\ usage[r] \in Row /\ usage[r].state = "reserved"
  BY DEF PrepaidInv, TypeOK, Review
<1>2. k \in Keys
  BY <1>1 DEF PrepaidInv, RowOK
<1>3. /\ row \in Row /\ row.key = k /\ row.state = "needs_review"
      /\ ChargeOf(row) = ChargeOf(usage[r]) /\ Overbilled(row) = 0
      /\ ChargeOf(usage[r]) \in Nat
  BY <1>1 DEF Row, Pending, Closed, ChargeOf, Overbilled
<1>4. usage' = [usage EXCEPT ![r] = row]
  BY <1>1 DEF Review, TypeOK, Row
<1>5. /\ credits' = credits /\ balance' = balance /\ spent' = spent
      /\ revoked' = revoked /\ startup' = startup /\ now' = now
  BY DEF Review
<1>6. RowExcess({k}, usage[r]) = 0 /\ usage[r].key = k
  BY <1>1 DEF RowExcess, Overbilled, Closed
<1> HIDE DEF row, k
<1>7. /\ balance' = [balance EXCEPT ![WalletOf[k]] = @ - 0]
      /\ spent' = [spent EXCEPT ![k] = @ + 0]
  <2>1. /\ balance \in [Wallets -> Int] /\ spent \in [Keys -> Int]
        /\ WalletOf[k] \in Wallets
    BY <1>1, <1>2, KeyAssumption DEF TypeOK
  <2>2. balance[WalletOf[k]] - 0 = balance[WalletOf[k]] /\ spent[k] + 0 = spent[k]
    BY <1>2, <2>1
  <2>3. QED
    BY <1>5, <2>1, <2>2
<1>8. PICK d \in Int : d = 0
  OBVIOUS
<1>8a. ChargeMove(r, k, row, d)
  <2>1. d = ChargeOf(row) - (IF usage[r].state = "absent" THEN 0 ELSE ChargeOf(usage[r]))
    BY <1>1, <1>3, <1>8
  <2>2. /\ balance' = [balance EXCEPT ![WalletOf[k]] = @ - d]
        /\ spent' = [spent EXCEPT ![k] = @ + d]
    BY <1>7, <1>8
  <2>3. row.key = k /\ row.state # "absent" /\ usage[r].key = k
    BY <1>3, <1>6
  <2>4. QED
    BY <1>4, <1>5, <2>1, <2>2, <2>3 DEF ChargeMove
<1>9. /\ TypeOK' /\ CreditConserved'
      /\ \A q \in Requests : RowOK(usage'[q])
      /\ \A w \in Wallets : OverbilledOn(KeysOf(w))' = OverbilledOn(KeysOf(w))
           + (IF w = WalletOf[k] THEN Overbilled(row) - RowExcess({k}, usage[r]) ELSE 0)
      /\ \A j \in Keys : OverbilledOn({j})' = OverbilledOn({j})
           + (IF j = k THEN Overbilled(row) - RowExcess({k}, usage[r]) ELSE 0)
  BY <1>2, <1>3, <1>8a, ChargeMoves
<1>10. ASSUME NEW ks
       PROVE  OverbilledOn(ks) \in Nat
  BY <1>1, SumsOfRows
<1>11. ASSUME NEW w \in Wallets
       PROVE  OverbilledOn(KeysOf(w))' = OverbilledOn(KeysOf(w))
  <2>1. OverbilledOn(KeysOf(w))' = OverbilledOn(KeysOf(w))
           + (IF w = WalletOf[k] THEN Overbilled(row) - RowExcess({k}, usage[r]) ELSE 0)
    BY <1>9
  <2>2. OverbilledOn(KeysOf(w)) \in Nat
    BY <1>10
  <2>3. QED
    BY <1>3, <1>6, <2>1, <2>2
<1>12. ASSUME NEW j \in Keys
       PROVE  OverbilledOn({j})' = OverbilledOn({j})
  <2>1. OverbilledOn({j})' = OverbilledOn({j})
           + (IF j = k THEN Overbilled(row) - RowExcess({k}, usage[r]) ELSE 0)
    BY <1>9
  <2>2. OverbilledOn({j}) \in Nat
    BY <1>10
  <2>3. QED
    BY <1>3, <1>6, <2>1, <2>2
<1>13. OverdraftOnlyFromBilling'
  BY <1>5, <1>11, <1>12 DEF PrepaidInv, OverdraftOnlyFromBilling
<1>14. QED
  BY <1>9, <1>13 DEF PrepaidInv

(* A step that writes neither rows nor credits keeps every sum.            *)
LEMMA SameRowsKeep ==
  ASSUME PrepaidInv, TypeOK',
         usage' = usage, credits' = credits, balance' = balance, spent' = spent
  PROVE  PrepaidInv'
<1>1. ASSUME NEW ks
      PROVE  ChargedOn(ks)' = ChargedOn(ks) /\ OverbilledOn(ks)' = OverbilledOn(ks)
  BY DEF ChargedOn, OverbilledOn, ChargeOn, Exists
<1>2. ASSUME NEW w \in Wallets
      PROVE  CreditedTo(w)' = CreditedTo(w)
  BY DEF CreditedTo
<1>3. CreditConserved'
  BY <1>1, <1>2 DEF PrepaidInv, CreditConserved
<1>4. OverdraftOnlyFromBilling'
  BY <1>1 DEF PrepaidInv, OverdraftOnlyFromBilling
<1>5. QED
  BY <1>3, <1>4 DEF PrepaidInv

LEMMA CreditKeeps ==
  ASSUME PrepaidInv, NEW ref \in Refs, NEW w \in Wallets, NEW amount \in Grants,
         Credit(ref, w, amount)
  PROVE  PrepaidInv'
<1>1. /\ TypeOK /\ amount \in Nat /\ credits[ref] = NoCredit
      /\ credits' = [credits EXCEPT ![ref] = [wallet |-> w, amount |-> amount]]
      /\ balance' = [balance EXCEPT ![w] = @ + amount]
      /\ spent' = spent /\ usage' = usage
  BY QuantityAssumption DEF PrepaidInv, Credit
<1>2. TypeOK'
  <2>1. [wallet |-> w, amount |-> amount] \in [wallet : Wallets \cup {NoValue}, amount : Nat]
    BY <1>1
  <2>2. credits' \in [Refs -> [wallet : Wallets \cup {NoValue}, amount : Nat]]
    BY <1>1, <2>1 DEF TypeOK
  <2>3. balance' \in [Wallets -> Int]
    BY <1>1 DEF TypeOK
  <2>4. QED
    BY <1>1, <2>2, <2>3 DEF TypeOK, Credit
<1>3. ASSUME NEW ks
      PROVE  ChargedOn(ks)' = ChargedOn(ks) /\ OverbilledOn(ks)' = OverbilledOn(ks)
  BY <1>1 DEF ChargedOn, OverbilledOn, ChargeOn, Exists
<1>4. ASSUME NEW v \in Wallets
      PROVE  /\ CreditedTo(v)' = CreditedTo(v) + (IF v = w THEN amount ELSE 0)
             /\ balance'[v] = balance[v] + (IF v = w THEN amount ELSE 0)
             /\ balance[v] \in Int /\ CreditedTo(v) \in Nat
  <2> DEFINE f == [x \in Refs |-> IF credits[x].wallet = v THEN credits[x].amount ELSE 0]
             g == [x \in Refs |-> IF credits'[x].wallet = v THEN credits'[x].amount ELSE 0]
  <2>1. f \in [Refs -> Nat] /\ g \in [Refs -> Nat]
    BY <1>1, <1>2 DEF TypeOK
  <2>2. \A y \in Refs \ {ref} : g[y] = f[y]
    BY <1>1 DEF TypeOK
  <2>3. f[ref] = 0 /\ g[ref] = IF v = w THEN amount ELSE 0
    BY <1>1, NullAssumption DEF TypeOK, NoCredit
  <2>4. CreditedTo(v) = SumOf(f) /\ CreditedTo(v)' = SumOf(g)
    BY DEF CreditedTo
  <2> HIDE DEF f, g
  <2>5. SumOf(g) = SumOf(f) + g[ref] - f[ref]
    BY <2>1, <2>2, SumUpdate, RowAssumption
  <2>6. CreditedTo(v) \in Nat
    BY <1>1, CreditedIsNat
  <2>7. CreditedTo(v)' = CreditedTo(v) + (IF v = w THEN amount ELSE 0)
    BY <1>1, <2>3, <2>4, <2>5, <2>6
  <2>8. /\ balance'[v] = balance[v] + (IF v = w THEN amount ELSE 0)
        /\ balance[v] \in Int
    BY <1>1 DEF TypeOK
  <2>9. QED
    BY <2>6, <2>7, <2>8
<1>5. CreditConserved'
  <2>1. ASSUME NEW v \in Wallets
        PROVE  balance'[v] = CreditedTo(v)' - ChargedOn(KeysOf(v))'
    <3>1. balance[v] = CreditedTo(v) - ChargedOn(KeysOf(v))
      BY DEF PrepaidInv, CreditConserved
    <3>2. ChargedOn(KeysOf(v))' = ChargedOn(KeysOf(v))
      BY <1>3
    <3>3. ChargedOn(KeysOf(v)) \in Nat
      BY <1>1, SumsOfRows
    <3>4. QED
      BY <1>1, <1>4, <3>1, <3>2, <3>3
  <2>2. \A j \in Keys : spent'[j] = ChargedOn({j})'
    BY <1>1, <1>3 DEF PrepaidInv, CreditConserved
  <2>3. QED
    BY <2>1, <2>2 DEF CreditConserved
<1>6. OverdraftOnlyFromBilling'
  <2>1. ASSUME NEW v \in Wallets
        PROVE  balance'[v] + OverbilledOn(KeysOf(v))' >= 0
    <3>1. balance[v] + OverbilledOn(KeysOf(v)) >= 0
      BY DEF PrepaidInv, OverdraftOnlyFromBilling
    <3>2. OverbilledOn(KeysOf(v))' = OverbilledOn(KeysOf(v))
      BY <1>3
    <3>3. OverbilledOn(KeysOf(v)) \in Nat
      BY <1>1, SumsOfRows
    <3>4. QED
      BY <1>1, <1>4, <3>1, <3>2, <3>3
  <2>2. \A j \in Keys : spent'[j] <= KeyLimit[j] + OverbilledOn({j})'
    BY <1>1, <1>3 DEF PrepaidInv, OverdraftOnlyFromBilling
  <2>3. QED
    BY <2>1, <2>2 DEF OverdraftOnlyFromBilling
<1>7. QED
  BY <1>1, <1>2, <1>5, <1>6 DEF PrepaidInv

-----------------------------------------------------------------------------

LEMMA PrepaidStepOK == PrepaidInv /\ [Next]_vars => PrepaidInv'
<1> SUFFICES ASSUME PrepaidInv, [Next]_vars
             PROVE  PrepaidInv'
  OBVIOUS
<1>0. TypeOK
  BY DEF PrepaidInv
<1>1. CASE CreditAny
  BY <1>1, CreditKeeps DEF CreditAny
<1>2. ASSUME NEW r \in Requests, ReserveAny(r)
      PROVE  PrepaidInv'
  BY <1>2, ReserveKeeps DEF ReserveAny
<1>3. ASSUME NEW r \in Requests, SettleAny(r)
      PROVE  PrepaidInv'
  BY <1>3, SettleKeeps DEF SettleAny
<1>4. ASSUME NEW r \in Requests, Review(r)
      PROVE  PrepaidInv'
  BY <1>4, ReviewKeeps
<1>5. ASSUME NEW k \in Keys, Revoke(k)
      PROVE  PrepaidInv'
  <2>1. TypeOK'
    BY <1>0, <1>5 DEF TypeOK, Revoke
  <2>2. QED
    BY <1>5, <2>1, SameRowsKeep DEF Revoke
<1>6. CASE Restart
  <2>1. TypeOK'
    BY <1>0, <1>6 DEF TypeOK, Restart
  <2>2. QED
    BY <1>6, <2>1, SameRowsKeep DEF Restart
<1>7. CASE Tick
  <2>1. TypeOK'
    BY <1>0, <1>7 DEF TypeOK, Tick
  <2>2. QED
    BY <1>7, <2>1, SameRowsKeep DEF Tick
<1>8. CASE UNCHANGED vars
  <2>1. TypeOK'
    BY <1>0, <1>8 DEF TypeOK, vars
  <2>2. QED
    BY <1>8, <2>1, SameRowsKeep DEF vars
<1>9. QED
  BY <1>1, <1>2, <1>3, <1>4, <1>5, <1>6, <1>7, <1>8 DEF Next

LEMMA PrepaidInvariant == Spec => []PrepaidInv
<1>1. Init => PrepaidInv
  BY PrepaidInitOK
<1>2. PrepaidInv /\ [Next]_vars => PrepaidInv'
  BY PrepaidStepOK
<1>3. QED
  BY <1>1, <1>2, PTL DEF Spec

(* Every row, running value and credit keeps its type, and every row that   *)
(* exists names a key of the ledger (store.py reserve, settle, review).    *)
THEOREM PrepaidTyped == Spec => []TypeOK
<1>1. PrepaidInv => TypeOK
  BY DEF PrepaidInv
<1>2. QED
  BY <1>1, PrepaidInvariant, PTL

(* For every number of rows, keys and wallets, the running balance of a     *)
(* wallet is its credits less its rows' charges, and a key's running spend  *)
(* is the charges of its rows (store.py credit, reserve, settle).          *)
THEOREM CreditIsConserved == Spec => []CreditConserved
<1>1. PrepaidInv => CreditConserved
  BY DEF PrepaidInv
<1>2. QED
  BY <1>1, PrepaidInvariant, PTL

(* A wallet is overdrawn, and a key exceeds its limit, only by what its     *)
(* settlements billed beyond their reservations (store.py reserve).        *)
THEOREM OverdraftsAreBilled == Spec => []OverdraftOnlyFromBilling
<1>1. PrepaidInv => OverdraftOnlyFromBilling
  BY DEF PrepaidInv
<1>2. QED
  BY <1>1, PrepaidInvariant, PTL

-----------------------------------------------------------------------------

(* What one step may do to a row.                                          *)
LEMMA ReviewStep ==
  ASSUME TypeOK, [Next]_vars, NEW r \in Requests
  PROVE  /\ usage[r].state \in Closed => usage'[r] = usage[r]
         /\ usage[r].state = "needs_review" =>
              \/ usage'[r] = usage[r]
              \/ usage'[r].state = "operator_settled" /\ usage'[r].evidence
<1>1. CASE UNCHANGED usage
  BY <1>1
<1>2. ASSUME NEW q \in Requests, ReserveAny(q)
      PROVE  usage'[r] = usage[r] \/ usage[r].state = "absent"
  <2>1. PICK row : usage[q].state = "absent" /\ usage' = [usage EXCEPT ![q] = row]
    BY <1>2, ReserveWrites DEF ReserveAny
  <2>2. QED
    BY <2>1 DEF TypeOK
<1>3. ASSUME NEW q \in Requests, Review(q)
      PROVE  usage'[r] = usage[r] \/ usage[r].state = "reserved"
  BY <1>3 DEF Review, TypeOK
<1>4. ASSUME NEW q \in Requests, SettleAny(q)
      PROVE  \/ usage'[r] = usage[r]
             \/ usage[r].state = "reserved"
             \/ /\ usage[r].state = "needs_review"
                /\ usage'[r].state = "operator_settled" /\ usage'[r].evidence
  <2>1. PICK billed \in Bills, operator \in BOOLEAN : Settle(q, billed, operator)
    BY <1>4 DEF SettleAny
  <2>2. /\ usage[q].state = "reserved" \/ (usage[q].state = "needs_review" /\ operator)
        /\ usage' = [usage EXCEPT ![q] = Settled(q, billed, operator)]
    BY <2>1 DEF Settle, Reprice, Pending
  <2>3. operator => /\ Settled(q, billed, operator).state = "operator_settled"
                    /\ Settled(q, billed, operator).evidence
    BY DEF Settled, TypeOK, Row
  <2>4. QED
    BY <2>2, <2>3 DEF TypeOK
<1>5. Next \/ UNCHANGED usage
  BY DEF vars
<1>6. QED
  <2>1. CASE UNCHANGED usage
    BY <2>1
  <2>2. CASE \E q \in Requests : ReserveAny(q)
    BY <2>2, <1>2 DEF Closed
  <2>3. CASE \E q \in Requests : SettleAny(q)
    BY <2>3, <1>4 DEF Closed
  <2>4. CASE \E q \in Requests : Review(q)
    BY <2>4, <1>3 DEF Closed
  <2>5. CASE CreditAny \/ (\E k \in Keys : Revoke(k)) \/ Restart \/ Tick
    BY <2>5 DEF CreditAny, Credit, Revoke, Restart, Tick
  <2>6. QED
    BY <1>5, <2>1, <2>2, <2>3, <2>4, <2>5 DEF Next

(* No step rewrites a settled row, and only an operator's reconciliation    *)
(* closes one under review (store.py settle, review).                      *)
THEOREM ReviewsNeedOperator == Spec => ReviewClosedByOperator
<1>1. TypeOK /\ [Next]_vars =>
        [\A r \in Requests :
           /\ usage[r].state \in Closed => usage'[r] = usage[r]
           /\ usage[r].state = "needs_review" =>
                \/ usage'[r] = usage[r]
                \/ usage'[r].state = "operator_settled" /\ usage'[r].evidence]_vars
  BY ReviewStep
<1>2. QED
  BY <1>1, PrepaidTyped, PTL DEF Spec, ReviewClosedByOperator
-----------------------------------------------------------------------------
(* The daily budgets.  What a row is charged for on a day, for the keys    *)
(* ks, and how much of it no check of that day has seen.                   *)

RowOnDay(ks, day, row) ==
  IF row.state # "absent" /\ DayOf(row.created) = day
  THEN RowCharge(ks, row) ELSE 0

RowBeyond(ks, day, row) ==
  IF row.state # "absent" /\ row.key \in ks /\ DayOf(row.created) = day
  THEN Beyond(row) ELSE 0

DayFits(ks, day, budget) == DayCharge(ks, day) <= budget + DayBeyond(ks, day)

LEMMA DayNats ==
  ASSUME NEW row \in Row, NEW ks, NEW day
  PROVE  RowOnDay(ks, day, row) \in Nat /\ RowBeyond(ks, day, row) \in Nat
BY RowNats DEF RowOnDay, RowBeyond, Beyond

LEMMA DayTypes ==
  ASSUME TypeOK, NEW ks, NEW day
  PROVE  /\ DayCharge(ks, day) = SumOf([q \in Requests |-> RowOnDay(ks, day, usage[q])])
         /\ DayCharge(ks, day) \in Nat /\ DayBeyond(ks, day) \in Nat
<1> DEFINE f == [q \in Requests |-> RowOnDay(ks, day, usage[q])]
           g == [q \in Requests |-> RowBeyond(ks, day, usage[q])]
<1>1. f \in [Requests -> Nat] /\ g \in [Requests -> Nat]
  BY DayNats DEF TypeOK
<1>2. DayCharge(ks, day) = SumOf(f) /\ DayBeyond(ks, day) = SumOf(g)
  BY DEF DayCharge, DayBeyond, ChargeOn, Exists, RowOnDay, RowBeyond, RowCharge
<1> HIDE DEF f, g
<1>3. SumOf(f) \in Nat /\ SumOf(g) \in Nat
  BY <1>1, SumType, RowAssumption
<1>4. QED
  BY <1>2, <1>3 DEF f

(* What writing one row does to a day.                                     *)
LEMMA WriteDay ==
  ASSUME TypeOK, NEW r \in Requests, NEW row \in Row, NEW ks, NEW day,
         usage' = [usage EXCEPT ![r] = row]
  PROVE  /\ DayCharge(ks, day)' = DayCharge(ks, day)
              + RowOnDay(ks, day, row) - RowOnDay(ks, day, usage[r])
         /\ DayBeyond(ks, day)' = DayBeyond(ks, day)
              + RowBeyond(ks, day, row) - RowBeyond(ks, day, usage[r])
<1> DEFINE f == [q \in Requests |-> RowOnDay(ks, day, usage[q])]
           f2 == [q \in Requests |-> RowOnDay(ks, day, usage'[q])]
           g == [q \in Requests |-> RowBeyond(ks, day, usage[q])]
           g2 == [q \in Requests |-> RowBeyond(ks, day, usage'[q])]
<1>1. /\ f \in [Requests -> Nat] /\ f2 \in [Requests -> Nat]
      /\ g \in [Requests -> Nat] /\ g2 \in [Requests -> Nat]
  BY DayNats DEF TypeOK
<1>2. /\ \A q \in Requests \ {r} : f2[q] = f[q] /\ g2[q] = g[q]
      /\ f[r] = RowOnDay(ks, day, usage[r]) /\ f2[r] = RowOnDay(ks, day, row)
      /\ g[r] = RowBeyond(ks, day, usage[r]) /\ g2[r] = RowBeyond(ks, day, row)
  BY DEF TypeOK
<1>3. /\ DayCharge(ks, day) = SumOf(f) /\ DayCharge(ks, day)' = SumOf(f2)
      /\ DayBeyond(ks, day) = SumOf(g) /\ DayBeyond(ks, day)' = SumOf(g2)
  BY DEF DayCharge, DayBeyond, ChargeOn, Exists, RowOnDay, RowBeyond, RowCharge
<1> HIDE DEF f, f2, g, g2
<1>4. SumOf(f2) = SumOf(f) + f2[r] - f[r]
  BY <1>1, <1>2, SumUpdate, RowAssumption
<1>5. SumOf(g2) = SumOf(g) + g2[r] - g[r]
  BY <1>1, <1>2, SumUpdate, RowAssumption
<1>6. QED
  BY <1>2, <1>3, <1>4, <1>5

(* Days follow the clock: a time between two of one day is of that day.    *)
LEMMA DaysInOrder ==
  ASSUME NEW a \in Nat, NEW b \in Nat, NEW c \in Nat, a <= b, b <= c,
         DayOf(a) = DayOf(c)
  PROVE  DayOf(b) = DayOf(a)
BY QuantityAssumption, DivMonotone DEF DayOf

(* The budget usage read at `time` covers the charges of that day.         *)
LEMMA TodayCovered ==
  ASSUME TypeOK, NEW ks, NEW ws, NEW time, \A k \in ks : WalletOf[k] \in ws
  PROVE  /\ BudgetUsage(ws, time) \in Nat
         /\ DayCharge(ks, DayOf(time)) <= BudgetUsage(ws, time)
<1> DEFINE day == DayOf(time)
           f == [q \in Requests |-> RowOnDay(ks, day, usage[q])]
           b == [q \in RowsOf(ws) |->
                   IF \/ usage[q].created >= day * DayLength
                      \/ usage[q].state \in Pending
                   THEN ChargeOf(usage[q]) ELSE 0]
           g == [q \in Requests |-> IF q \in RowsOf(ws) THEN b[q] ELSE 0]
<1>1. RowsOf(ws) \subseteq Requests
  BY DEF RowsOf
<1>2. \A q \in Requests : /\ usage[q].created \in Nat /\ ChargeOf(usage[q]) \in Nat
                          /\ f[q] \in Nat
  BY RowNats, DayNats DEF TypeOK
<1>3. \A q \in Requests :
        DayOf(usage[q].created) = day => usage[q].created >= day * DayLength
  <2> TAKE q \in Requests
  <2>1. usage[q].created \in Nat /\ DayLength \in Nat \ {0}
    BY <1>2, QuantityAssumption
  <2>2. /\ usage[q].created \div DayLength \in Nat
        /\ (usage[q].created \div DayLength) * DayLength <= usage[q].created
    BY <2>1, DivFloor
  <2>3. QED
    BY <2>1, <2>2 DEF DayOf
<1>4. BudgetUsage(ws, time) = SumOf(b)
  BY DEF BudgetUsage
<1>5. DayCharge(ks, DayOf(time)) = SumOf(f)
  BY DayTypes
<1> HIDE DEF day
<1>6. /\ f \in [Requests -> Nat] /\ g \in [Requests -> Nat]
      /\ b \in [RowsOf(ws) -> Nat]
  BY <1>1, <1>2
<1>7. \A q \in Requests : f[q] <= g[q]
  <2> TAKE q \in Requests
  <2>1. ChargeOf(usage[q]) \in Nat
    BY <1>2
  <2>2. CASE RowOnDay(ks, day, usage[q]) = 0
    BY <1>6, <2>2
  <2>3. CASE RowOnDay(ks, day, usage[q]) # 0
    <3>1. /\ usage[q].state # "absent" /\ DayOf(usage[q].created) = day
          /\ usage[q].key \in ks /\ f[q] = ChargeOf(usage[q])
      BY <2>3 DEF RowOnDay, RowCharge
    <3>2. q \in RowsOf(ws)
      BY <3>1 DEF RowsOf, Exists
    <3>3. g[q] = ChargeOf(usage[q])
      BY <1>3, <3>1, <3>2
    <3>4. QED
      BY <2>1, <3>1, <3>3
  <2>4. QED
    BY <2>2, <2>3
<1>8. /\ \A q \in RowsOf(ws) : b[q] = g[q]
      /\ \A q \in Requests \ RowsOf(ws) : g[q] = 0
  BY <1>1
<1> HIDE DEF f, b, g
<1>9. SumOf(b) = SumOf(g)
  BY <1>1, <1>6, <1>8, SumRestrict
<1>10. SumOf(f) <= SumOf(g) /\ SumOf(g) \in Nat
  BY <1>6, <1>7, SumMonotone, SumType, RowAssumption
<1>11. QED
  BY <1>4, <1>5, <1>9, <1>10

(* A write whose charge grows by no more than what goes beyond the day's   *)
(* check keeps every budget.                                               *)
LEMMA CoveredKeepsDay ==
  ASSUME TypeOK, NEW r \in Requests, NEW row \in Row,
         usage' = [usage EXCEPT ![r] = row],
         NEW ks, NEW day, NEW budget \in Nat, DayFits(ks, day, budget),
         RowOnDay(ks, day, row) + RowBeyond(ks, day, usage[r])
           <= RowOnDay(ks, day, usage[r]) + RowBeyond(ks, day, row)
  PROVE  DayFits(ks, day, budget)'
<1>1. usage[r] \in Row
  BY DEF TypeOK
<1>2. /\ RowOnDay(ks, day, row) \in Nat /\ RowBeyond(ks, day, row) \in Nat
      /\ RowOnDay(ks, day, usage[r]) \in Nat /\ RowBeyond(ks, day, usage[r]) \in Nat
  BY <1>1, DayNats
<1>3. DayCharge(ks, day) \in Nat /\ DayBeyond(ks, day) \in Nat
  BY DayTypes
<1>4. /\ DayCharge(ks, day)' = DayCharge(ks, day)
           + RowOnDay(ks, day, row) - RowOnDay(ks, day, usage[r])
      /\ DayBeyond(ks, day)' = DayBeyond(ks, day)
           + RowBeyond(ks, day, row) - RowBeyond(ks, day, usage[r])
  BY WriteDay
<1>5. DayCharge(ks, day) <= budget + DayBeyond(ks, day)
  BY DEF DayFits
<1>6. DayCharge(ks, day)' <= budget + DayBeyond(ks, day)'
  BY <1>2, <1>3, <1>4, <1>5
<1>7. QED
  BY <1>6 DEF DayFits

(* A settlement or a review rewrites a pending row and keeps what its      *)
(* reservation wrote.                                                      *)
LEMMA SettleWrites ==
  ASSUME TypeOK, NEW r \in Requests, SettleAny(r) \/ Review(r)
  PROVE  \E row \in Row :
           /\ usage' = [usage EXCEPT ![r] = row]
           /\ usage[r].state \in Pending /\ row.state # "absent"
           /\ row.state \in Closed \/ row.state \in Pending
           /\ row.key = usage[r].key /\ row.amount = usage[r].amount
           /\ row.created = usage[r].created /\ row.admitted = usage[r].admitted
<1>1. usage[r] \in Row
  BY DEF TypeOK
<1>2. CASE SettleAny(r)
  <2>1. PICK billed \in Bills, operator \in BOOLEAN : Settle(r, billed, operator)
    BY <1>2 DEF SettleAny
  <2> DEFINE row == Settled(r, billed, operator)
  <2>2. usage[r].state \in Pending /\ usage' = [usage EXCEPT ![r] = row]
    BY <2>1 DEF Settle, Reprice
  <2>3. /\ row \in Row /\ row.state \in Closed /\ row.state # "absent"
        /\ row.key = usage[r].key /\ row.amount = usage[r].amount
        /\ row.created = usage[r].created /\ row.admitted = usage[r].admitted
    BY <1>1, QuantityAssumption DEF Settled, Row, Closed
  <2> HIDE DEF row
  <2>4. QED
    BY <2>2, <2>3
<1>3. CASE Review(r)
  <2> DEFINE row == [usage[r] EXCEPT !.state = "needs_review"]
  <2>1. usage[r].state = "reserved" /\ usage' = [usage EXCEPT ![r] = row]
    BY <1>1, <1>3 DEF Review, TypeOK, Row
  <2>2. /\ row \in Row /\ row.state = "needs_review" /\ row.key = usage[r].key
        /\ row.amount = usage[r].amount
        /\ row.created = usage[r].created /\ row.admitted = usage[r].admitted
    BY <1>1 DEF Row, Pending
  <2> HIDE DEF row
  <2>3. QED
    BY <2>1, <2>2 DEF Pending
<1>4. QED
  BY <1>2, <1>3

LEMMA SettleKeepsDay ==
  ASSUME TypeOK, NEW r \in Requests, SettleAny(r) \/ Review(r),
         NEW ks, NEW day, NEW budget \in Nat, DayFits(ks, day, budget)
  PROVE  DayFits(ks, day, budget)'
<1>1. PICK row \in Row :
        /\ usage' = [usage EXCEPT ![r] = row]
        /\ usage[r].state \in Pending /\ row.state # "absent"
        /\ row.state \in Closed \/ row.state \in Pending
        /\ row.key = usage[r].key /\ row.amount = usage[r].amount
        /\ row.created = usage[r].created /\ row.admitted = usage[r].admitted
  BY SettleWrites
<1>2. /\ usage[r] \in Row /\ row.billed \in Nat /\ row.amount \in Nat
      /\ usage[r].state # "absent"
  BY <1>1, RowNats DEF TypeOK, Pending
<1>3. CASE ~(row.key \in ks /\ DayOf(row.created) = day)
  <2>1. /\ RowOnDay(ks, day, row) = 0 /\ RowOnDay(ks, day, usage[r]) = 0
        /\ RowBeyond(ks, day, row) = 0 /\ RowBeyond(ks, day, usage[r]) = 0
    BY <1>1, <1>3 DEF RowOnDay, RowCharge, RowBeyond
  <2>2. RowOnDay(ks, day, row) + RowBeyond(ks, day, usage[r])
          <= RowOnDay(ks, day, usage[r]) + RowBeyond(ks, day, row)
    BY <2>1
  <2>3. QED
    BY <1>1, <2>2, CoveredKeepsDay
<1>4. CASE row.key \in ks /\ DayOf(row.created) = day
  <2>1. /\ RowOnDay(ks, day, row) = ChargeOf(row)
        /\ RowOnDay(ks, day, usage[r]) = row.amount
        /\ RowBeyond(ks, day, row) = Beyond(row)
        /\ RowBeyond(ks, day, usage[r]) = Beyond(usage[r])
    BY <1>1, <1>2, <1>4 DEF RowOnDay, RowCharge, RowBeyond, ChargeOf
  <2>2. CASE OverMidnight(row)
    <3>1. Beyond(row) = ChargeOf(row) /\ Beyond(usage[r]) = row.amount
      BY <1>1, <2>2 DEF Beyond, OverMidnight, ChargeOf
    <3>2. ChargeOf(row) \in Nat
      BY RowNats
    <3>3. RowOnDay(ks, day, row) + RowBeyond(ks, day, usage[r])
            <= RowOnDay(ks, day, usage[r]) + RowBeyond(ks, day, row)
      BY <1>2, <2>1, <3>1, <3>2
    <3>4. QED
      BY <1>1, <3>3, CoveredKeepsDay
  <2>3. CASE ~OverMidnight(row)
    <3>1. Beyond(usage[r]) = 0
      BY <1>1, <2>3 DEF Beyond, OverMidnight, Overbilled, Closed, Pending
    <3>2. Beyond(row) = Overbilled(row)
      BY <2>3 DEF Beyond
    <3>3. ChargeOf(row) <= row.amount + Overbilled(row)
      BY <1>1, <1>2 DEF ChargeOf, Overbilled, Closed, Pending
    <3>4. RowOnDay(ks, day, row) + RowBeyond(ks, day, usage[r])
            <= RowOnDay(ks, day, usage[r]) + RowBeyond(ks, day, row)
      <4>1. ChargeOf(row) \in Nat /\ Overbilled(row) \in Nat
        BY RowNats
      <4>2. QED
        BY <1>2, <2>1, <3>1, <3>2, <3>3, <4>1
    <3>5. QED
      BY <1>1, <3>4, CoveredKeepsDay
  <2>4. QED
    BY <2>2, <2>3
<1>5. QED
  BY <1>3, <1>4

(* A reservation enters after the charges of the day it is stamped with,   *)
(* with it, were found to fit, or else over midnight.                      *)
LEMMA ReserveKeepsDay ==
  ASSUME TypeOK, NEW r \in Requests, NEW k \in Keys, NEW i \in Idems,
         NEW amount \in Amounts, NEW rpm \in Rates,
         NEW stamp \in Instants, NEW read \in Instants,
         Admit(r, k, i, amount, rpm, stamp, read),
         NEW ks, NEW ws, \A j \in ks : WalletOf[j] \in ws,
         NEW day, NEW budget \in Nat, DayFits(ks, day, budget),
         NEW time \in Nat, stamp <= time, time <= now,
         k \in ks => BudgetUsage(ws, time) + amount <= budget
  PROVE  DayFits(ks, day, budget)'
<1> DEFINE row == [NoRow EXCEPT !.state = "reserved", !.key = k, !.idem = i,
                                !.amount = amount, !.created = stamp,
                                !.admitted = now]
<1>1. /\ amount \in Nat /\ now \in Nat /\ stamp \in Nat
      /\ usage[r].state = "absent" /\ usage' = [usage EXCEPT ![r] = row]
  BY QuantityAssumption DEF TypeOK, Admit, Exists, Instants
<1>2. /\ row \in Row /\ row.state = "reserved" /\ row.key = k
      /\ row.amount = amount /\ row.created = stamp /\ row.admitted = now
  BY <1>1 DEF NoRow, Row, Pending, Closed
<1> HIDE DEF row
<1>3. /\ RowOnDay(ks, day, usage[r]) = 0 /\ RowBeyond(ks, day, usage[r]) = 0
      /\ RowOnDay(ks, day, row)
           = IF k \in ks /\ day = DayOf(stamp) THEN amount ELSE 0
  BY <1>1, <1>2 DEF RowOnDay, RowCharge, ChargeOf, RowBeyond, Pending
<1>4. CASE k \in ks /\ day = DayOf(stamp) /\ DayOf(stamp) = DayOf(now)
  <2>0. day = DayOf(time)
    BY <1>1, <1>4, DaysInOrder
  <2>1. /\ BudgetUsage(ws, time) \in Nat
        /\ DayCharge(ks, day) <= BudgetUsage(ws, time)
    BY <2>0, TodayCovered
  <2>2. /\ DayCharge(ks, day) \in Nat /\ DayBeyond(ks, day) \in Nat
        /\ RowBeyond(ks, day, row) \in Nat
    BY <1>2, DayTypes, DayNats
  <2>3. /\ DayCharge(ks, day)' = DayCharge(ks, day)
             + RowOnDay(ks, day, row) - RowOnDay(ks, day, usage[r])
        /\ DayBeyond(ks, day)' = DayBeyond(ks, day)
             + RowBeyond(ks, day, row) - RowBeyond(ks, day, usage[r])
    BY <1>1, <1>2, WriteDay
  <2>4. /\ DayCharge(ks, day)' = DayCharge(ks, day) + amount
        /\ DayBeyond(ks, day)' = DayBeyond(ks, day) + RowBeyond(ks, day, row)
    BY <1>1, <1>3, <1>4, <2>2, <2>3
  <2>5. DayCharge(ks, day)' <= budget + DayBeyond(ks, day)'
    BY <1>1, <1>4, <2>1, <2>2, <2>4
  <2>6. QED
    BY <2>5 DEF DayFits
<1>5. CASE ~(k \in ks /\ day = DayOf(stamp)) \/ DayOf(stamp) # DayOf(now)
  <2>1. RowBeyond(ks, day, row) \in Nat
    BY <1>2, DayNats
  <2>2. RowOnDay(ks, day, row) = 0 \/ RowOnDay(ks, day, row) = RowBeyond(ks, day, row)
    BY <1>2, <1>3, <1>5 DEF RowBeyond, Beyond, OverMidnight, ChargeOf, Pending
  <2>3. RowOnDay(ks, day, row) + RowBeyond(ks, day, usage[r])
          <= RowOnDay(ks, day, usage[r]) + RowBeyond(ks, day, row)
    BY <1>1, <1>3, <2>1, <2>2
  <2>4. QED
    BY <1>1, <1>2, <2>3, CoveredKeepsDay
<1>6. QED
  BY <1>4, <1>5

(* A row is inserted at or after its stamp, and of two rows one was        *)
(* inserted before the other was stamped.                                  *)
Serial ==
  /\ \A r \in Requests : usage[r].created <= usage[r].admitted
  /\ \A r, s \in Requests :
       Exists(r) /\ Exists(s) /\ r # s =>
         \/ usage[r].admitted <= usage[s].created
         \/ usage[s].admitted <= usage[r].created

(* Reservations are stamped after the one before them was inserted, and    *)
(* nothing changes either time.                                            *)
LEMMA SerialStep == TypeOK /\ Serial /\ [Next]_vars => Serial'
<1> SUFFICES ASSUME TypeOK, Serial, [Next]_vars PROVE Serial'
  OBVIOUS
<1>1. CASE usage' = usage
  BY <1>1 DEF Serial, Exists
<1>2. ASSUME NEW r \in Requests, ReserveAny(r) PROVE Serial'
  <2>1. PICK k \in Keys, i \in Idems, amount \in Amounts, rpm \in Rates :
          Reserve(r, k, i, amount, rpm)
    BY <1>2 DEF ReserveAny
  <2>2. PICK stamp \in Instants, read \in Instants :
          /\ \A s \in Requests : usage[s].admitted <= stamp
          /\ Admit(r, k, i, amount, rpm, stamp, read)
    BY <2>1 DEF Reserve
  <2>3. /\ usage'[r].created = stamp /\ usage'[r].admitted = now
        /\ \A q \in Requests \ {r} : usage'[q] = usage[q]
    BY <2>2 DEF Admit, TypeOK, NoRow
  <2>4. stamp <= now
    BY DEF Instants
  <2>5. QED
    BY <2>2, <2>3, <2>4 DEF Serial, Exists
<1>3. ASSUME NEW r \in Requests, SettleAny(r) \/ Review(r) PROVE Serial'
  <2>1. /\ usage[r].state # "absent"
        /\ usage'[r].created = usage[r].created
        /\ usage'[r].admitted = usage[r].admitted
        /\ \A q \in Requests \ {r} : usage'[q] = usage[q]
    BY <1>3, SettleWrites DEF TypeOK, Pending
  <2>2. QED
    BY <2>1 DEF Serial, Exists
<1>4. QED
  BY <1>1, <1>2, <1>3 DEF Next, vars, CreditAny, Credit, Revoke, Restart, Tick

(* Of two rows stamped with one day, the earlier was inserted on that day. *)
LEMMA OneOverMidnight ==
  ASSUME TypeOK, Serial, NEW r \in Requests, NEW s \in Requests,
         Exists(r), Exists(s), OverMidnight(usage[r]), OverMidnight(usage[s]),
         DayOf(usage[r].created) = DayOf(usage[s].created)
  PROVE  r = s
<1>1. /\ usage[r].created \in Nat /\ usage[r].admitted \in Nat
      /\ usage[s].created \in Nat /\ usage[s].admitted \in Nat
  BY DEF TypeOK, Row
<1>2. ASSUME usage[r].admitted <= usage[s].created PROVE FALSE
  <2>1. DayOf(usage[r].admitted) = DayOf(usage[r].created)
    BY <1>1, <1>2, DaysInOrder DEF Serial
  <2>2. QED
    BY <2>1 DEF OverMidnight
<1>3. ASSUME usage[s].admitted <= usage[r].created PROVE FALSE
  <2>1. DayOf(usage[s].admitted) = DayOf(usage[s].created)
    BY <1>1, <1>3, DaysInOrder DEF Serial
  <2>2. QED
    BY <2>1 DEF OverMidnight
<1>4. QED
  BY <1>2, <1>3 DEF Serial

(* What the requests stamped with one UTC day are charged stays within the *)
(* daily budgets, overall and per wallet, except by what settlements       *)
(* billed above their reservations and by one request at most, which       *)
(* waited for the lock over midnight (store.py reserve, budget_usage).     *)
THEOREM BudgetsExceededByOneAtMost == Spec => []BudgetExceededByOneAtMost
<1> DEFINE AllFit == \A day \in Nat :
             /\ DayFits(Keys, day, DailyBudget)
             /\ \A w \in Wallets : DayFits(KeysOf(w), day, WalletBudget)
<1>0. Init => Serial
  BY DEF Init, NoRow, Serial, Exists
<1>1. Init => AllFit
  <2> SUFFICES ASSUME Init, NEW day \in Nat, NEW ks, NEW budget \in Nat
               PROVE  DayFits(ks, day, budget)
    BY QuantityAssumption
  <2>1. TypeOK
    BY PrepaidInitOK DEF PrepaidInv
  <2>2. DayBeyond(ks, day) \in Nat
    BY <2>1, DayTypes
  <2> DEFINE f == [q \in Requests |-> RowOnDay(ks, day, usage[q])]
  <2>3. f \in [Requests -> Nat] /\ \A q \in Requests : f[q] = 0
    BY DEF Init, NoRow, RowOnDay
  <2>4. DayCharge(ks, day) = SumOf(f)
    BY <2>1, DayTypes
  <2> HIDE DEF f
  <2>5. SumOf(f) = 0
    BY <2>3, SumZero
  <2>6. QED
    BY <2>2, <2>4, <2>5 DEF DayFits
<1>2. TypeOK /\ AllFit /\ [Next]_vars => AllFit'
  <2> SUFFICES ASSUME TypeOK, AllFit, [Next]_vars, NEW day \in Nat
               PROVE  /\ DayFits(Keys, day, DailyBudget)'
                      /\ \A w \in Wallets : DayFits(KeysOf(w), day, WalletBudget)'
    BY DEF KeysOf
  <2>1. DailyBudget \in Nat /\ WalletBudget \in Nat
    BY QuantityAssumption
  <2>2. /\ DayFits(Keys, day, DailyBudget)
        /\ \A w \in Wallets : DayFits(KeysOf(w), day, WalletBudget)
    OBVIOUS
  <2>3. CASE usage' = usage
    BY <2>2, <2>3 DEF DayFits, DayCharge, DayBeyond, ChargeOn, Exists, KeysOf
  <2>4. ASSUME NEW r \in Requests, ReserveAny(r)
        PROVE  /\ DayFits(Keys, day, DailyBudget)'
               /\ \A w \in Wallets : DayFits(KeysOf(w), day, WalletBudget)'
    <3>1. PICK k \in Keys, i \in Idems, amount \in Amounts, rpm \in Rates :
            Reserve(r, k, i, amount, rpm)
      BY <2>4 DEF ReserveAny
    <3>0. PICK stamp \in Instants, read \in Instants :
            stamp <= read /\ Admit(r, k, i, amount, rpm, stamp, read)
      BY <3>1 DEF Reserve
    <3>2. /\ BudgetUsage(Wallets, read) + amount <= DailyBudget
          /\ BudgetUsage({WalletOf[k]}, now) + amount <= WalletBudget
      BY <3>0 DEF Admit, Admissible
    <3>2a. /\ read \in Nat /\ now \in Nat
           /\ stamp <= read /\ read <= now /\ stamp <= now /\ now <= now
      BY <3>0 DEF TypeOK, Instants
    <3>3. DayFits(Keys, day, DailyBudget)'
      <4>1. \A j \in Keys : WalletOf[j] \in Wallets
        BY KeyAssumption
      <4>2. QED
        BY <2>1, <2>2, <3>0, <3>2, <3>2a, <4>1, ReserveKeepsDay
    <3>4. ASSUME NEW w \in Wallets PROVE DayFits(KeysOf(w), day, WalletBudget)'
      <4>1. \A j \in KeysOf(w) : WalletOf[j] \in {w}
        BY DEF KeysOf
      <4>2. k \in KeysOf(w) => BudgetUsage({w}, now) + amount <= WalletBudget
        BY <3>2 DEF KeysOf
      <4>3. DayFits(KeysOf(w), day, WalletBudget)
        BY <2>2
      <4> DEFINE ks == KeysOf(w)
      <4>4. ks = KeysOf(w)
        OBVIOUS
      <4> HIDE DEF ks
      <4>5. DayFits(ks, day, WalletBudget)'
        BY <2>1, <3>0, <3>2a, <4>1, <4>2, <4>3, <4>4, ReserveKeepsDay
      <4>6. QED
        BY <4>5 DEF ks
    <3>5. QED
      BY <3>3, <3>4
  <2>5. ASSUME NEW r \in Requests, SettleAny(r) \/ Review(r)
        PROVE  /\ DayFits(Keys, day, DailyBudget)'
               /\ \A w \in Wallets : DayFits(KeysOf(w), day, WalletBudget)'
    BY <2>1, <2>2, <2>5, SettleKeepsDay
  <2>6. QED
    BY <2>3, <2>4, <2>5 DEF Next, vars, CreditAny, Credit, Revoke, Restart, Tick
<1>3. TypeOK /\ AllFit /\ Serial => BudgetExceededByOneAtMost
  <2> SUFFICES ASSUME TypeOK, AllFit, Serial, NEW t \in 0 .. now
               PROVE  /\ DayFits(Keys, DayOf(t), DailyBudget)
                      /\ \A w \in Wallets : DayFits(KeysOf(w), DayOf(t), WalletBudget)
                      /\ \A r, s \in {q \in Requests :
                                        /\ Exists(q) /\ OverMidnight(usage[q])
                                        /\ DayOf(usage[q].created) = DayOf(t)} :
                           r = s
    BY DEF BudgetExceededByOneAtMost, DayFits
  <2>1. t \in Nat /\ DayLength \in Nat \ {0}
    BY QuantityAssumption DEF TypeOK
  <2>2. t \div DayLength \in Nat
    BY <2>1, DivFloor
  <2>3. DayOf(t) \in Nat
    BY <2>2 DEF DayOf
  <2>4. QED
    BY <2>3, OneOverMidnight
<1>4. QED
  BY <1>0, <1>1, <1>2, <1>3, PrepaidTyped, SerialStep, PTL DEF Spec
-----------------------------------------------------------------------------
(* The refinement, one account per wallet.                                 *)

Phases(w) == [r \in Requests |-> PhaseOf(w, r)]

Charges(w) == [r \in Requests |-> ChargeOn(KeysOf(w), r)]

(* A row of the wallet w.                                                  *)
OfWallet(w, row) == row.state # "absent" /\ row.key \in KeysOf(w)

(* Every row the snapshot captured exists, so a new row is never in it.    *)
StartupRows == \A r \in startup : r \in Requests /\ Exists(r)

LEMMA StartupRowsKept == TypeOK /\ StartupRows /\ [Next]_vars => StartupRows'
<1> SUFFICES ASSUME TypeOK, StartupRows, [Next]_vars, NEW q, q \in startup'
             PROVE  q \in Requests /\ usage'[q].state # "absent"
  BY DEF StartupRows, Exists
<1>1. CASE Restart
  BY <1>1 DEF Restart
<1>2. CASE ~Restart
  <2>1. startup' = startup
    BY <1>2, ReserveWrites DEF Next, vars, CreditAny, Credit, ReserveAny, SettleAny,
       Settle, Reprice, Review, Revoke, Tick
  <2>2. q \in Requests /\ usage[q].state # "absent"
    BY <2>1 DEF StartupRows, Exists
  <2>3. ASSUME NEW r \in Requests, ReserveAny(r) PROVE usage'[q] = usage[q]
    <3>1. PICK row : usage[r].state = "absent" /\ usage' = [usage EXCEPT ![r] = row]
      BY <2>3, ReserveWrites DEF ReserveAny
    <3>2. QED
      BY <2>2, <3>1 DEF TypeOK
  <2>4. ASSUME NEW r \in Requests, SettleAny(r) PROVE usage'[q].state # "absent"
    BY <2>2, <2>4 DEF SettleAny, Settle, Reprice, Settled, TypeOK, Row
  <2>5. ASSUME NEW r \in Requests, Review(r) PROVE usage'[q].state # "absent"
    BY <2>2, <2>5 DEF Review, TypeOK, Row
  <2>6. QED
    BY <1>2, <2>2, <2>3, <2>4, <2>5 DEF Next, vars, CreditAny, Credit, Revoke, Tick
<1>3. QED
  BY <1>1, <1>2

(* A step that writes neither rows, credits nor the snapshot is invisible. *)
LEMMA QuietAccount ==
  ASSUME NEW w \in Wallets, usage' = usage, startup' = startup, credits' = credits
  PROVE  UNCHANGED Account(w)!account
BY DEF Account!account, CreditedTo, PhaseOf, ChargeOn, Exists, Uncertain

(* The write of a row of another wallet is invisible.                      *)
LEMMA OtherWallet ==
  ASSUME TypeOK, NEW w \in Wallets, NEW r \in Requests, NEW row,
         usage' = [usage EXCEPT ![r] = row], startup' = startup, credits' = credits,
         ~OfWallet(w, usage[r]), ~OfWallet(w, row)
  PROVE  UNCHANGED Account(w)!account
<1>1. usage'[r] = row /\ \A q \in Requests \ {r} : usage'[q] = usage[q]
  BY DEF TypeOK
<1>2. CreditedTo(w)' = CreditedTo(w)
  BY DEF CreditedTo
<1>3. /\ PhaseOf(w, r) = "none" /\ PhaseOf(w, r)' = "none"
      /\ ChargeOn(KeysOf(w), r) = 0 /\ ChargeOn(KeysOf(w), r)' = 0
  <2>1. PhaseOf(w, r) = "none" /\ ChargeOn(KeysOf(w), r) = 0
    BY DEF OfWallet, PhaseOf, ChargeOn, Exists, Closed, Uncertain
  <2>2. PhaseOf(w, r)' = "none" /\ ChargeOn(KeysOf(w), r)' = 0
    BY <1>1 DEF OfWallet, PhaseOf, ChargeOn, Exists, Closed, Uncertain
  <2>3. QED
    BY <2>1, <2>2
<1>4. \A q \in Requests \ {r} : /\ PhaseOf(w, q)' = PhaseOf(w, q)
                                /\ ChargeOn(KeysOf(w), q)' = ChargeOn(KeysOf(w), q)
  BY <1>1 DEF PhaseOf, ChargeOn, Exists, Uncertain
<1>5. Phases(w)' = Phases(w) /\ Charges(w)' = Charges(w)
  BY <1>3, <1>4 DEF Phases, Charges
<1>6. QED
  BY <1>2, <1>5 DEF Account!account, Phases, Charges

LEMMA CreditFunds ==
  ASSUME PrepaidInv, NEW w \in Wallets, CreditAny
  PROVE  Account(w)!Fund \/ UNCHANGED Account(w)!account
<1>1. PICK ref \in Refs, v \in Wallets, amount \in Grants : Credit(ref, v, amount)
  BY DEF CreditAny
<1>2. /\ TypeOK /\ TypeOK' /\ credits[ref] = NoCredit /\ amount \in Nat \ {0}
      /\ credits' = [credits EXCEPT ![ref] = [wallet |-> v, amount |-> amount]]
      /\ usage' = usage /\ startup' = startup
  BY <1>1, CreditKeeps, QuantityAssumption DEF PrepaidInv, Credit
<1> DEFINE f == [x \in Refs |-> IF credits[x].wallet = w THEN credits[x].amount ELSE 0]
           g == [x \in Refs |-> IF credits'[x].wallet = w THEN credits'[x].amount ELSE 0]
<1>3. f \in [Refs -> Nat] /\ g \in [Refs -> Nat]
  BY <1>2 DEF TypeOK
<1>4. \A y \in Refs \ {ref} : g[y] = f[y]
  BY <1>2 DEF TypeOK
<1>5. f[ref] = 0 /\ g[ref] = IF v = w THEN amount ELSE 0
  BY <1>2, NullAssumption DEF TypeOK, NoCredit
<1>6. CreditedTo(w) = SumOf(f) /\ CreditedTo(w)' = SumOf(g)
  BY DEF CreditedTo
<1> HIDE DEF f, g
<1>7. SumOf(g) = SumOf(f) + g[ref] - f[ref]
  BY <1>3, <1>4, SumUpdate, RowAssumption
<1>8. CreditedTo(w) \in Nat
  BY <1>2, CreditedIsNat
<1>9. CreditedTo(w)' = CreditedTo(w) + (IF v = w THEN amount ELSE 0)
  BY <1>2, <1>5, <1>6, <1>7, <1>8
<1>10. Phases(w)' = Phases(w) /\ Charges(w)' = Charges(w)
  BY <1>2 DEF Phases, Charges, PhaseOf, ChargeOn, Exists, Uncertain
<1>11. CASE v = w
  <2>1. CreditedTo(w)' \in Nat /\ CreditedTo(w)' > CreditedTo(w)
    BY <1>2, <1>8, <1>9, <1>11
  <2>2. QED
    BY <1>10, <2>1 DEF Account!Fund, Phases, Charges
<1>12. CASE v # w
  <2>1. CreditedTo(w)' = CreditedTo(w)
    BY <1>8, <1>9, <1>12
  <2>2. QED
    BY <1>10, <2>1 DEF Account!account, Phases, Charges
<1>13. QED
  BY <1>11, <1>12

LEMMA ReserveOpens ==
  ASSUME PrepaidInv, StartupRows, NEW w \in Wallets, NEW r \in Requests, ReserveAny(r)
  PROVE  Account(w)!Open(r) \/ UNCHANGED Account(w)!account
<1>1. PICK k \in Keys, i \in Idems, amount \in Amounts, rpm \in Rates :
        Reserve(r, k, i, amount, rpm)
  BY DEF ReserveAny
<1>1a. PICK stamp \in Instants, read \in Instants : Admit(r, k, i, amount, rpm, stamp, read)
  BY <1>1 DEF Reserve
<1> DEFINE row == [NoRow EXCEPT !.state = "reserved", !.key = k, !.idem = i,
                                !.amount = amount, !.created = stamp,
                                !.admitted = now]
<1>2. TypeOK /\ PrepaidInv' /\ amount \in Nat \ {0}
  BY <1>1, ReserveKeeps, QuantityAssumption DEF PrepaidInv
<1>3. /\ usage[r].state = "absent" /\ usage' = [usage EXCEPT ![r] = row]
      /\ ~NeedsReview /\ amount <= balance[WalletOf[k]]
      /\ balance' = [balance EXCEPT ![WalletOf[k]] = @ - amount]
      /\ UNCHANGED <<credits, startup>>
  BY <1>1a DEF Admit, Exists, Admissible
<1>4. row.state = "reserved" /\ row.key = k /\ row.amount = amount
  BY DEF NoRow
<1> HIDE DEF row
<1>5. /\ usage'[r] = row
      /\ \A q \in Requests \ {r} : usage'[q] = usage[q]
  BY <1>2, <1>3 DEF TypeOK
<1>6. CASE WalletOf[k] # w
  <2>1. ~OfWallet(w, usage[r]) /\ ~OfWallet(w, row)
    BY <1>3, <1>4, <1>6 DEF OfWallet, KeysOf
  <2>2. QED
    BY <1>2, <1>3, <2>1, OtherWallet
<1>7. CASE WalletOf[k] = w
  <2>1. Phases(w)[r] = "none" /\ \A q \in Requests : Phases(w)[q] # "doubtful"
    <3>1. \A q \in Requests : ~Uncertain(q)
      BY <1>3 DEF NeedsReview
    <3>2. PhaseOf(w, r) = "none"
      BY <1>3, <3>1 DEF PhaseOf, Exists, Closed
    <3>3. \A q \in Requests : PhaseOf(w, q) # "doubtful"
      BY <3>1 DEF PhaseOf
    <3>4. QED
      BY <3>2, <3>3 DEF Phases
  <2>2. Phases(w)' = [Phases(w) EXCEPT ![r] = "open"]
    <3>1. r \notin startup
      BY <1>3 DEF StartupRows, Exists
    <3>2. PhaseOf(w, r)' = "open"
      BY <1>3, <1>4, <1>5, <1>7, <3>1 DEF PhaseOf, Exists, Closed, Uncertain, KeysOf
    <3>3. \A q \in Requests \ {r} : PhaseOf(w, q)' = PhaseOf(w, q)
      BY <1>3, <1>5 DEF PhaseOf, Exists, Uncertain
    <3>4. QED
      BY <3>2, <3>3 DEF Phases
  <2>3. /\ Charges(w)'[r] \in Nat \ {0}
        /\ Charges(w)' = [Charges(w) EXCEPT ![r] = Charges(w)'[r]]
    <3>1. ChargeOn(KeysOf(w), r)' = amount
      BY <1>4, <1>5, <1>7 DEF ChargeOn, Exists, KeysOf, ChargeOf, Pending
    <3>2. \A q \in Requests \ {r} : ChargeOn(KeysOf(w), q)' = ChargeOn(KeysOf(w), q)
      BY <1>5 DEF ChargeOn, Exists
    <3>3. QED
      BY <1>2, <3>1, <3>2 DEF Charges
  <2>4. CreditedTo(w)' = CreditedTo(w) /\ CreditedTo(w) \in Nat
    BY <1>2, <1>3, CreditedIsNat DEF CreditedTo
  <2>5. SumOf(Charges(w)') <= CreditedTo(w)
    <3>1. balance'[w] = CreditedTo(w)' - ChargedOn(KeysOf(w))'
      BY <1>2 DEF PrepaidInv, CreditConserved
    <3>2. balance[w] \in Int /\ balance'[w] = balance[w] - amount /\ amount <= balance[w]
      BY <1>2, <1>3, <1>7 DEF TypeOK
    <3>3. ChargedOn(KeysOf(w)) \in Nat
      BY <1>2, SumsOfRows
    <3>4. ChargedOn(KeysOf(w))' = SumOf(Charges(w)')
      BY DEF ChargedOn, Charges
    <3>5. SumOf(Charges(w)') \in Nat
      <4>1. Charges(w)' \in [Requests -> Nat]
        BY <1>2, RowNats DEF PrepaidInv, TypeOK, Charges, ChargeOn
      <4>2. QED
        BY <4>1, SumType, RowAssumption
    <3>6. QED
      BY <1>2, <2>4, <3>1, <3>2, <3>4, <3>5
  <2>6. Account(w)!SumOf(Charges(w)') = SumOf(Charges(w)')
    BY DEF Account!SumOf, Account!Units, Account!UnitsOf, SumOf, Units, UnitsOf,
       Account!Cardinality, Cardinality
  <2>7. QED
    BY <2>1, <2>2, <2>3, <2>4, <2>5, <2>6 DEF Account!Open, Phases, Charges
<1>8. QED
  BY <1>6, <1>7

LEMMA SettleCloses ==
  ASSUME TypeOK, NEW w \in Wallets, NEW r \in Requests, SettleAny(r)
  PROVE  Account(w)!Close(r) \/ UNCHANGED Account(w)!account
<1>1. PICK billed \in Bills, operator \in BOOLEAN : Settle(r, billed, operator)
  BY DEF SettleAny
<1> DEFINE row == Settled(r, billed, operator)
<1>2. /\ usage[r].state \in Pending /\ usage' = [usage EXCEPT ![r] = row]
      /\ UNCHANGED <<credits, startup>>
  BY <1>1 DEF Settle, Reprice
<1>3. row.state \in Closed /\ row.billed = billed /\ billed \in Nat
        /\ row.key = usage[r].key
  BY QuantityAssumption DEF TypeOK, Settled, Row, Closed
<1> HIDE DEF row
<1>4. /\ usage'[r] = row
      /\ \A q \in Requests \ {r} : usage'[q] = usage[q]
  BY <1>2 DEF TypeOK
<1>5. CASE usage[r].key \notin KeysOf(w)
  <2>1. ~OfWallet(w, usage[r]) /\ ~OfWallet(w, row)
    BY <1>3, <1>5 DEF OfWallet
  <2>2. QED
    BY <1>2, <2>1, OtherWallet
<1>6. CASE usage[r].key \in KeysOf(w)
  <2>1. Phases(w)[r] \in {"open", "doubtful"}
    BY <1>2, <1>6 DEF Phases, PhaseOf, Exists, Closed, Pending, Uncertain
  <2>2. Phases(w)' = [Phases(w) EXCEPT ![r] = "closed"]
    <3>1. PhaseOf(w, r)' = "closed"
      BY <1>3, <1>4, <1>6 DEF PhaseOf, Exists, Closed, Uncertain, KeysOf
    <3>2. \A q \in Requests \ {r} : PhaseOf(w, q)' = PhaseOf(w, q)
      BY <1>2, <1>4 DEF PhaseOf, Exists, Uncertain
    <3>3. QED
      BY <3>1, <3>2 DEF Phases
  <2>3. /\ Charges(w)'[r] \in Nat
        /\ Charges(w)' = [Charges(w) EXCEPT ![r] = Charges(w)'[r]]
    <3>1. ChargeOn(KeysOf(w), r)' = billed
      BY <1>3, <1>4, <1>6 DEF ChargeOn, Exists, ChargeOf, Pending, Closed, KeysOf
    <3>2. \A q \in Requests \ {r} : ChargeOn(KeysOf(w), q)' = ChargeOn(KeysOf(w), q)
      BY <1>4 DEF ChargeOn, Exists
    <3>3. QED
      BY <1>3, <3>1, <3>2 DEF Charges
  <2>4. CreditedTo(w)' = CreditedTo(w)
    BY <1>2 DEF CreditedTo
  <2>5. QED
    BY <2>1, <2>2, <2>3, <2>4 DEF Account!Close, Phases, Charges
<1>7. QED
  BY <1>5, <1>6

LEMMA ReviewDoubts ==
  ASSUME TypeOK, NEW w \in Wallets, NEW r \in Requests, Review(r)
  PROVE  Account(w)!Doubt({r}) \/ UNCHANGED Account(w)!account
<1> DEFINE row == [usage[r] EXCEPT !.state = "needs_review"]
<1>1. /\ usage[r].state = "reserved" /\ usage' = [usage EXCEPT ![r] = row]
      /\ UNCHANGED <<credits, startup>>
  BY DEF Review, TypeOK, Row
<1>2. /\ row.state = "needs_review" /\ row.key = usage[r].key
      /\ ChargeOf(row) = ChargeOf(usage[r])
  BY <1>1 DEF TypeOK, Row, ChargeOf, Pending
<1> HIDE DEF row
<1>3. /\ usage'[r] = row
      /\ \A q \in Requests \ {r} : usage'[q] = usage[q]
  BY <1>1 DEF TypeOK
<1>4. CASE usage[r].key \notin KeysOf(w)
  <2>1. ~OfWallet(w, usage[r]) /\ ~OfWallet(w, row)
    BY <1>2, <1>4 DEF OfWallet
  <2>2. QED
    BY <1>1, <2>1, OtherWallet
<1>5. CASE usage[r].key \in KeysOf(w)
  <2>1. Charges(w)' = Charges(w) /\ CreditedTo(w)' = CreditedTo(w)
    BY <1>1, <1>2, <1>3 DEF Charges, ChargeOn, Exists, CreditedTo
  <2>2. /\ PhaseOf(w, r)' = "doubtful"
        /\ \A q \in Requests \ {r} : PhaseOf(w, q)' = PhaseOf(w, q)
    BY <1>1, <1>2, <1>3, <1>5 DEF PhaseOf, Exists, Closed, Uncertain, KeysOf
  <2>3. CASE r \in startup
    <3>1. PhaseOf(w, r) = "doubtful"
      BY <1>1, <1>5, <2>3 DEF PhaseOf, Exists, Closed, Uncertain
    <3>2. Phases(w)' = Phases(w)
      BY <2>2, <3>1 DEF Phases
    <3>3. QED
      BY <2>1, <3>2 DEF Account!account, Phases, Charges
  <2>4. CASE r \notin startup
    <3>1. PhaseOf(w, r) = "open"
      BY <1>1, <1>5, <2>4 DEF PhaseOf, Exists, Closed, Uncertain
    <3>2. /\ \A q \in {r} : Phases(w)[q] = "open"
          /\ Phases(w)' = [q \in Requests |-> IF q \in {r} THEN "doubtful"
                                               ELSE Phases(w)[q]]
      BY <2>2, <3>1 DEF Phases
    <3>3. QED
      BY <2>1, <3>2 DEF Account!Doubt, Phases, Charges
  <2>5. QED
    BY <2>3, <2>4
<1>6. QED
  BY <1>4, <1>5

LEMMA RestartDoubts ==
  ASSUME TypeOK, NEW w \in Wallets, Restart
  PROVE  \E S \in SUBSET Requests : Account(w)!Doubt(S)
<1> DEFINE S == {r \in Requests : PhaseOf(w, r) = "open"}
<1>1. /\ startup' = {r \in Requests : usage[r].state = "reserved"}
      /\ UNCHANGED <<credits, usage>>
  BY DEF Restart
<1>2. \A r \in S : Phases(w)[r] = "open"
  BY DEF Phases
<1>3. \A r \in Requests : PhaseOf(w, r)' = IF r \in S THEN "doubtful" ELSE PhaseOf(w, r)
  <2> TAKE r \in Requests
  <2>1. usage[r].state \in {"absent", "reserved", "needs_review", "settled",
                            "operator_settled"}
    BY DEF TypeOK, Row, Pending, Closed
  <2>2. CASE PhaseOf(w, r) = "open"
    <3>1. Exists(r) /\ usage[r].key \in KeysOf(w) /\ usage[r].state = "reserved"
      BY <2>1, <2>2 DEF PhaseOf, Exists, Closed, Uncertain
    <3>2. PhaseOf(w, r)' = "doubtful"
      BY <1>1, <3>1 DEF PhaseOf, Exists, Closed, Uncertain, KeysOf
    <3>3. QED
      BY <2>2, <3>2
  <2>3. CASE PhaseOf(w, r) # "open"
    <3>1. PhaseOf(w, r)' = PhaseOf(w, r)
      BY <1>1, <2>1, <2>3 DEF PhaseOf, Exists, Closed, Uncertain, KeysOf
    <3>2. QED
      BY <2>3, <3>1
  <2>4. QED
    BY <2>2, <2>3
<1>4. Phases(w)' = [r \in Requests |-> IF r \in S THEN "doubtful" ELSE Phases(w)[r]]
  BY <1>3 DEF Phases
<1>5. CreditedTo(w)' = CreditedTo(w) /\ Charges(w)' = Charges(w)
  BY <1>1 DEF CreditedTo, Charges, ChargeOn, Exists
<1>6. Account(w)!Doubt(S)
  BY <1>2, <1>4, <1>5 DEF Account!Doubt, Phases, Charges
<1>7. QED
  BY <1>6

(* The prepaid ledger is, for every wallet, the same abstract account: each *)
(* transaction is a step of it or leaves it alone (store.py credit,        *)
(* reserve, settle, review, snapshot_startup_reservations).                *)
THEOREM WalletsImplementAccount == Spec => EachWalletImplementsAccount
<1>1. Init => StartupRows /\ \A w \in Wallets : Account(w)!Init
  <2> SUFFICES ASSUME Init PROVE StartupRows /\ \A w \in Wallets : Account(w)!Init
    OBVIOUS
  <2>1. ASSUME NEW w \in Wallets PROVE Account(w)!Init
    <3>1. CreditedTo(w) = 0
      <4> DEFINE f == [x \in Refs |-> IF credits[x].wallet = w
                                      THEN credits[x].amount ELSE 0]
      <4>1. f \in [Refs -> Nat] /\ \A x \in Refs : f[x] = 0
        BY DEF Init, NoCredit
      <4>2. CreditedTo(w) = SumOf(f)
        BY DEF CreditedTo
      <4> HIDE DEF f
      <4>3. QED
        BY <4>1, <4>2, SumZero
    <3>2. \A r \in Requests : /\ PhaseOf(w, r) = "none"
                              /\ ChargeOn(KeysOf(w), r) = 0
      BY DEF Init, NoRow, PhaseOf, Exists, ChargeOn, Closed, Uncertain
    <3>3. QED
      BY <3>1, <3>2 DEF Account!Init
  <2>2. StartupRows
    BY DEF Init, StartupRows
  <2>3. QED
    BY <2>1, <2>2
<1>2. PrepaidInv /\ StartupRows /\ [Next]_vars
        => [\A w \in Wallets :
              Account(w)!Next \/ UNCHANGED Account(w)!account]_vars
  <2> SUFFICES ASSUME PrepaidInv, StartupRows, [Next]_vars, NEW w \in Wallets
               PROVE  Account(w)!Next \/ UNCHANGED Account(w)!account
    OBVIOUS
  <2>1. TypeOK
    BY DEF PrepaidInv
  <2>2. CASE usage' = usage /\ startup' = startup /\ credits' = credits
    BY <2>2, QuietAccount
  <2>3. CASE CreditAny
    BY <2>3, CreditFunds DEF Account!Next
  <2>4. ASSUME NEW r \in Requests, ReserveAny(r)
        PROVE  Account(w)!Next \/ UNCHANGED Account(w)!account
    BY <2>4, ReserveOpens DEF Account!Next
  <2>5. ASSUME NEW r \in Requests, SettleAny(r)
        PROVE  Account(w)!Next \/ UNCHANGED Account(w)!account
    BY <2>1, <2>5, SettleCloses DEF Account!Next
  <2>6. ASSUME NEW r \in Requests, Review(r)
        PROVE  Account(w)!Next \/ UNCHANGED Account(w)!account
    BY <2>1, <2>6, ReviewDoubts DEF Account!Next
  <2>7. CASE Restart
    BY <2>1, <2>7, RestartDoubts DEF Account!Next
  <2>8. QED
    BY <2>2, <2>3, <2>4, <2>5, <2>6, <2>7 DEF Next, vars, Revoke, Tick
<1>3. Spec => []StartupRows
  BY <1>1, PrepaidTyped, StartupRowsKept, PTL DEF Spec
<1>4. QED
  BY <1>1, <1>2, <1>3, PrepaidInvariant, PTL DEF Spec, EachWalletImplementsAccount
===============================================================================
