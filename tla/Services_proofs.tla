--------------------------- MODULE Services_proofs ----------------------------
(* Theorems about the services around the ledgers, for every value of     *)
(* their constants; each service is proved by itself.                      *)
EXTENDS ProviderCaches, GonkaReads, RpcClient, Evidence, Backup, UsageScan,
        Treasury, SequenceTheorems, Sums_proofs

-------------------------------------------------------------------------------
(* The caches in front of the provider.                                    *)

CatalogueReads ==
  [since : Nat, seen : {off}, ids : SUBSET Models, read : Nat \cup {None}]

(* The settings cannot change under a catalogue read: a save waits for the *)
(* same lock.  The list is not older than the metadata read behind it.     *)
CatalogueReadOK ==
  LET r == reading["catalogue"]
  IN  r # None =>
        /\ r \in CatalogueReads
        /\ r.ids # {} => /\ r.read \in Nat /\ r.since = r.read
                         /\ r.read <= clock /\ clock <= r.read + ReadTime

CatalogueOK ==
  catalogue.live =>
    /\ catalogue.at \in Nat /\ catalogue.read \in Nat
    /\ catalogue.at <= clock /\ catalogue.at <= catalogue.read + ReadTime

(* Data that was not disowned is from the last attempt, or from after it.  *)
CellOK(s) ==
  /\ cell[s].attempt # None => cell[s].attempt <= clock
  /\ cell[s].read # None => cell[s].read <= clock
  /\ /\ cell[s].attempt # None /\ cell[s].read # None
     /\ s = "network" => ~cell[s].failed
     => cell[s].attempt <= cell[s].read

CachesInv ==
  /\ clock \in Nat /\ DOMAIN reading = Sources
  /\ cell \in [Stamped -> [read : Nat \cup {None}, attempt : Nat \cup {None}, failed : BOOLEAN]]
  /\ CatalogueReadOK /\ CatalogueOK
  /\ \A s \in Stamped : CellOK(s)

LEMMA CachesInitInv == CachesInit => CachesInv /\ DisabledStaysOut
<1> SUFFICES ASSUME CachesInit PROVE CachesInv /\ DisabledStaysOut
  OBVIOUS
<1>1. /\ \A s \in Sources : reading[s] = None
      /\ DOMAIN reading = Sources /\ "catalogue" \in Sources
  BY DEF CachesInit, Sources
<1>2. CatalogueReadOK
  BY <1>1 DEF CatalogueReadOK
<1>3. CatalogueOK
  BY DEF CachesInit, CatalogueOK
<1>4. /\ cell \in [Stamped -> [read : Nat \cup {None}, attempt : Nat \cup {None}, failed : BOOLEAN]]
      /\ \A s \in Stamped : CellOK(s)
  BY DEF CachesInit, CellOK
<1>5. QED
  BY <1>1, <1>2, <1>3, <1>4 DEF CachesInit, CachesInv, DisabledStaysOut

(* A step that leaves the clock, the catalogue and the stamps alone, and   *)
(* keeps or ends reads.                                                    *)
LEMMA ReadsEnd ==
  ASSUME CachesInv, UNCHANGED <<clock, catalogue, cell>>,
         DOMAIN reading' = Sources,
         \/ reading'["catalogue"] = None
         \/ reading'["catalogue"] = reading["catalogue"] /\ off' = off
  PROVE  CachesInv'
<1>1. CatalogueReadOK'
  BY DEF CachesInv, CatalogueReadOK, CatalogueReads
<1>2. CatalogueOK' /\ \A s \in Stamped : CellOK(s)'
  BY DEF CachesInv, CatalogueOK, CellOK
<1>3. QED
  BY <1>1, <1>2 DEF CachesInv

(* The same for a step that renews the catalogue.                          *)
LEMMA CatalogueRenewed ==
  ASSUME CachesInv, UNCHANGED <<clock, cell>>, DOMAIN reading' = Sources,
         reading'["catalogue"] = None, CatalogueOK'
  PROVE  CachesInv'
<1>1. CatalogueReadOK' /\ \A s \in Stamped : CellOK(s)'
  BY DEF CachesInv, CatalogueReadOK, CellOK
<1>2. QED
  BY <1>1 DEF CachesInv

LEMMA AnswerKeeps ==
  ASSUME CachesInv, NEW models, AnswerCatalogue(models, off)
  PROVE  /\ DisabledStaysOut' /\ DOMAIN reading' = Sources
         /\ reading'["catalogue"] = None
<1>1. reading' = [reading EXCEPT !["catalogue"] = None]
  BY DEF AnswerCatalogue, Release
<1>2. "catalogue" \in Sources
  BY DEF Sources
<1>3. \/ offered' = models \ off /\ off' = off
      \/ offered' = {}
  BY DEF AnswerCatalogue
<1>4. QED
  BY <1>1, <1>2, <1>3 DEF CachesInv, DisabledStaysOut

LEMMA CatalogueKeeps ==
  ASSUME CachesInv,
         CatalogueHit \/ ReadModels \/ ReadMetadata \/ CatalogueLive \/ CatalogueFails
  PROVE  CachesInv' /\ DisabledStaysOut'
<1> DEFINE r == reading["catalogue"]
<1>0. "catalogue" \in Sources /\ DOMAIN reading = Sources /\ clock \in Nat
  BY DEF Sources, CachesInv
<1>1. CASE CatalogueHit
  BY <1>1, AnswerKeeps, ReadsEnd DEF CatalogueHit
<1>2. CASE ReadModels
  <2>1. /\ reading' = [reading EXCEPT !["catalogue"] =
             [since |-> clock, seen |-> off, ids |-> {}, read |-> None]]
        /\ offered' = {} /\ UNCHANGED <<clock, catalogue, cell, off>>
    BY <1>2 DEF ReadModels
  <2>2. CatalogueReadOK'
    BY <1>0, <2>1 DEF CatalogueReadOK, CatalogueReads
  <2>3. QED
    BY <1>0, <2>1, <2>2 DEF CachesInv, CatalogueOK, CellOK, DisabledStaysOut
<1>3. CASE ReadMetadata
  <2>1. PICK ids \in SUBSET Models \ {{}} :
          reading' = [reading EXCEPT !["catalogue"].ids = ids,
                        !["catalogue"].read = clock, !["catalogue"].since = clock]
    BY <1>3 DEF ReadMetadata
  <2>2. r \in CatalogueReads
    BY <1>3 DEF ReadMetadata, CachesInv, CatalogueReadOK
  <2>3. reading'["catalogue"] = [r EXCEPT !.ids = ids, !.read = clock, !.since = clock]
        /\ DOMAIN reading' = Sources
    BY <1>0, <2>1
  <2>4. /\ reading'["catalogue"] \in CatalogueReads
        /\ reading'["catalogue"].read = clock /\ reading'["catalogue"].since = clock
    BY <1>0, <2>2, <2>3 DEF CatalogueReads
  <2>5. offered' = {} /\ UNCHANGED <<clock, catalogue, cell, off>>
    BY <1>3 DEF ReadMetadata
  <2>6. ReadTime \in Nat
    BY CachesAssumption
  <2>7. CatalogueReadOK'
    BY <1>0, <2>4, <2>5, <2>6 DEF CatalogueReadOK, CatalogueReads
  <2>8. QED
    BY <2>3, <2>5, <2>7 DEF CachesInv, CatalogueOK, CellOK, DisabledStaysOut
<1>4. CASE CatalogueLive
  <2>1. /\ r.seen = off /\ r.read \in Nat /\ clock <= r.read + ReadTime
    BY <1>4 DEF CatalogueLive, CachesInv, CatalogueReadOK, CatalogueReads
  <2>2. /\ catalogue' = [models |-> r.ids, at |-> clock, live |-> TRUE, read |-> r.read]
        /\ AnswerCatalogue(r.ids, off) /\ UNCHANGED <<clock, cell>>
    BY <1>4, <2>1 DEF CatalogueLive
  <2>3. CatalogueOK'
    BY <1>0, <2>1, <2>2 DEF CatalogueOK
  <2>4. QED
    BY <2>2, <2>3, AnswerKeeps, CatalogueRenewed
<1>5. CASE CatalogueFails
  <2>1. r.seen = off
    BY <1>5 DEF CatalogueFails, CachesInv, CatalogueReadOK, CatalogueReads
  <2>2. /\ catalogue' = [models |-> Snapshot, at |-> clock, live |-> FALSE, read |-> None]
        /\ AnswerCatalogue(Snapshot, off) /\ UNCHANGED <<clock, cell>>
    BY <1>5, <2>1 DEF CatalogueFails
  <2>3. CatalogueOK'
    BY <2>2 DEF CatalogueOK
  <2>4. QED
    BY <2>2, <2>3, AnswerKeeps, CatalogueRenewed
<1>6. QED
  BY <1>1, <1>2, <1>3, <1>4, <1>5

LEMMA StampedKeeps ==
  ASSUME CachesInv, NEW s \in Stamped,
         Hit(s) \/ BeginRead(s) \/ ReadArrives(s) \/ ReadFails(s)
  PROVE  CachesInv' /\ DisabledStaysOut'
<1>0. /\ s \in Sources /\ s # "catalogue" /\ DOMAIN reading = Sources /\ clock \in Nat
      /\ cell \in [Stamped -> [read : Nat \cup {None}, attempt : Nat \cup {None}, failed : BOOLEAN]]
      /\ \A q \in Stamped : CellOK(q)
  BY DEF Sources, Stamped, CachesInv
<1>1. /\ DOMAIN reading' = Sources /\ reading'["catalogue"] = reading["catalogue"]
      /\ offered' = {} /\ UNCHANGED <<clock, catalogue, off>>
  BY <1>0 DEF Hit, BeginRead, ReadArrives, ReadFails, Release, Sources
<1>2. CatalogueReadOK' /\ CatalogueOK' /\ DisabledStaysOut'
  BY <1>1 DEF CachesInv, CatalogueReadOK, CatalogueReads, CatalogueOK, DisabledStaysOut
<1>3. CASE Hit(s) \/ ReadFails(s)
  <2>1. cell' = cell
    BY <1>3 DEF Hit, ReadFails
  <2>2. QED
    BY <1>0, <1>1, <1>2, <2>1 DEF CachesInv, CellOK
<1>4. ASSUME NEW new \in [read : Nat \cup {None}, attempt : Nat \cup {None}, failed : BOOLEAN],
             cell' = [cell EXCEPT ![s] = new], CellOK(s)'
      PROVE  CachesInv'
  <2>1. \A q \in Stamped \ {s} : cell'[q] = cell[q]
    BY <1>0, <1>4
  <2>2. \A q \in Stamped : CellOK(q)'
    BY <1>0, <1>1, <1>4, <2>1 DEF CellOK
  <2>3. QED
    BY <1>0, <1>1, <1>2, <1>4, <2>2 DEF CachesInv
<1>5. CASE BeginRead(s)
  <2> DEFINE new == Mark(s)
  <2>1. cell' = [cell EXCEPT ![s] = new]
    BY <1>5 DEF BeginRead
  <2>2. /\ new \in [read : Nat \cup {None}, attempt : Nat \cup {None}, failed : BOOLEAN]
        /\ new.attempt = clock /\ new.failed = TRUE
        /\ s # "network" => new.read = None
        /\ s = "network" => new.read = cell[s].read
    BY <1>0 DEF Mark
  <2> HIDE DEF new
  <2>3. cell'[s] = new
    BY <1>0, <2>1
  <2>4. CellOK(s)'
    <3>1. /\ cell'[s].attempt = clock /\ cell'[s].failed = TRUE /\ clock' = clock
          /\ cell'[s].read # None => s = "network" /\ cell'[s].read = cell[s].read
      BY <1>1, <2>2, <2>3
    <3>2. cell[s].read # None => cell[s].read <= clock
      BY <1>0 DEF CellOK
    <3>3. QED
      BY <1>0, <3>1, <3>2 DEF CellOK
  <2>5. QED
    BY <1>2, <1>4, <2>1, <2>2, <2>4
<1>6. CASE ReadArrives(s)
  <2> DEFINE new == [cell[s] EXCEPT !.read = clock, !.failed = FALSE]
  <2>1. cell' = [cell EXCEPT ![s] = new]
    BY <1>0, <1>6 DEF ReadArrives
  <2>2. /\ new \in [read : Nat \cup {None}, attempt : Nat \cup {None}, failed : BOOLEAN]
        /\ new.attempt = cell[s].attempt /\ new.read = clock
    BY <1>0
  <2> HIDE DEF new
  <2>3. cell'[s] = new
    BY <1>0, <2>1
  <2>4. CellOK(s)'
    <3>1. /\ cell'[s].attempt = cell[s].attempt /\ cell'[s].read = clock
          /\ clock' = clock
      BY <1>1, <2>2, <2>3
    <3>2. cell[s].attempt # None => cell[s].attempt <= clock
      BY <1>0 DEF CellOK
    <3>3. QED
      BY <1>0, <3>1, <3>2 DEF CellOK
  <2>5. QED
    BY <1>2, <1>4, <2>1, <2>2, <2>4
<1>7. QED
  BY <1>3, <1>5, <1>6

LEMMA TimeKeeps ==
  ASSUME CachesInv, Passes
  PROVE  CachesInv' /\ DisabledStaysOut'
<1>1. /\ clock \in Nat /\ clock' = clock + 1 /\ offered' = {}
      /\ UNCHANGED <<reading, catalogue, cell, off>> /\ ReadTime \in Nat
      /\ reading["catalogue"] # None => clock < reading["catalogue"].since + ReadTime
  BY CachesAssumption DEF Passes, CachesInv, Sources
<1>2. CatalogueReadOK'
  <2> DEFINE r == reading["catalogue"]
  <2>1. SUFFICES ASSUME r # None, r.ids # {}
                 PROVE  r.read <= clock + 1 /\ clock + 1 <= r.read + ReadTime
    BY <1>1 DEF CachesInv, CatalogueReadOK, CatalogueReads
  <2>2. /\ r.read \in Nat /\ r.since = r.read /\ r.read <= clock
        /\ clock < r.since + ReadTime
    BY <1>1, <2>1 DEF CachesInv, CatalogueReadOK
  <2> HIDE DEF r
  <2>3. QED
    BY <1>1, <2>2
<1>3. CatalogueOK'
  BY <1>1 DEF CachesInv, CatalogueOK
<1>4. \A s \in Stamped : CellOK(s)'
  BY <1>1 DEF CachesInv, CellOK
<1>5. QED
  BY <1>1, <1>2, <1>3, <1>4 DEF CachesInv, DisabledStaysOut

LEMMA CachesStepInv ==
  CachesInv /\ DisabledStaysOut /\ [CachesNext]_cacheVars => CachesInv' /\ DisabledStaysOut'
<1> SUFFICES ASSUME CachesInv, DisabledStaysOut, [CachesNext]_cacheVars
             PROVE  CachesInv' /\ DisabledStaysOut'
  OBVIOUS
<1>1. ASSUME offered' = {} PROVE DisabledStaysOut'
  BY <1>1 DEF DisabledStaysOut
<1>2. ASSUME NEW s \in Sources, NEW c \in Callers, Ask(s, c)
      PROVE  CachesInv' /\ DisabledStaysOut'
  BY <1>1, <1>2, ReadsEnd DEF Ask, CachesInv
<1>3. ASSUME NEW c \in Callers, NEW models \in SUBSET Models, AskToSave(c, models)
      PROVE  CachesInv' /\ DisabledStaysOut'
  BY <1>1, <1>3, ReadsEnd DEF AskToSave, CachesInv
<1>4. ASSUME NEW s \in Sources, Serve(s) PROVE CachesInv' /\ DisabledStaysOut'
  BY <1>4, CatalogueKeeps, StampedKeeps DEF Serve, Sources
<1>5. ASSUME NEW s \in Sources, NEW i \in DOMAIN queue[s], Cancel(s, i)
      PROVE  CachesInv' /\ DisabledStaysOut'
  <2>1. /\ reading' = [reading EXCEPT ![s] = None] \/ reading' = reading
        /\ offered' = {} /\ UNCHANGED <<clock, catalogue, cell, off>>
    BY <1>5 DEF Cancel, Leave
  <2>2. /\ DOMAIN reading' = Sources
        /\ reading'["catalogue"] \in {None, reading["catalogue"]}
    BY <2>1 DEF CachesInv, Sources
  <2>3. QED
    BY <1>1, <2>1, <2>2, ReadsEnd
<1>6. CASE Passes
  BY <1>6, TimeKeeps
<1>7. CASE UNCHANGED cacheVars
  BY <1>7, ReadsEnd DEF cacheVars, CachesInv, DisabledStaysOut
<1>8. QED
  BY <1>2, <1>3, <1>4, <1>5, <1>6, <1>7 DEF CachesNext

(* Whatever fails, is cancelled or saved while the provider is asked, no    *)
(* catalogue answer offers a model that the operator has disabled by then   *)
(* (app.py catalog and update_admin_config).                               *)
THEOREM DisabledNeverOffered == CachesSpec => []DisabledStaysOut
BY CachesInitInv, CachesStepInv, PTL DEF CachesSpec

(* Whatever fails or is cancelled, data given as current was read less than *)
(* its lifetime ago and not before the last attempt (app.py catalog and     *)
(* provider_health, broker.py public_balance and network).                 *)
THEOREM CachesServeCurrent == CachesSpec => []ServedIsCurrent
<1>1. CachesInv => ServedIsCurrent
  <2> SUFFICES ASSUME CachesInv PROVE ServedIsCurrent
    OBVIOUS
  <2>0. clock \in Nat /\ LiveLife \in Nat /\ ReadTime \in Nat /\ None \notin Nat
    BY CachesAssumption DEF CachesInv
  <2>1. ASSUME CatalogueFresh, catalogue.live
        PROVE  Age(catalogue.read, LiveLife + ReadTime + 1)
    <3>1. /\ catalogue.at \in Nat /\ catalogue.read \in Nat
          /\ catalogue.at <= catalogue.read + ReadTime
          /\ clock - catalogue.at < LiveLife
      BY <2>1 DEF CachesInv, CatalogueOK, CatalogueFresh
    <3>2. QED
      BY <2>0, <3>1 DEF Age
  <2>2. ASSUME NEW s \in Stamped, ~Due(s), cell[s].read # None,
               s = "network" => ~Unavailable /\ ~Stale
        PROVE  Age(cell[s].read, Life[s]) /\ cell[s].read >= cell[s].attempt
    <3>1. /\ cell[s].attempt \in Nat /\ cell[s].read \in Nat /\ Life[s] \in Nat
          /\ cell[s].attempt # None
          /\ s = "network" => ~cell[s].failed
      BY <2>2, CachesAssumption DEF CachesInv, Due, Stale
    <3>2. clock - cell[s].attempt < Life[s]
      BY <2>0, <2>2, <3>1 DEF Due
    <3>3. cell[s].attempt <= cell[s].read
      BY <2>2, <3>1 DEF CachesInv, CellOK
    <3>4. QED
      BY <2>0, <2>2, <3>1, <3>2, <3>3 DEF Age
  <2>3. QED
    BY <2>1, <2>2 DEF ServedIsCurrent
<1>2. QED
  BY <1>1, CachesInitInv, CachesStepInv, PTL DEF CachesSpec

-------------------------------------------------------------------------------
(* The treasury page's reads of the provider's gateway.                    *)

(* The holder's read is younger than the gateway's timeout, and a balance  *)
(* is read behind a status that was fresh when the read began.             *)
AwaitOK ==
  /\ entered \in [lock : Nat, read : Nat]
  /\ awaits # Nothing => /\ entered.lock <= entered.read /\ entered.read <= moment
                         /\ moment <= entered.read + GatewayTime
  /\ awaits = "status" => entered.lock = entered.read
  /\ awaits = "balance" => block \in Nat /\ entered.read <= block + MaxBlockAge

(* A kept balance was read when it was stamped, after every failed check.  *)
NativeOK ==
  /\ failedAt \in Nat \cup {Nothing}
  /\ failedAt # Nothing => failedAt <= moment
  /\ native.read # Nothing =>
       /\ native.read \in Nat /\ native.at = native.read /\ native.read <= moment
       /\ failedAt # Nothing => native.read >= failedAt

GonkaInv ==
  /\ moment \in Nat
  /\ status \in [block : Nat \cup {Nothing}, at : Nat \cup {Nothing}, failed : BOOLEAN]
  /\ AwaitOK /\ NativeOK /\ TreasuryCurrent

(* What a step may rely on from the clock and the constants.               *)
LEMMA GonkaNats ==
  GonkaInv => /\ moment \in Nat /\ Nothing \notin Nat
              /\ BalanceLife \in Nat /\ BalanceLife > 0 /\ GatewayTime \in Nat
              /\ MaxBlockAge \in Nat /\ "status" # Nothing /\ "balance" # Nothing
BY GonkaAssumption DEF GonkaInv

LEMMA GonkaInitInv == GonkaInit => GonkaInv
<1> SUFFICES ASSUME GonkaInit PROVE GonkaInv
  OBVIOUS
<1>1. AwaitOK
  BY GonkaAssumption DEF GonkaInit, AwaitOK
<1>2. NativeOK /\ TreasuryCurrent
  BY DEF GonkaInit, NativeOK, TreasuryCurrent
<1>3. QED
  BY <1>1, <1>2 DEF GonkaInit, GonkaInv

LEMMA RaiseKeeps ==
  ASSUME GonkaInv, Raise, moment' = moment, entered' = entered,
         status' \in [block : Nat \cup {Nothing}, at : Nat \cup {Nothing}, failed : BOOLEAN]
  PROVE  GonkaInv'
<1>1. /\ native'.read = Nothing /\ failedAt' = moment /\ shown' = Nothing
      /\ awaits' = Nothing /\ moment \in Nat
  BY DEF Raise, Done, GonkaInv
<1>2. AwaitOK'
  BY <1>1, GonkaNats DEF AwaitOK, GonkaInv
<1>3. NativeOK' /\ TreasuryCurrent'
  BY <1>1 DEF NativeOK, TreasuryCurrent
<1>4. QED
  BY <1>1, <1>2, <1>3 DEF GonkaInv

(* A holder that took its lock at `since` goes on behind a fresh block b.  *)
LEMMA ProceedKeeps ==
  ASSUME GonkaInv, NEW since \in Nat, NEW b \in Nat, Proceed(since, b),
         since <= moment, moment <= since + GatewayTime, FreshBlock(b),
         moment' = moment,
         status' \in [block : Nat \cup {Nothing}, at : Nat \cup {Nothing}, failed : BOOLEAN]
  PROVE  GonkaInv'
<1>0. /\ moment \in Nat /\ Nothing \notin Nat /\ BalanceLife \in Nat
      /\ GatewayTime \in Nat /\ MaxBlockAge \in Nat /\ "balance" # Nothing
      /\ native' = native /\ failedAt' = failedAt /\ moment - b <= MaxBlockAge
  BY GonkaNats DEF Proceed, FreshBlock
<1>1. NativeOK'
  BY <1>0 DEF GonkaInv, NativeOK
<1>2. CASE native.read # Nothing /\ since - native.at < BalanceLife
  <2>1. /\ shown' = [read |-> native.read, block |-> b] /\ awaits' = Nothing
        /\ entered' = entered
    BY <1>2 DEF Proceed, Done
  <2>2. AwaitOK'
    BY <1>0, <2>1, GonkaNats DEF AwaitOK, GonkaInv
  <2>3. /\ native.read \in Nat /\ native.at = native.read
        /\ failedAt # Nothing => native.read >= failedAt
    BY <1>2 DEF GonkaInv, NativeOK
  <2>4. moment - native.read < BalanceLife + GatewayTime
    BY <1>0, <1>2, <2>3
  <2>5. moment - b <= MaxBlockAge + GatewayTime
    BY <1>0
  <2>6. TreasuryCurrent'
    BY <1>0, <2>1, <2>3, <2>4, <2>5 DEF TreasuryCurrent
  <2>7. QED
    BY <1>0, <1>1, <2>2, <2>6 DEF GonkaInv
<1>3. CASE ~(native.read # Nothing /\ since - native.at < BalanceLife)
  <2>1. /\ awaits' = "balance" /\ block' = b /\ shown' = Nothing
        /\ entered' = [lock |-> since, read |-> moment]
    BY <1>3 DEF Proceed
  <2>2. AwaitOK'
    BY <1>0, <2>1 DEF AwaitOK
  <2>3. TreasuryCurrent'
    BY <2>1 DEF TreasuryCurrent
  <2>4. QED
    BY <1>0, <1>1, <2>2, <2>3 DEF GonkaInv
<1>4. QED
  BY <1>2, <1>3

(* A step that shows nothing and ends, or leaves alone, what is awaited.   *)
LEMMA QuietPage ==
  ASSUME GonkaInv, UNCHANGED <<moment, entered, native, failedAt>>, shown' = Nothing,
         awaits' = Nothing \/ (awaits' = awaits /\ block' = block),
         status' \in [block : Nat \cup {Nothing}, at : Nat \cup {Nothing}, failed : BOOLEAN]
  PROVE  GonkaInv'
<1>1. AwaitOK'
  BY GonkaNats DEF AwaitOK, GonkaInv
<1>2. NativeOK' /\ TreasuryCurrent'
  BY DEF NativeOK, TreasuryCurrent, GonkaInv
<1>3. QED
  BY <1>1, <1>2 DEF GonkaInv

LEMMA GonkaStepInv == GonkaInv /\ [GonkaNext]_gonkaVars => GonkaInv'
<1> SUFFICES ASSUME GonkaInv, [GonkaNext]_gonkaVars PROVE GonkaInv'
  OBVIOUS
<1>0. /\ moment \in Nat /\ Nothing \notin Nat /\ BalanceLife \in Nat /\ BalanceLife > 0
      /\ GatewayTime \in Nat /\ MaxBlockAge \in Nat
      /\ "status" # Nothing /\ "balance" # Nothing
      /\ status \in [block : Nat \cup {Nothing}, at : Nat \cup {Nothing}, failed : BOOLEAN]
  BY GonkaNats DEF GonkaInv
<1>1. ASSUME NEW v \in Viewers, View(v) PROVE GonkaInv'
  BY <1>0, <1>1, QuietPage DEF View
<1>2. CASE Refused
  BY <1>0, <1>2, QuietPage DEF Refused, Done
<1>3. CASE FromStatus
  <2>1. UNCHANGED <<moment, status>>
    BY <1>3 DEF FromStatus
  <2>2. CASE Raise /\ UNCHANGED entered
    BY <1>0, <2>1, <2>2, RaiseKeeps
  <2>3. CASE FreshBlock(status.block) /\ Proceed(moment, status.block)
    <3>1. status.block \in Nat
      BY <1>0, <2>3 DEF FreshBlock
    <3>2. moment <= moment + GatewayTime
      BY <1>0
    <3>3. QED
      BY <1>0, <2>1, <2>3, <3>1, <3>2, ProceedKeeps
  <2>4. QED
    BY <1>3, <2>2, <2>3 DEF FromStatus
<1>4. CASE ReadStatus
  <2>1. /\ awaits' = "status" /\ shown' = Nothing
        /\ entered' = [lock |-> moment, read |-> moment]
        /\ UNCHANGED <<moment, native, failedAt>>
        /\ status' = [status EXCEPT !.block = Nothing]
    BY <1>4 DEF ReadStatus
  <2>2. AwaitOK' /\ TreasuryCurrent'
    BY <1>0, <2>1 DEF AwaitOK, TreasuryCurrent
  <2>3. NativeOK'
    BY <2>1 DEF GonkaInv, NativeOK
  <2>4. QED
    BY <1>0, <2>1, <2>2, <2>3 DEF GonkaInv
<1>5. CASE StatusArrives
  <2>1. PICK b \in 0 .. moment : /\ FreshBlock(b)
                                 /\ status' = [block |-> b, at |-> moment, failed |-> FALSE]
                                 /\ Proceed(entered.lock, b)
    BY <1>5 DEF StatusArrives
  <2>2. /\ entered.lock \in Nat /\ entered.lock <= moment
        /\ moment <= entered.lock + GatewayTime /\ moment' = moment
    BY <1>0, <1>5 DEF StatusArrives, GonkaInv, AwaitOK
  <2>3. b \in Nat
    BY <1>0
  <2>4. QED
    BY <1>0, <2>1, <2>2, <2>3, ProceedKeeps
<1>6. CASE StatusFails
  <2>1. status' = [status EXCEPT !.at = moment, !.failed = TRUE]
    BY <1>6 DEF StatusFails
  <2>2. QED
    BY <1>0, <1>6, <2>1, RaiseKeeps DEF StatusFails
<1>7. CASE BalanceArrives
  <2>1. /\ awaits = "balance" /\ native' = [read |-> moment, at |-> moment, failed |-> FALSE]
        /\ shown' = [read |-> moment, block |-> block] /\ awaits' = Nothing
        /\ UNCHANGED <<moment, entered, status, failedAt>>
    BY <1>7 DEF BalanceArrives, Done
  <2>2. AwaitOK'
    BY <1>0, <2>1 DEF AwaitOK, GonkaInv
  <2>3. NativeOK'
    BY <1>0, <2>1 DEF NativeOK, GonkaInv
  <2>4. moment - block <= MaxBlockAge + GatewayTime
    <3>1. /\ entered.read \in Nat /\ block \in Nat /\ entered.read <= block + MaxBlockAge
          /\ moment <= entered.read + GatewayTime
      BY <1>0, <2>1 DEF GonkaInv, AwaitOK
    <3>2. QED
      BY <1>0, <3>1
  <2>5. TreasuryCurrent'
    BY <1>0, <2>1, <2>4 DEF TreasuryCurrent, GonkaInv, NativeOK
  <2>6. QED
    BY <1>0, <2>1, <2>2, <2>3, <2>5 DEF GonkaInv
<1>8. CASE BalanceFails
  BY <1>0, <1>8, RaiseKeeps DEF BalanceFails
<1>9. ASSUME NEW i \in DOMAIN line, GoAway(i) PROVE GonkaInv'
  <2>1. status' \in [block : Nat \cup {Nothing}, at : Nat \cup {Nothing}, failed : BOOLEAN]
    BY <1>0, <1>9 DEF GoAway
  <2>2. awaits' = Nothing \/ (awaits' = awaits /\ block' = block)
    BY <1>9 DEF GoAway
  <2>3. QED
    BY <1>9, <2>1, <2>2, QuietPage DEF GoAway
<1>10. CASE MomentPasses
  <2>1. /\ moment' = moment + 1 /\ shown' = Nothing
        /\ awaits # Nothing => moment < entered.read + GatewayTime
        /\ UNCHANGED <<awaits, entered, status, native, block, failedAt>>
    BY <1>10 DEF MomentPasses
  <2>2. AwaitOK'
    BY <1>0, <2>1 DEF AwaitOK, GonkaInv
  <2>3. NativeOK' /\ TreasuryCurrent'
    BY <1>0, <2>1 DEF NativeOK, TreasuryCurrent, GonkaInv
  <2>4. QED
    BY <1>0, <2>1, <2>2, <2>3 DEF GonkaInv
<1>11. CASE UNCHANGED gonkaVars
  BY <1>11 DEF gonkaVars, GonkaInv, AwaitOK, NativeOK, TreasuryCurrent
<1>12. QED
  BY <1>1, <1>2, <1>3, <1>4, <1>5, <1>6, <1>7, <1>8, <1>9, <1>10, <1>11 DEF GonkaNext

(* Whatever fails or is cancelled at the lock or in a read, a balance on    *)
(* the treasury page was read in its lifetime and after the last failed     *)
(* check, behind a status of a young block (gonka.py NativeTreasury).      *)
THEOREM TreasuryShowsCurrent == GonkaSpec => []TreasuryCurrent
<1>1. GonkaInv => TreasuryCurrent
  BY DEF GonkaInv
<1>2. QED
  BY <1>1, GonkaInitInv, GonkaStepInv, PTL DEF GonkaSpec

-------------------------------------------------------------------------------
(* The client of the Solana endpoints.                                     *)

RpcPlaces == {"away", "door", "slot", "gate", "pace", "wire"}

RpcTypeOK ==
  /\ tick \in Nat /\ alarm \in [Clients -> Nat]
  /\ at \in [Tasks -> RpcPlaces]
  /\ last \in [Clients -> Nat \cup {Unset}] /\ sent = last

(* The tasks that hold a slot of an object.                                *)
Holders(q) == In(q, {"gate", "pace", "wire"})

Sleepers(q) == In(q, {"pace"})

(* Of one object: its slots' tasks are counted; its gate has one sleeper   *)
(* at most, which wakes a full gap after the object's last request, and no *)
(* one passes meanwhile.                                                   *)
ObjectOK(q) ==
  /\ Cardinality(Holders(q)) <= Slots
  /\ \A c, d \in Sleepers(q) : c = d
  /\ Sleepers(q) # {} => last[q] # Unset /\ alarm[q] = last[q] + Gap

RpcInv == RpcTypeOK /\ \A q \in Clients : ObjectOK(q)

LEMMA RpcInFinite ==
  ASSUME NEW q, NEW places PROVE IsFiniteSet(In(q, places))
<1>1. In(q, places) \subseteq Tasks
  BY DEF In
<1>2. QED
  BY <1>1, RpcAssumption, FS_Subset

(* A step that takes no slot keeps within the slots.                       *)
LEMMA RpcSlotsKept ==
  ASSUME NEW q, Cardinality(Holders(q)) <= Slots, Holders(q)' \subseteq Holders(q)
  PROVE  Cardinality(Holders(q)') <= Slots
<1> DEFINE S == Holders(q)
           T == Holders(q)'
<1>1. IsFiniteSet(S)
  BY RpcInFinite DEF Holders
<1>2. T \subseteq S
  OBVIOUS
<1>3. IsFiniteSet(T) /\ Cardinality(T) <= Cardinality(S)
  <2> HIDE DEF S, T
  <2>1. QED
    BY <1>1, <1>2, FS_Subset
<1>4. Cardinality(T) \in Nat /\ Cardinality(S) \in Nat /\ Slots \in Nat
  BY <1>1, <1>3, FS_CardinalityType, RpcAssumption
<1>5. QED
  BY <1>3, <1>4

LEMMA RpcInitInv == RpcInit => RpcInv
<1> SUFFICES ASSUME RpcInit PROVE RpcInv
  OBVIOUS
<1>1. RpcTypeOK
  BY DEF RpcInit, RpcTypeOK, RpcPlaces
<1>2. ASSUME NEW q \in Clients PROVE ObjectOK(q)
  <2>1. Holders(q) = {} /\ Sleepers(q) = {}
    BY DEF RpcInit, Holders, Sleepers, In
  <2>2. Cardinality(Holders(q)) <= Slots
    BY <2>1, FS_EmptySet, RpcAssumption
  <2>3. QED
    BY <2>1, <2>2 DEF ObjectOK
<1>3. QED
  BY <1>1, <1>2 DEF RpcInv

(* One task moves from where it is to another place: its own object counts *)
(* it anew, the others count as before.                                    *)
LEMMA RpcMove ==
  ASSUME RpcInv, NEW c \in Tasks, NEW place \in RpcPlaces,
         at' = [at EXCEPT ![c] = place], NEW places
  PROVE  /\ In(ClientOf[c], places)'
              = IF place \in places THEN In(ClientOf[c], places) \cup {c}
                ELSE In(ClientOf[c], places) \ {c}
         /\ \A q \in Clients \ {ClientOf[c]} : In(q, places)' = In(q, places)
<1>1. at \in [Tasks -> RpcPlaces]
  BY DEF RpcInv, RpcTypeOK
<1>2. In(ClientOf[c], places)'
        = IF place \in places THEN In(ClientOf[c], places) \cup {c}
          ELSE In(ClientOf[c], places) \ {c}
  BY <1>1 DEF In
<1>3. ASSUME NEW q \in Clients \ {ClientOf[c]} PROVE In(q, places)' = In(q, places)
  BY <1>1, <1>3 DEF In
<1>4. QED
  BY <1>2, <1>3

(* The objects of the other tasks are as they were.                        *)
OthersStay(c) ==
  \A q \in Clients \ {ClientOf[c]} : last'[q] = last[q] /\ alarm'[q] = alarm[q]

LEMMA RpcOthersKeep ==
  ASSUME RpcInv, NEW c \in Tasks, NEW place \in RpcPlaces,
         at' = [at EXCEPT ![c] = place], OthersStay(c),
         NEW q \in Clients, q # ClientOf[c]
  PROVE  ObjectOK(q)'
<1>1. Holders(q)' = Holders(q) /\ Sleepers(q)' = Sleepers(q)
  <2>1. ASSUME NEW places PROVE In(q, places)' = In(q, places)
    BY RpcMove
  <2>2. QED
    BY <2>1 DEF Holders, Sleepers
<1>2. last'[q] = last[q] /\ alarm'[q] = alarm[q]
  BY DEF OthersStay
<1>3. ObjectOK(q)
  BY DEF RpcInv
<1>4. QED
  BY <1>1, <1>2, <1>3 DEF ObjectOK

(* A task that takes no slot leaves its object's slots within the limit.   *)
LEMMA RpcOwnSlotsKept ==
  ASSUME RpcInv, NEW c \in Tasks, NEW place \in RpcPlaces,
         at' = [at EXCEPT ![c] = place],
         place \in {"gate", "pace", "wire"} => at[c] \in {"gate", "pace", "wire"}
  PROVE  Cardinality(Holders(ClientOf[c])') <= Slots
<1>1. Holders(ClientOf[c])' \subseteq Holders(ClientOf[c])
  <2>1. In(ClientOf[c], {"gate", "pace", "wire"})'
          = IF place \in {"gate", "pace", "wire"}
            THEN In(ClientOf[c], {"gate", "pace", "wire"}) \cup {c}
            ELSE In(ClientOf[c], {"gate", "pace", "wire"}) \ {c}
    BY RpcMove
  <2>2. QED
    BY <2>1 DEF Holders, In
<1>2. ClientOf[c] \in Clients
  BY RpcAssumption
<1>3. Cardinality(Holders(ClientOf[c])) <= Slots
  BY <1>2 DEF RpcInv, ObjectOK
<1>4. QED
  BY <1>1, <1>3, RpcSlotsKept

(* A request goes out: a gap after its object's last one, from a slot.     *)
RpcSends(c) ==
  /\ at[c] \in {"gate", "pace"}
  /\ sent[ClientOf[c]] # Unset => tick - sent[ClientOf[c]] >= Gap
  /\ c \in Sleepers(ClientOf[c]) \/ Sleepers(ClientOf[c]) = {}
  /\ at' = [at EXCEPT ![c] = "wire"]
  /\ last' = [last EXCEPT ![ClientOf[c]] = tick]
  /\ sent' = [sent EXCEPT ![ClientOf[c]] = tick]
  /\ UNCHANGED <<tick, alarm>>

LEMMA RpcSendKeeps ==
  ASSUME RpcInv, NEW c \in Tasks, RpcSends(c)
  PROVE  RpcInv'
<1> DEFINE p == ClientOf[c]
<1>1. p \in Clients /\ "wire" \in RpcPlaces /\ at' = [at EXCEPT ![c] = "wire"]
  BY RpcAssumption DEF RpcPlaces, RpcSends
<1>2. RpcTypeOK' /\ OthersStay(c)
  BY <1>1 DEF RpcInv, RpcTypeOK, RpcSends, OthersStay
<1>3. Sleepers(p)' = {}
  <2>1. Sleepers(p)' = Sleepers(p) \ {c}
    <3>1. In(p, {"pace"})' = IF "wire" \in {"pace"} THEN In(p, {"pace"}) \cup {c}
                             ELSE In(p, {"pace"}) \ {c}
      BY <1>1, RpcMove
    <3>2. QED
      BY <3>1 DEF Sleepers
  <2>2. \A d, e \in Sleepers(p) : d = e
    BY <1>1 DEF RpcInv, ObjectOK
  <2>3. c \in Sleepers(p) \/ Sleepers(p) = {}
    BY DEF RpcSends
  <2>4. QED
    BY <2>1, <2>2, <2>3
<1>4. Cardinality(Holders(p)') <= Slots
  BY <1>1, RpcOwnSlotsKept DEF RpcSends
<1>5. ObjectOK(p)'
  BY <1>3, <1>4 DEF ObjectOK
<1>6. \A q \in Clients : q # p => ObjectOK(q)'
  BY <1>1, <1>2, RpcOthersKeep
<1>7. QED
  BY <1>2, <1>5, <1>6 DEF RpcInv

LEMMA RpcGateStep ==
  ASSUME RpcInv, NEW c \in Tasks, PassGate(c)
  PROVE  RpcInv' /\ (at'[c] = "wire" => RpcSends(c))
<1> DEFINE p == ClientOf[c]
<1>1. CASE Rested(p)
  <2>1. sent[p] # Unset => tick - sent[p] >= Gap
    BY <1>1 DEF Rested, RpcInv, RpcTypeOK
  <2>2. RpcSends(c)
    BY <1>1, <2>1 DEF PassGate, Send, RpcSends, Sleepers
  <2>3. QED
    BY <2>2, RpcSendKeeps
<1>2. CASE ~Rested(p)
  <2>1. /\ at[c] = "gate" /\ Sleepers(p) = {}
        /\ at' = [at EXCEPT ![c] = "pace"] /\ alarm' = [alarm EXCEPT ![p] = last[p] + Gap]
        /\ UNCHANGED <<tick, last, sent>> /\ last[p] # Unset
    BY <1>2 DEF PassGate, Sleep, Rested, Sleepers
  <2>2. p \in Clients /\ last[p] \in Nat /\ Gap \in Nat /\ "pace" \in RpcPlaces
    BY <2>1, RpcAssumption DEF RpcInv, RpcTypeOK, RpcPlaces
  <2>3. RpcTypeOK' /\ at'[c] = "pace" /\ OthersStay(c)
    BY <2>1, <2>2 DEF RpcInv, RpcTypeOK, OthersStay
  <2>4. Sleepers(p)' = Sleepers(p) \cup {c}
    <3>1. In(p, {"pace"})' = IF "pace" \in {"pace"} THEN In(p, {"pace"}) \cup {c}
                             ELSE In(p, {"pace"}) \ {c}
      BY <2>1, <2>2, RpcMove
    <3>2. QED
      BY <3>1 DEF Sleepers
  <2>5. Cardinality(Holders(p)') <= Slots
    BY <2>1, <2>2, RpcOwnSlotsKept
  <2>6. last'[p] # Unset /\ alarm'[p] = last'[p] + Gap
    BY <2>1, <2>2 DEF RpcInv, RpcTypeOK
  <2>7. ObjectOK(p)'
    BY <2>1, <2>4, <2>5, <2>6 DEF ObjectOK
  <2>8. \A q \in Clients : q # p => ObjectOK(q)'
    BY <2>1, <2>2, <2>3, RpcOthersKeep
  <2>9. QED
    BY <2>3, <2>7, <2>8 DEF RpcInv
<1>3. QED
  BY <1>1, <1>2

LEMMA RpcWakeSends ==
  ASSUME RpcInv, NEW c \in Tasks, Wake(c)
  PROVE  RpcSends(c)
<1> DEFINE p == ClientOf[c]
<1>1. p \in Clients /\ c \in Sleepers(p) /\ tick >= alarm[p]
  BY RpcAssumption DEF Wake, Sleepers, In
<1>2. ObjectOK(p)
  BY <1>1 DEF RpcInv
<1>3. last[p] # Unset /\ alarm[p] = last[p] + Gap
  BY <1>1, <1>2 DEF ObjectOK
<1>4. last[p] \in Nat /\ tick \in Nat /\ Gap \in Nat /\ sent[p] = last[p]
  BY <1>1, <1>3, RpcAssumption DEF RpcInv, RpcTypeOK
<1>5. tick - sent[p] >= Gap
  BY <1>1, <1>3, <1>4
<1>6. QED
  BY <1>1, <1>5 DEF Wake, Send, RpcSends

LEMMA RpcTakeKeeps ==
  ASSUME RpcInv, NEW c \in Tasks, TakeSlot(c)
  PROVE  RpcInv'
<1> DEFINE p == ClientOf[c]
<1>1. /\ p \in Clients /\ at' = [at EXCEPT ![c] = "gate"] /\ at[c] = "slot"
      /\ UNCHANGED <<tick, last, alarm, sent>> /\ "gate" \in RpcPlaces
      /\ Cardinality(Holders(p)) < Slots
  BY RpcAssumption DEF TakeSlot, RpcPlaces, Holders
<1>2. RpcTypeOK' /\ OthersStay(c)
  BY <1>1 DEF RpcInv, RpcTypeOK, OthersStay
<1>3. Sleepers(p)' = Sleepers(p)
  <2>1. In(p, {"pace"})' = IF "gate" \in {"pace"} THEN In(p, {"pace"}) \cup {c}
                           ELSE In(p, {"pace"}) \ {c}
    BY <1>1, RpcMove
  <2>2. QED
    BY <1>1, <2>1 DEF Sleepers, In
<1>4. Holders(p)' = Holders(p) \cup {c} /\ c \notin Holders(p)
  <2>1. In(p, {"gate", "pace", "wire"})'
          = IF "gate" \in {"gate", "pace", "wire"} THEN In(p, {"gate", "pace", "wire"}) \cup {c}
            ELSE In(p, {"gate", "pace", "wire"}) \ {c}
    BY <1>1, RpcMove
  <2>2. QED
    BY <1>1, <2>1 DEF Holders, In
<1>5. /\ Cardinality(Holders(p)') = Cardinality(Holders(p)) + 1
      /\ Cardinality(Holders(p)) \in Nat
  <2>1. IsFiniteSet(Holders(p))
    BY RpcInFinite DEF Holders
  <2>2. QED
    BY <1>4, <2>1, FS_AddElement, FS_CardinalityType
<1>6. Cardinality(Holders(p)') <= Slots
  BY <1>1, <1>5, RpcAssumption
<1>7. ObjectOK(p)'
  BY <1>1, <1>3, <1>6 DEF ObjectOK, RpcInv
<1>8. \A q \in Clients : q # p => ObjectOK(q)'
  BY <1>1, <1>2, RpcOthersKeep
<1>9. QED
  BY <1>2, <1>7, <1>8 DEF RpcInv

(* A task that comes, waits for a slot or leaves.                          *)
LEMMA RpcOutsideKeeps ==
  ASSUME RpcInv, NEW c \in Tasks, NEW place \in {"away", "door", "slot"},
         at' = [at EXCEPT ![c] = place], UNCHANGED <<tick, last, alarm, sent>>
  PROVE  RpcInv' /\ at'[c] # "wire"
<1> DEFINE p == ClientOf[c]
<1>1. /\ RpcTypeOK' /\ at'[c] = place /\ place \in RpcPlaces /\ OthersStay(c)
      /\ p \in Clients
  BY RpcAssumption DEF RpcInv, RpcTypeOK, RpcPlaces, OthersStay
<1>2. Sleepers(p)' = Sleepers(p) \ {c}
  <2>1. In(p, {"pace"})' = IF place \in {"pace"} THEN In(p, {"pace"}) \cup {c}
                           ELSE In(p, {"pace"}) \ {c}
    BY <1>1, RpcMove
  <2>2. QED
    BY <2>1 DEF Sleepers
<1>3. Cardinality(Holders(p)') <= Slots
  BY <1>1, RpcOwnSlotsKept
<1>4. ObjectOK(p)'
  BY <1>1, <1>2, <1>3 DEF ObjectOK, RpcInv
<1>5. \A q \in Clients : q # p => ObjectOK(q)'
  BY <1>1, RpcOthersKeep
<1>6. QED
  BY <1>1, <1>4, <1>5 DEF RpcInv

(* What a step does: someone sends, takes a slot, enters the gate, comes   *)
(* or goes, or time passes.                                                *)
LEMMA RpcStep ==
  ASSUME RpcInv, [RpcNext]_rpcVars
  PROVE  /\ RpcInv'
         /\ \A c \in Tasks : at[c] # "wire" /\ at'[c] = "wire" => RpcSends(c)
<1>1. ASSUME NEW c \in Tasks, Wake(c) \/ PassGate(c) PROVE RpcInv' /\ (at'[c] = "wire" => RpcSends(c))
  BY <1>1, RpcWakeSends, RpcSendKeeps, RpcGateStep
<1>2. ASSUME NEW c \in Tasks, TakeSlot(c) PROVE RpcInv' /\ at'[c] # "wire"
  <2>1. at'[c] = "gate"
    BY <1>2 DEF TakeSlot, RpcInv, RpcTypeOK
  <2>2. QED
    BY <1>2, <2>1, RpcTakeKeeps
<1>3. ASSUME NEW c \in Tasks,
             StartCall(c) \/ StartChecked(c) \/ EnsureMainnet(c) \/ Arrive(c) \/ EndCall(c)
      PROVE  RpcInv' /\ at'[c] # "wire"
  <2>1. /\ \E place \in {"away", "door", "slot"} : at' = [at EXCEPT ![c] = place]
        /\ UNCHANGED <<tick, last, alarm, sent>>
    BY <1>3 DEF StartCall, StartChecked, EnsureMainnet, Arrive, EndCall, Call, HangUp
  <2>2. QED
    BY <2>1, RpcOutsideKeeps
<1>4. CASE TickPasses \/ UNCHANGED rpcVars
  <2>1. UNCHANGED <<at, last, alarm, sent>> /\ tick' \in Nat
    BY <1>4 DEF TickPasses, rpcVars, RpcInv, RpcTypeOK
  <2>2. ASSUME NEW q \in Clients PROVE ObjectOK(q)'
    <3>1. Holders(q)' = Holders(q) /\ Sleepers(q)' = Sleepers(q)
      BY <2>1 DEF Holders, Sleepers, In
    <3>2. QED
      BY <2>1, <3>1 DEF ObjectOK, RpcInv
  <2>3. QED
    BY <2>1, <2>2 DEF RpcInv, RpcTypeOK
<1>5. ASSUME NEW c \in Tasks, NEW d \in Tasks, d # c,
             \/ Wake(c) \/ PassGate(c) \/ TakeSlot(c) \/ StartCall(c) \/ StartChecked(c)
             \/ EnsureMainnet(c) \/ Arrive(c) \/ EndCall(c)
      PROVE  at'[d] = at[d]
  <2>1. \E place : at' = [at EXCEPT ![c] = place]
    BY <1>5 DEF Wake, PassGate, TakeSlot, StartCall, StartChecked, EnsureMainnet,
                Arrive, EndCall, Send, Sleep, Call, HangUp
  <2>2. QED
    BY <1>5, <2>1 DEF RpcInv, RpcTypeOK
<1>6. CASE RpcNext /\ ~TickPasses
  <2>1. PICK c \in Tasks :
          \/ Wake(c) \/ PassGate(c) \/ TakeSlot(c) \/ StartCall(c) \/ StartChecked(c)
          \/ EnsureMainnet(c) \/ Arrive(c) \/ EndCall(c)
    BY <1>6 DEF RpcNext
  <2>2. RpcInv' /\ (at'[c] = "wire" => at[c] = "wire" \/ RpcSends(c))
    BY <1>1, <1>2, <1>3, <2>1
  <2>3. QED
    BY <1>5, <2>1, <2>2
<1>7. QED
  BY <1>4, <1>6 DEF TickPasses, rpcVars

(* For any number of SolanaRPC objects and of tasks that go through each,  *)
(* the requests of one object go out at least the pacing gap apart and no  *)
(* more at once than it has slots, whatever sleeps, times out or is        *)
(* cancelled at its gate (integrations.py SolanaRPC); of the process's     *)
(* objects together nothing is said.                                       *)
THEOREM RpcStaysWithinBudget == RpcSpec => RpcWithinBudget
<1> DEFINE Budget ==
     \A q \in Clients :
       /\ \A c \in Tasks : ClientOf[c] = q /\ at[c] # "wire" /\ at'[c] = "wire"
            => (sent[q] # Unset => tick - sent[q] >= Gap)
       /\ Cardinality(In(q, {"wire"})') <= Slots
<1>1. ASSUME RpcInv', NEW q \in Clients PROVE Cardinality(In(q, {"wire"})') <= Slots
  <2> DEFINE S == Holders(q)'
             T == In(q, {"wire"})'
  <2>1. T \subseteq S /\ S \subseteq Tasks /\ Cardinality(S) <= Slots
    BY <1>1 DEF Holders, In, RpcInv, ObjectOK
  <2> HIDE DEF S, T
  <2>2. IsFiniteSet(S)
    BY <2>1, RpcAssumption, FS_Subset
  <2>3. IsFiniteSet(T) /\ Cardinality(T) <= Cardinality(S)
    BY <2>1, <2>2, FS_Subset
  <2>4. Cardinality(T) \in Nat /\ Cardinality(S) \in Nat /\ Slots \in Nat
    BY <2>2, <2>3, FS_CardinalityType, RpcAssumption
  <2>5. Cardinality(T) <= Slots
    BY <2>1, <2>3, <2>4
  <2>6. QED
    BY <2>5 DEF T
<1>2. RpcInv /\ [RpcNext]_rpcVars => RpcInv' /\ [Budget]_rpcVars
  BY <1>1, RpcStep DEF RpcSends
<1>3. RpcInit => RpcInv
  BY RpcInitInv
<1>4. QED
  BY <1>2, <1>3, PTL DEF RpcSpec, RpcWithinBudget

-------------------------------------------------------------------------------
(* Receipts of burns and claims.                                           *)

(* Past its first read, a submission is of a transaction that is final.    *)
DeskOK ==
  /\ tip \in Nat
  /\ desk \in [Clerks -> [book : Books \cup {Absent}, sig : Sigs \cup {Absent},
                          step : {"none", "status", "transaction", "mint", "mint, no time"}]]
  /\ \A c \in Clerks :
       /\ desk[c].step # "none" => desk[c].book \in Books /\ desk[c].sig \in Sigs
       /\ desk[c].step \in {"transaction", "mint", "mint, no time"} =>
            Tx[desk[c].sig].slot <= tip
       /\ desk[c].step \in {"mint", "mint, no time"} => desk[c].book = "burn"

(* A receipt is of a known book and transaction, which did what it says.   *)
RowsSound ==
  \A r \in rows :
    /\ r.book \in Books /\ r.sig \in Sigs
    /\ \A s \in rows : s.book = r.book /\ s.sig = r.sig => s = r
    /\ r.amount = Worth(r.book, Tx[r.sig]) /\ r.amount > 0
    /\ Tx[r.sig].slot <= tip

EvidenceInv == DeskOK /\ RowsSound

LEMMA EvidenceInitInv == EvidenceInit => EvidenceInv
<1> SUFFICES ASSUME EvidenceInit PROVE EvidenceInv
  OBVIOUS
<1>1. \A c \in Clerks : desk[c] = NoJob
  BY DEF EvidenceInit
<1>2. NoJob \in [book : Books \cup {Absent}, sig : Sigs \cup {Absent},
                 step : {"none", "status", "transaction", "mint", "mint, no time"}]
      /\ NoJob.step = "none"
  BY DEF NoJob
<1>3. DeskOK
  BY <1>1, <1>2 DEF EvidenceInit, DeskOK
<1>4. QED
  BY <1>3 DEF EvidenceInit, EvidenceInv, RowsSound

(* A step in which clerks only take up, advance or drop submissions.       *)
LEMMA DeskKeeps ==
  ASSUME DeskOK, NEW c \in Clerks, NEW job, desk' = [desk EXCEPT ![c] = job],
         tip' = tip,
         job \in [book : Books \cup {Absent}, sig : Sigs \cup {Absent},
                  step : {"none", "status", "transaction", "mint", "mint, no time"}],
         job.step # "none" => job.book \in Books /\ job.sig \in Sigs,
         job.step \in {"transaction", "mint", "mint, no time"} => Tx[job.sig].slot <= tip,
         job.step \in {"mint", "mint, no time"} => job.book = "burn"
  PROVE  DeskOK'
BY DEF DeskOK

LEMMA NoJobKeeps ==
  ASSUME DeskOK, NEW c \in Clerks, desk' = [desk EXCEPT ![c] = NoJob], tip' = tip
  PROVE  DeskOK'
<1>1. /\ NoJob \in [book : Books \cup {Absent}, sig : Sigs \cup {Absent},
                    step : {"none", "status", "transaction", "mint", "mint, no time"}]
      /\ NoJob.step = "none"
  BY DEF NoJob
<1>2. QED
  BY <1>1, DeskKeeps

(* A receipt of a final transaction is added if the book has none of it.   *)
LEMMA KeepSound ==
  ASSUME EvidenceInv, NEW c \in Clerks, NEW time, Keep(c, time), tip' = tip,
         desk[c].step # "none", Tx[desk[c].sig].slot <= tip
  PROVE  EvidenceInv'
<1> DEFINE job == desk[c]
           row == [book |-> job.book, sig |-> job.sig, time |-> time,
                   amount |-> Worth(job.book, Tx[job.sig])]
<1>1. /\ job.book \in Books /\ job.sig \in Sigs /\ Worth(job.book, Tx[job.sig]) > 0
      /\ desk' = [desk EXCEPT ![c] = NoJob] /\ Insert(row)
  BY DEF EvidenceInv, DeskOK, Keep
<1>2. DeskOK'
  BY <1>1, NoJobKeeps DEF EvidenceInv
<1>3. /\ row.book = job.book /\ row.sig = job.sig
      /\ row.amount = Worth(job.book, Tx[job.sig])
  OBVIOUS
<1> HIDE DEF row
<1>4. CASE Row(row.book, row.sig) = {}
  <2>1. rows' = rows \cup {row}
    BY <1>1, <1>4 DEF Insert
  <2>2. \A r \in rows : ~(r.book = row.book /\ r.sig = row.sig)
    BY <1>4 DEF Row
  <2>3. ASSUME NEW r \in rows'
        PROVE  /\ r.book \in Books /\ r.sig \in Sigs
               /\ \A s \in rows' : s.book = r.book /\ s.sig = r.sig => s = r
               /\ r.amount = Worth(r.book, Tx[r.sig]) /\ r.amount > 0
               /\ Tx[r.sig].slot <= tip
    <3>1. CASE r = row
      BY <1>1, <1>3, <2>1, <2>2, <3>1
    <3>2. CASE r # row
      BY <2>1, <2>2, <3>2 DEF EvidenceInv, RowsSound
    <3>3. QED
      BY <3>1, <3>2
  <2>4. RowsSound'
    BY <2>3 DEF RowsSound, Worth, BurnedRaw, ClaimedLamports
  <2>5. QED
    BY <1>2, <2>4 DEF EvidenceInv
<1>5. CASE Row(row.book, row.sig) # {}
  <2>1. rows' = rows
    BY <1>1, <1>5 DEF Insert
  <2>2. RowsSound'
    BY <2>1 DEF EvidenceInv, RowsSound
  <2>3. QED
    BY <1>2, <2>2 DEF EvidenceInv
<1>6. QED
  BY <1>4, <1>5

LEMMA EvidenceStepInv == EvidenceInv /\ [EvidenceNext]_evidenceVars => EvidenceInv'
<1> SUFFICES ASSUME EvidenceInv, [EvidenceNext]_evidenceVars PROVE EvidenceInv'
  OBVIOUS
<1>1. ASSUME UNCHANGED <<rows, tip>> PROVE RowsSound'
  BY <1>1 DEF EvidenceInv, RowsSound
<1>2. ASSUME NEW c \in Clerks, NEW book \in Books, NEW s \in Sigs, Submit(c, book, s)
      PROVE  EvidenceInv'
  <2>1. desk' = [desk EXCEPT ![c] = [book |-> book, sig |-> s, step |-> "status"]]
    BY <1>2 DEF Submit
  <2>2. DeskOK'
    BY <1>2, <2>1, DeskKeeps DEF Submit, EvidenceInv
  <2>3. QED
    BY <1>1, <1>2, <2>2 DEF Submit, EvidenceInv
<1>3. ASSUME NEW c \in Clerks, NEW step \in {"transaction", "mint", "mint, no time"},
             Advance(c, step), tip' = tip, rows' = rows, desk[c].step # "none",
             Tx[desk[c].sig].slot <= tip,
             step \in {"mint", "mint, no time"} => desk[c].book = "burn"
      PROVE  EvidenceInv'
  <2> DEFINE job == [desk[c] EXCEPT !.step = step]
  <2>1. desk' = [desk EXCEPT ![c] = job]
    BY <1>3 DEF Advance
  <2>2. /\ desk[c].book \in Books /\ desk[c].sig \in Sigs
        /\ desk[c] \in [book : Books \cup {Absent}, sig : Sigs \cup {Absent},
                        step : {"none", "status", "transaction", "mint", "mint, no time"}]
    BY <1>3 DEF EvidenceInv, DeskOK
  <2>3. /\ job \in [book : Books \cup {Absent}, sig : Sigs \cup {Absent},
                    step : {"none", "status", "transaction", "mint", "mint, no time"}]
        /\ job.book = desk[c].book /\ job.sig = desk[c].sig /\ job.step = step
    BY <2>2
  <2> HIDE DEF job
  <2>4. DeskOK'
    BY <1>3, <2>1, <2>2, <2>3, DeskKeeps DEF EvidenceInv
  <2>5. QED
    BY <1>1, <1>3, <2>4 DEF EvidenceInv
<1>4. ASSUME NEW c \in Clerks, ReadSignatureStatus(c) PROVE EvidenceInv'
  BY <1>3, <1>4 DEF ReadSignatureStatus, Reads
<1>5. ASSUME NEW c \in Clerks, ReadTransaction(c) PROVE EvidenceInv'
  <2>1. desk[c].step = "transaction" /\ tip' = tip /\ Tx[desk[c].sig].slot <= tip
        /\ desk[c].book \in Books
    BY <1>5 DEF ReadTransaction, Reads, EvidenceInv, DeskOK
  <2>2. CASE desk[c].book = "claim"
    <3>1. PICK time : Keep(c, time)
      BY <1>5, <2>2 DEF ReadTransaction
    <3>2. QED
      BY <2>1, <3>1, KeepSound
  <2>3. CASE desk[c].book # "claim"
    <3>1. PICK step \in {"mint", "mint, no time"} : Advance(c, step) /\ rows' = rows
      BY <1>5, <2>3 DEF ReadTransaction
    <3>2. desk[c].book = "burn"
      BY <2>1, <2>3 DEF Books
    <3>3. QED
      BY <1>3, <2>1, <3>1, <3>2
  <2>4. QED
    BY <2>2, <2>3
<1>6. ASSUME NEW c \in Clerks, ReadMint(c) PROVE EvidenceInv'
  <2>1. /\ desk[c].step \in {"mint", "mint, no time"} /\ tip' = tip
        /\ \E time : Keep(c, time)
    BY <1>6 DEF ReadMint, Reads
  <2>2. Tx[desk[c].sig].slot <= tip
    BY <2>1 DEF EvidenceInv, DeskOK
  <2>3. QED
    BY <2>1, <2>2, KeepSound
<1>7. ASSUME NEW c \in Clerks, GiveUp(c) PROVE EvidenceInv'
  BY <1>1, <1>7, NoJobKeeps DEF GiveUp, EvidenceInv
<1>8. CASE Finalize
  <2>1. tip \in Nat /\ tip' = tip + 1 /\ UNCHANGED <<desk, rows>>
    BY <1>8 DEF Finalize, EvidenceInv, DeskOK
  <2>2. \A s \in Sigs : Tx[s].slot \in Int
    BY EvidenceAssumption
  <2>3. \A s \in Sigs : Tx[s].slot <= tip => Tx[s].slot <= tip'
    BY <2>1, <2>2
  <2>4. tip' \in Nat
    BY <2>1
  <2>5. DeskOK'
    BY <2>1, <2>3, <2>4 DEF EvidenceInv, DeskOK
  <2>6. RowsSound'
    BY <2>1, <2>3 DEF EvidenceInv, RowsSound
  <2>7. QED
    BY <2>5, <2>6 DEF EvidenceInv
<1>9. CASE ProcessDies
  <2>1. /\ NoJob \in [book : Books \cup {Absent}, sig : Sigs \cup {Absent},
                      step : {"none", "status", "transaction", "mint", "mint, no time"}]
        /\ NoJob.step = "none"
    BY DEF NoJob
  <2>2. desk' = [c \in Clerks |-> NoJob] /\ UNCHANGED <<tip, rows>>
    BY <1>9 DEF ProcessDies
  <2>3. DeskOK'
    BY <2>1, <2>2 DEF EvidenceInv, DeskOK
  <2>4. QED
    BY <1>1, <2>2, <2>3 DEF EvidenceInv
<1>10. CASE UNCHANGED evidenceVars
  BY <1>10 DEF evidenceVars, EvidenceInv, DeskOK, RowsSound
<1>11. QED
  BY <1>2, <1>4, <1>5, <1>6, <1>7, <1>8, <1>9, <1>10 DEF EvidenceNext

(* What a receipt may say is what the transaction did.                     *)
LEMMA WorthIsTrue ==
  ASSUME NEW s \in Sigs, NEW book \in Books, Worth(book, Tx[s]) > 0
  PROVE  Worth(book, Tx[s]) = IF book = "burn" THEN TrulyBurned(Tx[s]) ELSE TrulyClaimed(Tx[s])
<1>1. CASE book = "burn"
  BY <1>1 DEF Worth, BurnedRaw, TrulyBurned
<1>2. CASE book = "claim"
  <2> DEFINE t == Tx[s]
             amount == t.change.creator + (IF t.payerIsCreator THEN t.fee ELSE 0)
  <2>1. /\ Worth(book, t) = amount /\ t.ok /\ OneClaim(t) /\ t.change.vault = -amount
    BY <1>2 DEF Worth, ClaimedLamports
  <2>2. t.change.vault = -t.claimed
    BY <2>1, VaultAssumption
  <2>3. amount \in Int /\ t.claimed \in Int
    BY EvidenceAssumption
  <2>4. amount = t.claimed
    <3> HIDE DEF amount
    <3>1. QED
      BY <2>1, <2>2, <2>3
  <2>5. QED
    BY <1>2, <2>1, <2>4 DEF TrulyClaimed
<1>3. QED
  BY <1>1, <1>2 DEF Books

(* However often, at once or in whatever order transactions are submitted,  *)
(* and whatever fails in between, a book holds each at most once and with   *)
(* what it did on chain (token_audit_api.py, creator_claims_api.py).       *)
THEOREM ReceiptsAreTrue == EvidenceSpec => []ReceiptsCountOnce
<1>1. EvidenceInv => ReceiptsCountOnce
  <2> SUFFICES ASSUME EvidenceInv, NEW r \in rows
               PROVE  /\ Row(r.book, r.sig) = {r}
                      /\ r.amount = IF r.book = "burn" THEN TrulyBurned(Tx[r.sig])
                                    ELSE TrulyClaimed(Tx[r.sig])
                      /\ r.amount > 0 /\ Tx[r.sig].slot <= tip
    BY DEF ReceiptsCountOnce
  <2>1. /\ r.book \in Books /\ r.sig \in Sigs /\ r.amount = Worth(r.book, Tx[r.sig])
        /\ r.amount > 0 /\ Tx[r.sig].slot <= tip
        /\ \A s \in rows : s.book = r.book /\ s.sig = r.sig => s = r
    BY DEF EvidenceInv, RowsSound
  <2>2. Row(r.book, r.sig) = {r}
    BY <2>1 DEF Row
  <2>3. Worth(r.book, Tx[r.sig]) =
          IF r.book = "burn" THEN TrulyBurned(Tx[r.sig]) ELSE TrulyClaimed(Tx[r.sig])
    BY <2>1, WorthIsTrue
  <2>4. QED
    BY <2>1, <2>2, <2>3
<1>2. QED
  BY <1>1, EvidenceInitInv, EvidenceStepInv, PTL DEF EvidenceSpec

-------------------------------------------------------------------------------
(* Snapshots are whole and verifications are about one content.            *)

StageSteps == {"idle", "staged", "copied", "verified", "cleanup", "done", "killed"}

LookSteps == {"none", "check", "hash", "compare", "reported"}

BackupTypeOK ==
  /\ source \in Nat /\ file \in Nat
  /\ stages \in [Runs -> [step : StageSteps, copy : Nat \cup {Missing, Partial}]]
  /\ look \in [step : LookSteps, stat : Nat, checked : Nat, hashed : Nat]

(* What is about to be published is a whole copy.                          *)
StagesWhole ==
  \A r \in Runs : stages[r].step \in {"copied", "verified"} => stages[r].copy \in Nat

TargetWhole == target = whole /\ target # Partial

(* The file's content only ever moves forward, so a verification reads its *)
(* status, its pages and its digest in this order.                         *)
LookOrdered ==
  /\ look.step = "check" => look.stat <= file
  /\ look.step = "hash" => look.stat <= look.checked /\ look.checked <= file
  /\ look.step = "compare" =>
       look.stat <= look.checked /\ look.checked <= look.hashed /\ look.hashed <= file
  /\ look.step = "reported" => look.checked = look.hashed

BackupInv == BackupTypeOK /\ StagesWhole /\ TargetWhole /\ LookOrdered

LEMMA BackupInitOK == BackupInit => BackupInv
  BY BackupAssumption DEF BackupInit, NoStage, NoLook, BackupInv, BackupTypeOK,
     StagesWhole, TargetWhole, LookOrdered, StageSteps, LookSteps

(* A command touches its own stage and, when it publishes, the target.     *)
LEMMA RunStep ==
  ASSUME BackupInv, NEW r \in Runs,
         Stage(r) \/ Copy(r) \/ VerifyStage(r) \/ Link(r) \/ StepFails(r) \/ Unlink(r) \/ Kill(r)
  PROVE  BackupInv'
<1> USE DEF BackupInv, BackupTypeOK, StageSteps
<1>1. source' = source /\ file' = file /\ look' = look
  BY DEF Stage, Copy, VerifyStage, Link, StepFails, Unlink, Kill
<1>2. LookOrdered'
  BY <1>1 DEF LookOrdered
<1>3. CASE Stage(r)
  BY <1>1, <1>2, <1>3 DEF Stage, StagesWhole, TargetWhole
<1>4. CASE Copy(r)
  BY <1>1, <1>2, <1>4 DEF Copy, StagesWhole, TargetWhole
<1>5. CASE VerifyStage(r)
  BY <1>1, <1>2, <1>5 DEF VerifyStage, To, StagesWhole, TargetWhole
<1>6. CASE Link(r)
  <2>1. stages[r].copy \in Nat
    BY <1>6 DEF Link, StagesWhole
  <2>2. TargetWhole'
    BY <1>6, <2>1, BackupAssumption DEF Link, Publish, TargetWhole
  <2>3. QED
    BY <1>1, <1>2, <1>6, <2>2 DEF Link, To, StagesWhole
<1>7. CASE StepFails(r)
  BY <1>1, <1>2, <1>7 DEF StepFails, To, StagesWhole, TargetWhole
<1>8. CASE Unlink(r)
  BY <1>1, <1>2, <1>8 DEF Unlink, StagesWhole, TargetWhole
<1>9. CASE Kill(r)
  BY <1>1, <1>2, <1>9 DEF Kill, To, StagesWhole, TargetWhole
<1>10. QED
  BY <1>3, <1>4, <1>5, <1>6, <1>7, <1>8, <1>9

(* The verification and the writers of its file leave the snapshots alone. *)
LEMMA LookStep ==
  ASSUME BackupInv, LookStat \/ LookCheck \/ LookHash \/ LookCompare \/ WriteFile
  PROVE  BackupInv'
<1> USE DEF BackupInv, BackupTypeOK, LookSteps
<1>1. UNCHANGED <<source, stages, target, whole>>
  BY DEF LookStat, LookCheck, LookHash, LookCompare, WriteFile
<1>2. StagesWhole' /\ TargetWhole'
  BY <1>1 DEF StagesWhole, TargetWhole
<1>3. CASE LookStat
  <2>1. look' = [step |-> "check", stat |-> file, checked |-> 0, hashed |-> 0] /\ file' = file
    BY <1>3 DEF LookStat
  <2>2. BackupTypeOK'
    BY <1>1, <2>1
  <2>3. LookOrdered'
    BY <2>1 DEF LookOrdered
  <2>4. QED
    BY <1>2, <2>2, <2>3
<1>4. CASE LookCheck
  <2>1. look' = [look EXCEPT !.step = "hash", !.checked = file] /\ file' = file
    BY <1>4 DEF LookCheck
  <2>2. BackupTypeOK'
    BY <1>1, <2>1
  <2>3. LookOrdered'
    BY <1>4, <2>1 DEF LookCheck, LookOrdered
  <2>4. QED
    BY <1>2, <2>2, <2>3
<1>5. CASE LookHash
  <2>1. look' = [look EXCEPT !.step = "compare", !.hashed = file] /\ file' = file
    BY <1>5 DEF LookHash
  <2>2. BackupTypeOK'
    BY <1>1, <2>1
  <2>3. LookOrdered'
    BY <1>5, <2>1 DEF LookHash, LookOrdered
  <2>4. QED
    BY <1>2, <2>2, <2>3
<1>6. CASE LookCompare
  BY <1>1, <1>2, <1>6 DEF LookCompare, LookAgain, NoLook, LookOrdered
<1>7. CASE WriteFile
  BY <1>1, <1>2, <1>7 DEF WriteFile, LookOrdered
<1>8. QED
  BY <1>3, <1>4, <1>5, <1>6, <1>7

LEMMA BackupStepOK == BackupInv /\ [BackupNext]_backupVars => BackupInv'
<1> SUFFICES ASSUME BackupInv, [BackupNext]_backupVars
             PROVE  BackupInv'
  OBVIOUS
<1>1. CASE Commit
  BY <1>1 DEF Commit, BackupInv, BackupTypeOK, StagesWhole, TargetWhole, LookOrdered
<1>2. CASE UNCHANGED backupVars
  BY <1>2 DEF backupVars, BackupInv, BackupTypeOK, StagesWhole, TargetWhole, LookOrdered
<1>3. QED
  BY <1>1, <1>2, RunStep, LookStep DEF BackupNext

(* Whatever runs side by side, fails or is killed, the destination of      *)
(* backup.py holds the first whole copy published under its name, and a    *)
(* report of verify_database is about one content.                         *)
THEOREM SnapshotsAreWhole == BackupSpec => []BackupsAreWhole
<1>1. BackupInv => BackupsAreWhole
  BY DEF BackupInv, TargetWhole, LookOrdered, BackupsAreWhole
<1>2. QED
  BY <1>1, BackupInitOK, BackupStepOK, PTL DEF BackupSpec

-------------------------------------------------------------------------------
(* The usage scan.                                                         *)

RowIds(from, to) == {listed[p] : p \in from .. to}

(* While the list is as long as the scan was told, it is as it was: what   *)
(* was kept is its first pages.                                            *)
ScanOK ==
  \/ scan = Fresh
  \/ /\ scan = [page |-> scan.page, ids |-> scan.ids, cost |-> scan.cost, total |-> scan.total]
     /\ scan.page \in Nat \ {0} /\ scan.total \in Nat
     /\ trend = "grows" => scan.total <= Len(listed)
     /\ trend = "shrinks" => Len(listed) <= scan.total
     /\ Len(listed) = scan.total =>
          /\ (scan.page - 1) * PageSize <= Len(listed)
          /\ scan.ids = RowIds(1, (scan.page - 1) * PageSize)
          /\ scan.cost = CostSum(scan.ids)

ScanInv ==
  /\ listed \in Seq(UsageIds) /\ trend \in {"grows", "shrinks"}
  /\ ScanOK /\ ScanMeansList

(* The cost of two sets of rows with nothing in common is the sum.         *)
LEMMA CostAdds ==
  ASSUME NEW A, NEW B, A \subseteq UsageIds, B \subseteq UsageIds, A \cap B = {}
  PROVE  CostSum(A \cup B) = CostSum(A) + CostSum(B)
<1> DEFINE D == A \cup B
           a == [i \in A |-> CostOf[i]]
           b == [i \in B |-> CostOf[i]]
           f == [i \in D |-> IF i \in A THEN CostOf[i] ELSE 0]
           g == [i \in D |-> IF i \in B THEN CostOf[i] ELSE 0]
           h == [i \in D |-> CostOf[i]]
<1>1. IsFiniteSet(D)
  <2>1. IsFiniteSet(UsageIds) /\ D \subseteq UsageIds
    BY ScanAssumption
  <2> QED BY <2>1, FS_Subset
<1>2. /\ a \in [A -> Nat] /\ b \in [B -> Nat]
      /\ f \in [D -> Nat] /\ g \in [D -> Nat] /\ h \in [D -> Nat]
  BY ScanAssumption
<1>3. /\ A \subseteq D /\ B \subseteq D
      /\ \A i \in A : a[i] = f[i]
      /\ \A i \in D \ A : f[i] = 0
      /\ \A i \in B : b[i] = g[i]
      /\ \A i \in D \ B : g[i] = 0
  OBVIOUS
<1>4. \A i \in D : h[i] = f[i] + g[i]
  <2> TAKE i \in D
  <2>1. CostOf[i] \in Nat
    BY ScanAssumption
  <2> QED BY <2>1
<1>5. CostSum(A) = SumOf(a) /\ CostSum(B) = SumOf(b) /\ CostSum(A \cup B) = SumOf(h)
  BY DEF CostSum
<1> HIDE DEF D, a, b, f, g, h
<1>6. SumOf(h) = SumOf(f) + SumOf(g)
  BY <1>1, <1>2, <1>4, SumAdd
<1>7. SumOf(a) = SumOf(f)
  BY <1>2, <1>3, SumRestrict
<1>8. SumOf(b) = SumOf(g)
  BY <1>2, <1>3, SumRestrict
<1> QED BY <1>5, <1>6, <1>7, <1>8

LEMMA NothingCosts == CostSum({}) = 0
<1> DEFINE f == [i \in {} |-> CostOf[i]]
<1>1. f \in [{} -> Nat] /\ \A i \in {} : f[i] = 0
  OBVIOUS
<1> HIDE DEF f
<1>2. SumOf(f) = 0
  BY <1>1, SumZero
<1> QED BY <1>2 DEF CostSum, f

LEMMA ScanInitInv == ScanInit => ScanInv
<1> SUFFICES ASSUME ScanInit PROVE ScanInv
  OBVIOUS
<1>1. Cardinality(UsageIds) \in Nat
  BY ScanAssumption, FS_CardinalityType
<1>2. listed \in UNION {[1..m -> UsageIds] : m \in 0..Cardinality(UsageIds)}
  BY DEF ScanInit, Lists, SeqOf
<1>3. PICK m \in 0..Cardinality(UsageIds) : listed \in [1..m -> UsageIds]
  BY <1>2
<1>4. listed \in Seq(UsageIds)
  BY <1>1, <1>3
<1> QED BY <1>4 DEF ScanInit, ScanInv, ScanOK, ScanMeansList

(* The provider's list moves away from every length it had.                *)
LEMMA ListMoves ==
  ASSUME listed \in Seq(UsageIds), trend \in {"grows", "shrinks"}, ListChanges
  PROVE  /\ listed' \in Seq(UsageIds)
         /\ trend = "grows" => Len(listed') = Len(listed) + 1
         /\ trend = "shrinks" => Len(listed') = Len(listed) - 1
<1>1. ASSUME NEW i \in UsageIds, NEW p \in 1 .. Len(listed) + 1,
             listed' = InsertAt(listed, p, i)
      PROVE  listed' \in Seq(UsageIds) /\ Len(listed') = Len(listed) + 1
  <2> DEFINE a == SubSeq(listed, 1, p - 1)
             b == SubSeq(listed, p, Len(listed))
  <2>1. a \in Seq(UsageIds) /\ Len(a) = p - 1
    BY SubSeqProperties
  <2>2. b \in Seq(UsageIds) /\ Len(b) = Len(listed) - p + 1
    BY SubSeqProperties
  <2>3. <<i>> \in Seq(UsageIds) /\ Len(<<i>>) = 1
    OBVIOUS
  <2>4. listed' = a \o <<i>> \o b
    BY <1>1 DEF InsertAt
  <2> HIDE DEF a, b
  <2>5. a \o <<i>> \in Seq(UsageIds) /\ Len(a \o <<i>>) = p
    BY <2>1, <2>3, ConcatProperties
  <2> QED BY <2>2, <2>4, <2>5, ConcatProperties
<1>2. ASSUME NEW p \in DOMAIN listed, listed' = RemoveAt(listed, p)
      PROVE  listed' \in Seq(UsageIds) /\ Len(listed') = Len(listed) - 1
  <2> DEFINE a == SubSeq(listed, 1, p - 1)
             b == SubSeq(listed, p + 1, Len(listed))
  <2>0. p \in 1..Len(listed)
    OBVIOUS
  <2>1. a \in Seq(UsageIds) /\ Len(a) = p - 1
    BY <2>0, SubSeqProperties
  <2>2. b \in Seq(UsageIds) /\ Len(b) = Len(listed) - p
    BY <2>0, SubSeqProperties
  <2>3. listed' = a \o b
    BY <1>2 DEF RemoveAt
  <2> HIDE DEF a, b
  <2> QED BY <2>0, <2>1, <2>2, <2>3, ConcatProperties
<1> QED BY <1>1, <1>2 DEF ListChanges

(* The rows of one page.                                                   *)
LEMMA PageIds ==
  ASSUME listed \in Seq(UsageIds), NEW n \in Nat \ {0}, (n - 1) * PageSize <= Len(listed)
  PROVE  /\ n * PageSize = (n - 1) * PageSize + PageSize /\ (n - 1) * PageSize \in Nat
         /\ ToSet(PageRows(n)) = RowIds((n - 1) * PageSize + 1,
              IF n * PageSize < Len(listed) THEN n * PageSize ELSE Len(listed))
<1> DEFINE from == (n - 1) * PageSize
           to   == IF from + PageSize < Len(listed) THEN from + PageSize ELSE Len(listed)
           slice == SubSeq(listed, from + 1, to)
<1>1. PageSize \in Nat \ {0} /\ Len(listed) \in Nat
  BY ScanAssumption
<1>2. from \in Nat /\ n * PageSize = from + PageSize
  BY <1>1
<1>3. PageRows(n) = slice /\ to = (IF n * PageSize < Len(listed) THEN n * PageSize ELSE Len(listed))
  BY <1>2 DEF PageRows
<1>4. from <= to /\ to <= Len(listed) /\ to \in Nat
  BY <1>1, <1>2
<1> HIDE DEF from, to
<1>5. \A i \in from + 1 .. to : listed[i] \in UsageIds
  BY <1>2, <1>4
<1>6. /\ slice \in Seq(UsageIds) /\ Len(slice) = to - from
      /\ \A i \in 1 .. to - from : slice[i] = listed[from + i]
  <2>1. from + 1 \in Int /\ to \in Int
    BY <1>2, <1>4
  <2>2. /\ slice \in Seq(UsageIds)
        /\ Len(slice) = IF from + 1 <= to THEN to - (from + 1) + 1 ELSE 0
        /\ \A i \in 1 .. to - (from + 1) + 1 : slice[i] = listed[from + 1 + i - 1]
    BY <1>5, <2>1, SubSeqProperties
  <2> QED BY <1>2, <1>4, <2>2
<1> HIDE DEF slice
<1>7. ToSet(slice) = {slice[i] : i \in 1 .. to - from}
  BY <1>6 DEF ToSet
<1>8. {slice[i] : i \in 1 .. to - from} = RowIds(from + 1, to)
  <2>1. ASSUME NEW i \in 1 .. to - from PROVE slice[i] \in RowIds(from + 1, to)
    <3>1. from + i \in from + 1 .. to /\ slice[i] = listed[from + i]
      BY <1>2, <1>4, <1>6
    <3> QED BY <3>1 DEF RowIds
  <2>2. ASSUME NEW p \in from + 1 .. to PROVE listed[p] \in {slice[i] : i \in 1 .. to - from}
    <3>1. p - from \in 1 .. to - from /\ from + (p - from) = p
      BY <1>2, <1>4
    <3>2. slice[p - from] = listed[p]
      BY <1>6, <3>1
    <3> QED BY <3>1, <3>2
  <2> QED BY <2>1, <2>2 DEF RowIds
<1> QED BY <1>2, <1>3, <1>7, <1>8 DEF from, to

(* The last page is the one that reaches the total.                        *)
LEMMA PagesCover ==
  ASSUME NEW n \in Nat \ {0}, NEW total \in Nat
  PROVE  /\ n * PageSize \in Nat
         /\ n >= Pages(total) => total <= n * PageSize
         /\ n < Pages(total) => n * PageSize < total
<1> DEFINE q == Pages(total)
           t == total + PageSize - 1
<1>1. PageSize \in Nat \ {0}
  BY ScanAssumption
<1>2. q = t \div PageSize /\ t \in Nat
  BY <1>1 DEF Pages
<1> HIDE DEF q, t
<1>3. q \in Nat /\ q * PageSize <= t /\ t < (q + 1) * PageSize
  BY <1>1, <1>2
<1>4. n * PageSize \in Nat /\ q * PageSize \in Nat /\ (q + 1) * PageSize = q * PageSize + PageSize
  BY <1>1, <1>3
<1>5. ASSUME n >= q PROVE total <= n * PageSize
  <2>1. q * PageSize <= n * PageSize
    BY <1>1, <1>3, <1>5
  <2> QED BY <1>1, <1>3, <1>4, <2>1 DEF t
<1>6. ASSUME n < q PROVE n * PageSize < total
  <2>1. (n + 1) * PageSize <= q * PageSize /\ (n + 1) * PageSize = n * PageSize + PageSize
    BY <1>1, <1>3, <1>6
  <2> QED BY <1>1, <1>3, <1>4, <2>1 DEF t
<1> QED BY <1>3, <1>4, <1>5, <1>6 DEF q

(* A page is kept beside the pages before it, or ends the scan.            *)
LEMMA ReadPageKeeps ==
  ASSUME ScanInv, ReadPage
  PROVE  ScanInv'
<1> DEFINE n == scan.page
           slice == PageRows(n)
           total == Len(listed)
           kept == scan.ids \cup ToSet(slice)
           next == [page |-> n + 1, ids |-> kept, cost |-> scan.cost + CostSum(ToSet(slice)),
                    total |-> total]
           to == IF n * PageSize < total THEN n * PageSize ELSE total
<1>1. /\ IF ~SameTotal(total) \/ ToSet(slice) \cap scan.ids # {}
         THEN scan' = Fresh /\ report' = Unread
         ELSE IF n >= Pages(total)
              THEN scan' = Fresh /\ report' = next
              ELSE scan' = next /\ report' = Unread
      /\ listed' = listed /\ trend' = trend
  BY DEF ReadPage
<1>2. listed \in Seq(UsageIds) /\ trend \in {"grows", "shrinks"} /\ total \in Nat
  BY DEF ScanInv
<1>3. CASE ~SameTotal(total) \/ ToSet(slice) \cap scan.ids # {}
  BY <1>1, <1>2, <1>3 DEF ScanInv, ScanOK, ScanMeansList
<1>4. CASE SameTotal(total) /\ ToSet(slice) \cap scan.ids = {}
  <2>1. /\ n \in Nat \ {0} /\ (n - 1) * PageSize <= total
        /\ scan.ids = RowIds(1, (n - 1) * PageSize) /\ scan.cost = CostSum(scan.ids)
    <3>1. CASE scan = Fresh
      <4>1. n = 1 /\ scan.ids = {} /\ scan.cost = 0 /\ (1 - 1) * PageSize = 0
        BY <3>1, ScanAssumption DEF Fresh
      <4>2. RowIds(1, 0) = {}
        BY DEF RowIds
      <4> QED BY <1>2, <4>1, <4>2, NothingCosts
    <3>2. CASE scan # Fresh
      <4>1. scan.total = total
        BY <1>4, <3>2, ScanAssumption DEF SameTotal, ScanInv, ScanOK
      <4> QED BY <3>2, <4>1 DEF ScanInv, ScanOK
    <3> QED BY <3>1, <3>2
  <2>2. /\ n * PageSize = (n - 1) * PageSize + PageSize /\ (n - 1) * PageSize \in Nat
        /\ ToSet(slice) = RowIds((n - 1) * PageSize + 1, to)
    BY <1>2, <2>1, PageIds
  <2>3. /\ n * PageSize \in Nat
        /\ n >= Pages(total) => total <= n * PageSize
        /\ n < Pages(total) => n * PageSize < total
    BY <1>2, <2>1, PagesCover
  <2>4. (n - 1) * PageSize <= to /\ to \in Nat /\ to <= total
    BY <1>2, <2>1, <2>2, <2>3, ScanAssumption
  <2>5. kept = RowIds(1, to)
    <3> DEFINE from == (n - 1) * PageSize
    <3>1. from \in Nat /\ from <= to
      BY <2>2, <2>4
    <3> HIDE DEF from, to
    <3>2. \A p \in 1 .. to : p \in 1 .. from \/ p \in from + 1 .. to
      BY <2>4, <3>1
    <3>3. \A p \in 1 .. from : p \in 1 .. to
      BY <2>4, <3>1
    <3>4. \A p \in from + 1 .. to : p \in 1 .. to
      BY <2>4, <3>1
    <3>5. RowIds(1, from) \cup RowIds(from + 1, to) = RowIds(1, to)
      BY <3>2, <3>3, <3>4 DEF RowIds
    <3> QED BY <2>1, <2>2, <3>5 DEF from
  <2>6. scan.ids \subseteq UsageIds /\ ToSet(slice) \subseteq UsageIds
    <3>1. RowIds(1, to) \subseteq UsageIds
      <4>1. \A p \in 1 .. to : listed[p] \in UsageIds
        BY <1>2, <2>4
      <4> QED BY <4>1 DEF RowIds
    <3> QED BY <2>5, <3>1
  <2>7. scan.cost + CostSum(ToSet(slice)) = CostSum(kept)
    <3>1. CostSum(kept) = CostSum(scan.ids) + CostSum(ToSet(slice))
      BY <1>4, <2>6, CostAdds
    <3> QED BY <2>1, <3>1
  <2> HIDE DEF n, slice, kept
  <2>8. CASE n >= Pages(total)
    <3>1. scan' = Fresh /\ report' = next
      BY <1>1, <1>4, <2>8
    <3>2. to = total
      BY <1>2, <2>3, <2>8
    <3>3. RowIds(1, total) = ToSet(listed)
      BY <1>2 DEF RowIds, ToSet
    <3>4. report'.ids = ToSet(listed) /\ report'.cost = CostSum(ToSet(listed))
      BY <2>5, <2>7, <3>1, <3>2, <3>3
    <3>5. ScanMeansList'
      BY <1>1, <3>4 DEF ScanMeansList, CostSum
    <3> QED BY <1>1, <1>2, <3>1, <3>5 DEF ScanInv, ScanOK, Fresh
  <2>9. CASE n < Pages(total)
    <3>1. scan' = next /\ report' = Unread
      BY <1>1, <1>2, <1>4, <2>1, <2>9, ScanAssumption DEF Pages
    <3>2. to = n * PageSize /\ n * PageSize < total
      BY <2>3, <2>9
    <3>3. /\ scan'.page = n + 1 /\ scan'.ids = kept /\ scan'.total = total
          /\ scan'.cost = CostSum(kept)
          /\ scan' = [page |-> scan'.page, ids |-> scan'.ids, cost |-> scan'.cost,
                      total |-> scan'.total]
      BY <2>7, <3>1
    <3>4. scan'.page \in Nat \ {0} /\ scan'.page - 1 = n
      BY <2>1, <3>3
    <3>5. kept = RowIds(1, (scan'.page - 1) * PageSize)
      BY <2>5, <3>2, <3>4
    <3>6. (scan'.page - 1) * PageSize <= Len(listed)
      BY <1>2, <2>3, <3>2, <3>4
    <3>7. ScanOK'
      BY <1>1, <1>2, <3>3, <3>4, <3>5, <3>6 DEF ScanOK, RowIds, CostSum
    <3> QED BY <1>1, <1>2, <3>1, <3>7 DEF ScanInv, ScanMeansList
  <2>10. Pages(total) \in Int /\ n \in Int
    BY <1>2, <2>1, ScanAssumption DEF Pages
  <2> QED BY <2>8, <2>9, <2>10
<1> QED BY <1>3, <1>4

LEMMA ScanStepInv == ScanInv /\ [ScanNext]_scanVars => ScanInv'
<1> SUFFICES ASSUME ScanInv, [ScanNext]_scanVars PROVE ScanInv'
  OBVIOUS
<1>1. CASE ReadPage
  BY <1>1, ReadPageKeeps
<1>2. CASE AbandonScan
  BY <1>2 DEF AbandonScan, ScanInv, ScanOK, ScanMeansList
<1>3. CASE ListChanges
  <2>1. listed \in Seq(UsageIds) /\ trend \in {"grows", "shrinks"} /\ Len(listed) \in Nat
    BY DEF ScanInv
  <2>2. /\ listed' \in Seq(UsageIds)
        /\ trend = "grows" => Len(listed') = Len(listed) + 1
        /\ trend = "shrinks" => Len(listed') = Len(listed) - 1
    BY <1>3, <2>1, ListMoves
  <2>3. scan' = scan /\ trend' = trend /\ report' = Unread
    BY <1>3 DEF ListChanges
  <2>4. ASSUME scan # Fresh
        PROVE  /\ trend = "grows" => scan.total <= Len(listed')
               /\ trend = "shrinks" => Len(listed') <= scan.total
               /\ Len(listed') # scan.total
               /\ scan.page \in Nat \ {0} /\ scan.total \in Nat
               /\ scan = [page |-> scan.page, ids |-> scan.ids, cost |-> scan.cost,
                          total |-> scan.total]
    <3>1. /\ scan.page \in Nat \ {0} /\ scan.total \in Nat
          /\ scan = [page |-> scan.page, ids |-> scan.ids, cost |-> scan.cost,
                     total |-> scan.total]
          /\ trend = "grows" => scan.total <= Len(listed)
          /\ trend = "shrinks" => Len(listed) <= scan.total
      BY <2>4 DEF ScanInv, ScanOK
    <3> QED BY <2>1, <2>2, <3>1
  <2>5. ScanOK'
    BY <2>3, <2>4 DEF ScanOK, Fresh
  <2> QED BY <2>1, <2>2, <2>3, <2>5 DEF ScanInv, ScanMeansList
<1>4. CASE UNCHANGED scanVars
  BY <1>4 DEF scanVars, ScanInv, ScanOK, ScanMeansList, Fresh, RowIds, CostSum
<1> QED BY <1>1, <1>2, <1>3, <1>4 DEF ScanNext

(* While the provider's list only grows or only shrinks, reconcile_usage   *)
(* ends well only with every row of the list counted once (ScanMeansList), *)
(* for every page size and length: a list that has changed since the first *)
(* page has another length, and never has its old one again.               *)
THEOREM ScanCountsList == ScanSpec => []ScanMeansList
<1>1. ScanInv => ScanMeansList
  BY DEF ScanInv
<1> QED BY <1>1, ScanInitInv, ScanStepInv, PTL DEF ScanSpec

-------------------------------------------------------------------------------
(* The treasury tools.                                                     *)

(* The supply is what the accounts hold.                                   *)
ChainOK ==
  /\ chain = [slot |-> chain.slot, supply |-> chain.supply, held |-> chain.held]
  /\ chain.held \in [Accs -> Account \cup {Gone}]
  /\ chain.supply = SumOf([a \in Accs |-> BalanceOf(chain.held[a])])

(* A listing holds the owner's accounts, and a display was given only for  *)
(* a mint in order.                                                        *)
ListingOK == listing # Gone => \A a \in DOMAIN listing : listing[a].ours

DisplayOK ==
  display # Gone =>
    /\ MintOk
    /\ \A a \in DOMAIN display : /\ display[a].of.ours
                                 /\ display[a].reason = Reason(display[a].of)

(* Nothing of an account stands against a burn from it.                    *)
Free(r) ==
  /\ MintOk /\ r.ours
  /\ ExtensionsOk(r.layout)
  /\ ~r.frozen /\ ~r.native /\ r.delegate = "none" /\ r.closer # "other"

PlanOK ==
  plan # Gone =>
    /\ plan.of \in Account /\ plan.raw \in Nat \ {0}
    /\ plan.made <=> Free(plan.of) /\ plan.raw <= plan.of.balance
    /\ plan.made => 0 <= plan.remaining /\ plan.remaining <= plan.supplyAfter

TreasuryInv == ChainOK /\ ListingOK /\ DisplayOK /\ PlanOK

(* What the accounts are worth is a sum over a finite set.                 *)
LEMMA BalanceSum ==
  ASSUME NEW held \in [Accs -> Account \cup {Gone}]
  PROVE  /\ [a \in Accs |-> BalanceOf(held[a])] \in [Accs -> Nat]
         /\ SumOf([a \in Accs |-> BalanceOf(held[a])]) \in Nat
         /\ \A a \in Accs : BalanceOf(held[a]) <= SumOf([b \in Accs |-> BalanceOf(held[b])])
<1> DEFINE f == [a \in Accs |-> BalanceOf(held[a])]
<1>1. f \in [Accs -> Nat] /\ IsFiniteSet(Accs)
  <2>1. \A r \in Account \cup {Gone} : BalanceOf(r) \in Nat
    BY DEF BalanceOf, Account
  <2>2. IsFiniteSet(Accs)
    BY TreasuryAssumption
  <2> QED BY <2>1, <2>2
<1> HIDE DEF f
<1>2. SumOf(f) \in Nat
  BY <1>1, SumType
<1>3. ASSUME NEW a \in Accs PROVE f[a] <= SumOf(f)
  <2>1. /\ Cardinality(OtherUnits(f, a)) \in Nat
        /\ SumOf(f) = Cardinality(OtherUnits(f, a)) + f[a]
    BY <1>1, SumSplit
  <2>2. f[a] \in Nat
    BY <1>1
  <2> QED BY <2>1, <2>2
<1> QED BY <1>1, <1>2, <1>3 DEF f

LEMMA TreasuryInitInv == TreasuryInit => TreasuryInv
BY TreasuryAssumption DEF TreasuryInit, TreasuryInv, ChainOK, ListingOK, DisplayOK, PlanOK

(* One account changes and burns what the supply loses.                    *)
LEMMA BecomesKeeps ==
  ASSUME ChainOK, NEW a \in Accs, NEW r \in Account \cup {Gone}, NEW burned \in Nat,
         BalanceOf(r) = BalanceOf(chain.held[a]) - burned, Becomes(a, r, burned)
  PROVE  ChainOK'
<1> DEFINE old == chain.held
           new == [chain.held EXCEPT ![a] = r]
           f == [b \in Accs |-> BalanceOf(old[b])]
           g == [b \in Accs |-> BalanceOf(new[b])]
<1>1. old \in [Accs -> Account \cup {Gone}] /\ chain.supply = SumOf(f)
  BY DEF ChainOK
<1>2. new \in [Accs -> Account \cup {Gone}]
  BY <1>1
<1>3. chain' = [slot |-> chain.slot + 1, supply |-> chain.supply - burned, held |-> new]
  BY DEF Becomes
<1>4. f \in [Accs -> Nat] /\ SumOf(f) \in Nat /\ IsFiniteSet(Accs)
  BY <1>1, BalanceSum, TreasuryAssumption
<1>5. g \in [Accs -> Nat]
  BY <1>2, BalanceSum
<1>6. g[a] = f[a] - burned /\ \A b \in Accs \ {a} : g[b] = f[b]
  BY <1>1
<1>a. f[a] \in Nat
  BY <1>4
<1> HIDE DEF old, new, f, g
<1>7. SumOf(g) = SumOf(f) + g[a] - f[a]
  BY <1>4, <1>5, <1>6, SumUpdate
<1>8. SumOf(g) = chain.supply - burned
  BY <1>1, <1>4, <1>6, <1>7, <1>a
<1>9. /\ chain'.held = new /\ chain'.supply = chain.supply - burned
      /\ chain' = [slot |-> chain'.slot, supply |-> chain'.supply, held |-> chain'.held]
  BY <1>3
<1>10. SumOf([b \in Accs |-> BalanceOf(new[b])]) = chain.supply - burned
  BY <1>8 DEF g
<1> QED BY <1>2, <1>9, <1>10 DEF ChainOK

LEMMA ChainMovesKeeps ==
  ASSUME ChainOK, ChainMoves
  PROVE  ChainOK' /\ UNCHANGED <<mint, listing, display, plan>>
<1>1. PICK a \in Accs :
        LET r == chain.held[a]
        IN  /\ r # Gone
            /\ \/ Becomes(a, [r EXCEPT !.balance = 0], r.balance)
               \/ Becomes(a, [r EXCEPT !.frozen = ~@], 0)
               \/ \E d \in {"none", "set", "allowance"} : Becomes(a, [r EXCEPT !.delegate = d], 0)
               \/ r.balance = 0 /\ Becomes(a, Gone, 0)
  BY DEF ChainMoves
<1> DEFINE r == chain.held[a]
<1>2. r \in Account /\ r # Gone /\ BalanceOf(r) = r.balance
  BY <1>1 DEF ChainOK, BalanceOf
<1>3. r.balance \in Nat /\ Gone \notin Account
  BY <1>2, TreasuryAssumption DEF Account
<1>4. UNCHANGED <<mint, listing, display, plan>>
  BY <1>1 DEF Becomes
<1>5. ASSUME NEW n \in Account, NEW burned \in Nat, n.balance = r.balance - burned,
             Becomes(a, n, burned)
      PROVE  ChainOK'
  <2>1. BalanceOf(n) = BalanceOf(chain.held[a]) - burned
    BY <1>2, <1>3, <1>5 DEF BalanceOf
  <2> QED BY <1>5, <2>1, BecomesKeeps
<1>6. /\ [r EXCEPT !.balance = 0] \in Account /\ [r EXCEPT !.balance = 0].balance = 0
      /\ [r EXCEPT !.frozen = ~@] \in Account /\ [r EXCEPT !.frozen = ~@].balance = r.balance
      /\ \A d \in {"none", "set", "allowance"} :
           /\ [r EXCEPT !.delegate = d] \in Account
           /\ [r EXCEPT !.delegate = d].balance = r.balance
  BY <1>2 DEF Account
<1> HIDE DEF r
<1>7. CASE Becomes(a, [r EXCEPT !.balance = 0], r.balance)
  <2>1. [r EXCEPT !.balance = 0].balance = r.balance - r.balance
    BY <1>3, <1>6
  <2>2. ChainOK'
    BY <1>3, <1>5, <1>6, <1>7, <2>1
  <2> QED BY <1>4, <2>2
<1>8. CASE Becomes(a, [r EXCEPT !.frozen = ~@], 0)
  <2>1. [r EXCEPT !.frozen = ~@].balance = r.balance - 0 /\ 0 \in Nat
    BY <1>3, <1>6
  <2>2. ChainOK'
    BY <1>5, <1>6, <1>8, <2>1
  <2> QED BY <1>4, <2>2
<1>9. ASSUME NEW d \in {"none", "set", "allowance"}, Becomes(a, [r EXCEPT !.delegate = d], 0)
      PROVE  ChainOK'
  <2>1. [r EXCEPT !.delegate = d].balance = r.balance - 0 /\ 0 \in Nat
    BY <1>3, <1>6
  <2> QED BY <1>5, <1>6, <1>9, <2>1
<1>10. CASE r.balance = 0 /\ Becomes(a, Gone, 0)
  <2>1. BalanceOf(Gone) = BalanceOf(chain.held[a]) - 0
    BY <1>2, <1>10 DEF BalanceOf, r
  <2>2. ChainOK'
    BY <1>10, <2>1, BecomesKeeps
  <2> QED BY <1>4, <2>2
<1> QED BY <1>1, <1>4, <1>7, <1>8, <1>9, <1>10 DEF r

LEMMA TreasuryStepInv == TreasuryInv /\ [TreasuryNext]_treasuryVars => TreasuryInv'
<1> SUFFICES ASSUME TreasuryInv, [TreasuryNext]_treasuryVars PROVE TreasuryInv'
  OBVIOUS
<1> USE DEF TreasuryInv
<1>1. mint' = mint => (MintOk' <=> MintOk)
                      /\ (\A l : ExtensionsOk(l)' <=> ExtensionsOk(l))
                      /\ (\A r : Reason(r)' = Reason(r)) /\ (\A r : Free(r)' <=> Free(r))
  BY DEF MintOk, ExtensionsOk, Reason, Free
<1>2. mint' = mint /\ UNCHANGED display => DisplayOK'
  BY <1>1 DEF DisplayOK
<1>3. mint' = mint /\ UNCHANGED plan => PlanOK'
  BY <1>1 DEF PlanOK
<1>4. UNCHANGED chain => ChainOK'
  BY DEF ChainOK
<1>5. CASE ListAccounts
  BY <1>2, <1>3, <1>4, <1>5 DEF ListAccounts, ListingOK
<1>6. CASE ReadReference
  <2>1. /\ mint' = mint /\ chain' = chain /\ plan' = plan /\ listing' = Gone
        /\ listing # Gone /\ MintOk
        /\ display' = [a \in DOMAIN listing |-> [of |-> listing[a], reason |-> Reason(listing[a])]]
    BY <1>6 DEF ReadReference
  <2>2. DisplayOK'
    BY <1>1, <2>1 DEF DisplayOK, ListingOK
  <2> QED BY <1>3, <1>4, <2>1, <2>2 DEF ListingOK
<1>7. CASE ListingFails
  BY <1>2, <1>3, <1>4, <1>7 DEF ListingFails, ListingOK
<1>8. ASSUME NEW a \in Accs, NEW x \in Typed, PlanBurn(a, x) PROVE TreasuryInv'
  <2> DEFINE r == chain.held[a]
             raw == RawAmount(x)
  <2>1. /\ mint' = mint /\ chain' = chain /\ listing' = listing /\ display' = display
        /\ r # Gone /\ raw \in 1..RawMax
        /\ plan' = [acc |-> a, raw |-> raw, of |-> r, made |-> Burnable(r, raw),
                    remaining |-> r.balance - raw, supplyAfter |-> chain.supply - raw]
    BY <1>8 DEF PlanBurn
  <2>2. r \in Account /\ chain.held \in [Accs -> Account \cup {Gone}]
        /\ chain.supply = SumOf([b \in Accs |-> BalanceOf(chain.held[b])])
    BY <2>1 DEF ChainOK
  <2>3. BalanceOf(r) <= chain.supply /\ chain.supply \in Nat
    BY <2>2, BalanceSum
  <2>4. r.balance <= chain.supply /\ r.balance \in Nat /\ raw \in Nat \ {0}
    BY <2>1, <2>2, <2>3, TreasuryAssumption DEF BalanceOf, Account
  <2> HIDE DEF r, raw
  <2>5. Burnable(r, raw) <=> Free(r) /\ raw <= r.balance
    BY <2>4 DEF Burnable, Free
  <2>6. Burnable(r, raw) => 0 <= r.balance - raw /\ r.balance - raw <= chain.supply - raw
    BY <2>3, <2>4, <2>5
  <2>7. /\ plan'.raw = raw /\ plan'.of = r /\ plan'.made = Burnable(r, raw)
        /\ plan'.remaining = r.balance - raw /\ plan'.supplyAfter = chain.supply - raw
    BY <2>1
  <2>8. PlanOK'
    BY <1>1, <2>1, <2>2, <2>4, <2>5, <2>6, <2>7 DEF PlanOK
  <2> QED BY <1>2, <1>4, <2>1, <2>8 DEF ListingOK
<1>9. CASE PlanFails
  BY <1>2, <1>4, <1>9 DEF PlanFails, PlanOK, ListingOK
<1>10. CASE ChainMoves
  <2>1. ChainOK' /\ UNCHANGED <<mint, listing, display, plan>>
    BY <1>10, ChainMovesKeeps
  <2> QED BY <1>2, <1>3, <2>1 DEF ListingOK
<1>11. CASE UNCHANGED treasuryVars
  BY <1>2, <1>3, <1>4, <1>11 DEF treasuryVars, ListingOK
<1> QED BY <1>5, <1>6, <1>7, <1>8, <1>9, <1>10, <1>11 DEF TreasuryNext

(* The treasury listing and the burn plan never contradict each other      *)
(* about an account that has not changed, and a plan promises to leave     *)
(* only what is there (ToolsAgree).  The plan also asks whether the        *)
(* account is within the supply, which the listing does not: since the     *)
(* supply is the sum of the accounts, that question changes nothing.       *)
THEOREM TreasuryToolsAgree == TreasurySpec => []ToolsAgree
<1>1. TreasuryInv => ToolsAgree
  <2> SUFFICES ASSUME TreasuryInv PROVE ToolsAgree
    OBVIOUS
  <2>1. plan # Gone /\ plan.made => 0 <= plan.remaining /\ plan.remaining <= plan.supplyAfter
    BY DEF TreasuryInv, PlanOK
  <2>2. ASSUME display # Gone, plan # Gone, plan.acc \in DOMAIN display,
               plan.of = display[plan.acc].of, plan.raw <= plan.of.balance
        PROVE  plan.made <=> display[plan.acc].reason = "eligible"
    <3> DEFINE r == plan.of
    <3>1. r \in Account /\ MintOk /\ r.ours /\ plan.raw \in Nat \ {0}
          /\ display[plan.acc].reason = Reason(r) /\ (plan.made <=> Free(r))
      BY <2>2 DEF TreasuryInv, DisplayOK, PlanOK
    <3> HIDE DEF r
    <3>2. r.balance \in Nat /\ r.frozen \in BOOLEAN /\ r.native \in BOOLEAN
          /\ r.delegate \in {"none", "set", "allowance"} /\ plan.raw <= r.balance
      BY <2>2, <3>1 DEF r, Account
    <3>3. r.balance # 0
      BY <3>1, <3>2
    <3>4. Free(r) <=> Reason(r) = "eligible"
      BY <3>1, <3>2, <3>3 DEF Free, Reason
    <3> QED BY <3>1, <3>4
  <2> QED BY <2>1, <2>2 DEF ToolsAgree
<1> QED BY <1>1, TreasuryInitInv, TreasuryStepInv, PTL DEF TreasurySpec
===============================================================================
