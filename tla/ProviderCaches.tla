---------------------------- MODULE ProviderCaches ----------------------------
(***************************************************************************)
(* What the application remembers of the provider: its catalogue, health,  *)
(* account balance and network figures.  Each is refreshed under a lock of *)
(* its own, by the caller that finds it old; the read may succeed, fail,   *)
(* time out or be cancelled with its caller.  The operator's list of       *)
(* disabled models is applied to, and saved behind, the catalogue.         *)
(***************************************************************************)
EXTENDS Naturals, FiniteSets, SequencesExt

CONSTANTS
  Callers,       \* requests that wait for an answer
  Models,        \* model ids the provider may list
  Snapshot,      \* the reviewed list that stands in for the catalogue
  None,
  LiveLife,      \* lifetime of a live catalogue, 60 s
  SnapshotLife,  \* and of its stand-in, 10 s
  Life,          \* seconds between attempts at health, balance and network
  NetworkLimit,  \* age at which old network figures are withdrawn, 300 s
  ReadTime,      \* longest a single read takes, READ_TIMEOUT_SECONDS
  LastTime       \* bound: the clock stops here

Stamped == {"health", "balance", "network"}

Sources == Stamped \cup {"catalogue"}

ASSUME CachesAssumption ==
  /\ Snapshot \subseteq Models
  /\ {LiveLife, SnapshotLife, NetworkLimit, ReadTime, LastTime} \subseteq Nat
  /\ Life \in [Stamped -> Nat] /\ None \notin Nat

VARIABLES
  clock,
  queue,      \* per source: the callers at its lock; the first one holds it
  reading,    \* per source: the read its holder waits for, or None
  catalogue,  \* cache: models, at, live
  cell,       \* per stamped source: when its data was read, its attempt, and
              \* whether that one failed (network)
  off,        \* operator_settings.disabled_models
  offered     \* the rows of a catalogue answer given in the last step

cacheVars == <<clock, queue, reading, catalogue, cell, off, offered>>

CachesInit ==
  /\ clock = 0
  /\ queue = [s \in Sources |-> <<>>]
  /\ reading = [s \in Sources |-> None]
  /\ catalogue = [models |-> None, at |-> 0, live |-> FALSE, read |-> None]
  /\ cell = [s \in Stamped |-> [read |-> None, attempt |-> None, failed |-> FALSE]]
  /\ off = {} /\ offered = {}

Waits(c) == \E s \in Sources : \E i \in DOMAIN queue[s] : queue[s][i].who = c

Holds(s) == queue[s] # <<>>

(* Faulty: the lock is not released.                                       *)
KeepLock(s) ==
  /\ queue' = queue
  /\ reading' = [reading EXCEPT ![s] = None]

Release(s) ==
  /\ queue' = [queue EXCEPT ![s] = Tail(@)]
  /\ reading' = [reading EXCEPT ![s] = None]

Join(s, c, save) ==
  /\ ~Waits(c)
  /\ queue' = [queue EXCEPT ![s] = Append(@, [who |-> c, save |-> save])]

(* GET /api/network, /api/treasury, /api/models and the checks of a call.  *)
Ask(s, c) ==
  /\ Join(s, c, None)
  /\ offered' = {}
  /\ UNCHANGED <<clock, reading, catalogue, cell, off>>

(* Faulty: the settings are written without waiting for the catalogue.     *)
SaveAtOnce(c, models) ==
  /\ off' = models
  /\ offered' = {}
  /\ UNCHANGED <<clock, queue, reading, catalogue, cell>>

(* PUT /api/admin/config asks for the catalogue first.                     *)
AskToSave(c, models) ==
  /\ Join("catalogue", c, models)
  /\ offered' = {}
  /\ UNCHANGED <<clock, reading, catalogue, cell, off>>

-------------------------------------------------------------------------------
(* The catalogue.                                                          *)

CatalogueFresh ==
  catalogue.models # None
    /\ clock - catalogue.at < IF catalogue.live THEN LiveLife ELSE SnapshotLife

(* The holder's answer, with the settings it read when it got the lock;    *)
(* its handler runs on to its next await, so a save is part of the step.   *)
AnswerCatalogue(models, seen) ==
  LET rows == models \ seen
      save == Head(queue["catalogue"]).save
  IN  /\ Release("catalogue")
      /\ IF save = None THEN offered' = rows /\ UNCHANGED off
                        ELSE /\ offered' = {}
                             /\ off' = IF save \subseteq rows \cup off THEN save ELSE off

CatalogueHit ==
  /\ Holds("catalogue") /\ reading["catalogue"] = None
  /\ CatalogueFresh
  /\ AnswerCatalogue(catalogue.models, off)
  /\ UNCHANGED <<clock, catalogue, cell>>

ReadModels ==
  /\ Holds("catalogue") /\ reading["catalogue"] = None
  /\ ~CatalogueFresh
  /\ reading' = [reading EXCEPT !["catalogue"] =
       [since |-> clock, seen |-> off, ids |-> {}, read |-> None]]
  /\ offered' = {}
  /\ UNCHANGED <<clock, queue, catalogue, cell, off>>

(* The list arrived; the discovery metadata is read next.                  *)
ReadMetadata ==
  /\ reading["catalogue"] # None /\ reading["catalogue"].ids = {}
  /\ \E ids \in SUBSET Models \ {{}} :
       reading' = [reading EXCEPT !["catalogue"].ids = ids,
                                  !["catalogue"].read = clock, !["catalogue"].since = clock]
  /\ offered' = {}
  /\ UNCHANGED <<clock, queue, catalogue, cell, off>>

(* The metadata arrived or failed; either way the list is live.            *)
CatalogueLive ==
  LET r == reading["catalogue"]
  IN  /\ r # None /\ r.ids # {}
      /\ catalogue' = [models |-> r.ids, at |-> clock, live |-> TRUE, read |-> r.read]
      /\ AnswerCatalogue(r.ids, r.seen)
      /\ UNCHANGED <<clock, cell>>

CatalogueFails ==
  LET r == reading["catalogue"]
  IN  /\ r # None /\ r.ids = {}
      /\ catalogue' = [models |-> Snapshot, at |-> clock, live |-> FALSE, read |-> None]
      /\ AnswerCatalogue(Snapshot, r.seen)
      /\ UNCHANGED <<clock, cell>>

-------------------------------------------------------------------------------
(* Health, balance and network: the attempt is stamped before the await.   *)

Due(s) == cell[s].attempt # None => clock - cell[s].attempt >= Life[s]

(* Answered from memory; without data the answer is 'unavailable'.         *)
Hit(s) ==
  /\ Holds(s) /\ reading[s] = None
  /\ ~Due(s)
  /\ Release(s)
  /\ offered' = {}
  /\ UNCHANGED <<clock, catalogue, cell, off>>

(* Faulty: the network's flag is set when a refresh fails, not before it.  *)
MarkTime(s) ==
  [cell[s] EXCEPT !.attempt = clock, !.read = IF s = "network" THEN @ ELSE None]

(* Old health and balance are dropped, old network figures are disowned.   *)
Mark(s) ==
  [cell[s] EXCEPT !.attempt = clock, !.failed = TRUE,
                  !.read = IF s = "network" THEN @ ELSE None]

BeginRead(s) ==
  /\ Holds(s) /\ reading[s] = None
  /\ Due(s)
  /\ cell' = [cell EXCEPT ![s] = Mark(s)]
  /\ reading' = [reading EXCEPT ![s] = [since |-> clock]]
  /\ offered' = {}
  /\ UNCHANGED <<clock, queue, catalogue, off>>

ReadArrives(s) ==
  /\ reading[s] # None
  /\ cell' = [cell EXCEPT ![s].read = clock, ![s].failed = FALSE]
  /\ Release(s)
  /\ offered' = {}
  /\ UNCHANGED <<clock, catalogue, off>>

ReadFails(s) ==
  /\ reading[s] # None
  /\ Release(s)
  /\ offered' = {}
  /\ UNCHANGED <<clock, catalogue, cell, off>>

-------------------------------------------------------------------------------
(* A caller is cancelled at the lock or, with its read, inside it; neither *)
(* `except` clause catches that.                                           *)
Leave(s, i) ==
  /\ i \in DOMAIN queue[s]
  /\ queue' = [queue EXCEPT ![s] = RemoveAt(@, i)]
  /\ reading' = IF i = 1 THEN [reading EXCEPT ![s] = None] ELSE reading

Cancel(s, i) ==
  /\ Leave(s, i)
  /\ offered' = {}
  /\ UNCHANGED <<clock, catalogue, cell, off>>

(* Every read is cut off by its own timeout.                               *)
Passes ==
  /\ clock < LastTime
  /\ \A s \in Sources : reading[s] # None => clock < reading[s].since + ReadTime
  /\ clock' = clock + 1
  /\ offered' = {}
  /\ UNCHANGED <<queue, reading, catalogue, cell, off>>

Serve(s) ==
  \/ s = "catalogue" /\ (CatalogueHit \/ ReadModels \/ ReadMetadata \/ CatalogueLive \/ CatalogueFails)
  \/ s # "catalogue" /\ (Hit(s) \/ BeginRead(s) \/ ReadArrives(s) \/ ReadFails(s))

CachesNext ==
  \/ \E s \in Sources, c \in Callers : Ask(s, c)
  \/ \E c \in Callers, models \in SUBSET Models : AskToSave(c, models)
  \/ \E s \in Sources : Serve(s)
  \/ \E s \in Sources : \E i \in DOMAIN queue[s] : Cancel(s, i)
  \/ Passes

(* The event loop runs every ready task, and a read ends by its timeout.   *)
CachesSpec ==
  /\ CachesInit /\ [][CachesNext]_cacheVars
  /\ \A s \in Sources : WF_cacheVars(Serve(s))

-------------------------------------------------------------------------------
Unavailable == cell["network"].read = None \/ clock - cell["network"].read > NetworkLimit

(* The `stale` label of _network_snapshot.                                 *)
Stale == cell["network"].failed \/ clock - cell["network"].read >= Life["network"]

(* Age(t, n): the data was read less than n ago.                           *)
Age(t, n) == t # None /\ clock - t < n

(* What a caller would be given as current, without a read, was read less  *)
(* than its lifetime ago (a live catalogue may be one metadata read older),*)
(* and never comes from before a refresh that failed or was cancelled.     *)
ServedIsCurrent ==
  /\ CatalogueFresh /\ catalogue.live => Age(catalogue.read, LiveLife + ReadTime + 1)
  /\ \A s \in Stamped :
       /\ ~Due(s) /\ cell[s].read # None
       /\ s = "network" => ~Unavailable /\ ~Stale
       => Age(cell[s].read, Life[s]) /\ cell[s].read >= cell[s].attempt

(* No catalogue answer offers a model that is disabled when it is given,   *)
(* although the settings are read before the provider is asked.            *)
DisabledStaysOut == offered \cap off = {}

(* A caller gets an answer, or leaves.                                     *)
AnswersCome == \A c \in Callers : Waits(c) ~> ~Waits(c)
===============================================================================
