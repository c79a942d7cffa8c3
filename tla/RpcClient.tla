------------------------------- MODULE RpcClient -------------------------------
(***************************************************************************)
(* SolanaRPC: calls to the operator's endpoint pass a pool of slots and a  *)
(* pacing gate under one total timeout, and wait for the check that the    *)
(* endpoint serves mainnet.  A call may be cancelled anywhere.  A process  *)
(* makes several of these objects for its one endpoint, each with slots, a *)
(* gate and a check of its own.                                            *)
(***************************************************************************)
EXTENDS Naturals, FiniteSets

CONSTANTS
  Clients,      \* the SolanaRPC objects of the process
  Tasks,        \* callers
  ClientOf,     \* the object whose holder a caller goes through
  Unset,
  Slots,        \* rpc_concurrency
  Gap,          \* 1 / rpc_rps
  Timeout,      \* total time of a call, 10 s
  GenesisLife,  \* 300 s
  LastTick      \* bound: the clock stops here

ASSUME RpcAssumption ==
  /\ {Slots, Gap, Timeout, GenesisLife, LastTick} \subseteq Nat
  /\ Slots > 0 /\ Gap < Timeout
  /\ IsFiniteSet(Tasks) /\ ClientOf \in [Tasks -> Clients]
  /\ Unset \notin Nat

VARIABLES
  tick,
  at,         \* where a task is
  purpose,    \* what its call is for
  began,      \* when its call began
  last,       \* SolanaRPC.last of each object
  alarm,      \* when the sleeper at its gate wakes
  genesis,    \* its genesis_at
  sent        \* when a request of its last went out

rpcVars == <<tick, at, purpose, began, last, alarm, genesis, sent>>

RpcInit ==
  /\ tick = 0
  /\ at = [c \in Tasks |-> "away"]
  /\ purpose = [c \in Tasks |-> "read"]
  /\ began = [c \in Tasks |-> 0]
  /\ last = [q \in Clients |-> Unset] /\ sent = last /\ genesis = last
  /\ alarm = [q \in Clients |-> 0]

In(q, places) == {c \in Tasks : ClientOf[c] = q /\ at[c] \in places}

GenesisHeld(q) ==
  \E c \in Tasks \ In(q, {"away", "door"}) : ClientOf[c] = q /\ purpose[c] = "genesis"

Verified(q) == genesis[q] # Unset /\ tick - genesis[q] < GenesisLife

Call(c, what) ==
  /\ at' = [at EXCEPT ![c] = "slot"]
  /\ purpose' = [purpose EXCEPT ![c] = what]
  /\ began' = [began EXCEPT ![c] = tick]

HangUp(c) ==
  /\ at' = [at EXCEPT ![c] = "away"]
  /\ purpose' = [purpose EXCEPT ![c] = "read"]
  /\ began' = [began EXCEPT ![c] = 0]

(* Any of the allowed reads.                                               *)
StartCall(c) ==
  /\ at[c] = "away"
  /\ Call(c, "read")
  /\ UNCHANGED <<tick, last, alarm, genesis, sent>>

(* A check of holdings in production, at the lock of ensure_mainnet.       *)
StartChecked(c) ==
  /\ at[c] = "away"
  /\ at' = [at EXCEPT ![c] = "door"]
  /\ purpose' = [purpose EXCEPT ![c] = "genesis"]
  /\ UNCHANGED <<tick, began, last, alarm, genesis, sent>>

EnsureMainnet(c) ==
  /\ at[c] = "door" /\ ~GenesisHeld(ClientOf[c])
  /\ Call(c, IF Verified(ClientOf[c]) THEN "read" ELSE "genesis")
  /\ UNCHANGED <<tick, last, alarm, genesis, sent>>

TakeSlot(c) ==
  /\ at[c] = "slot"
  /\ Cardinality(In(ClientOf[c], {"gate", "pace", "wire"})) < Slots
  /\ at' = [at EXCEPT ![c] = "gate"]
  /\ UNCHANGED <<tick, purpose, began, last, alarm, genesis, sent>>

Send(c) ==
  /\ at' = [at EXCEPT ![c] = "wire"]
  /\ last' = [last EXCEPT ![ClientOf[c]] = tick]
  /\ sent' = [sent EXCEPT ![ClientOf[c]] = tick]

Sleep(c) ==
  /\ at' = [at EXCEPT ![c] = "pace"]
  /\ alarm' = [alarm EXCEPT ![ClientOf[c]] = last[ClientOf[c]] + Gap]
  /\ UNCHANGED <<last, sent>>

Rested(q) == last[q] # Unset => tick - last[q] >= Gap

(* Faulty: several calls sleep at the gate at once.                        *)
CrowdGate(c) ==
  /\ at[c] = "gate"
  /\ IF Rested(ClientOf[c]) THEN Send(c) /\ UNCHANGED alarm ELSE Sleep(c)
  /\ UNCHANGED <<tick, purpose, began, genesis>>

(* The gate stays locked while its holder sleeps.                          *)
PassGate(c) ==
  /\ at[c] = "gate" /\ In(ClientOf[c], {"pace"}) = {}
  /\ IF Rested(ClientOf[c]) THEN Send(c) /\ UNCHANGED alarm ELSE Sleep(c)
  /\ UNCHANGED <<tick, purpose, began, genesis>>

Wake(c) ==
  /\ at[c] = "pace" /\ tick >= alarm[ClientOf[c]]
  /\ Send(c)
  /\ UNCHANGED <<tick, purpose, began, alarm, genesis>>

(* A confirmed genesis is kept, and the check of holdings goes on.         *)
Arrive(c) ==
  /\ at[c] = "wire"
  /\ IF purpose[c] = "genesis"
     THEN genesis' = [genesis EXCEPT ![ClientOf[c]] = tick] /\ Call(c, "read")
     ELSE HangUp(c) /\ UNCHANGED genesis
  /\ UNCHANGED <<tick, last, alarm, sent>>

(* An error, the wrong network, the timeout or a cancelled caller: every   *)
(* context is left on the way out.                                         *)
EndCall(c) ==
  /\ at[c] # "away"
  /\ HangUp(c)
  /\ UNCHANGED <<tick, last, alarm, genesis, sent>>

TickPasses ==
  /\ tick < LastTick
  /\ \A c \in Tasks : at[c] \notin {"away", "door"} => tick < began[c] + Timeout
  /\ tick' = tick + 1
  /\ UNCHANGED <<at, purpose, began, last, alarm, genesis, sent>>

RpcNext ==
  \/ \E c \in Tasks :
       \/ StartCall(c) \/ StartChecked(c) \/ EnsureMainnet(c)
       \/ TakeSlot(c) \/ PassGate(c) \/ Wake(c) \/ Arrive(c) \/ EndCall(c)
  \/ TickPasses

RpcSpec == RpcInit /\ [][RpcNext]_rpcVars

-------------------------------------------------------------------------------
(* However calls wait, sleep and are cancelled, the requests of one object *)
(* go out no faster than the configured rate, and no more at once than it  *)
(* has slots (integrations.py SolanaRPC.call).                             *)
RpcWithinBudget ==
  [][\A q \in Clients :
       /\ \A c \in Tasks : ClientOf[c] = q /\ at[c] # "wire" /\ at'[c] = "wire"
            => (sent[q] # Unset => tick - sent[q] >= Gap)
       /\ Cardinality(In(q, {"wire"})') <= Slots]_rpcVars

(* The rate and the simultaneous reads are those of one process            *)
(* (docs/QUICKNODE.md: reads/second and simultaneous reads for one         *)
(* persistent process).                                                    *)
ProcessWithinBudget ==
  [][/\ \A c \in Tasks, q \in Clients :
          at[c] # "wire" /\ at'[c] = "wire" /\ sent[q] # Unset
            => tick - sent[q] >= Gap
     /\ Cardinality({c \in Tasks : at'[c] = "wire"}) <= Slots]_rpcVars
===============================================================================
