------------------------------- MODULE ApiKeys --------------------------------
(***************************************************************************)
(* API keys of signed-in wallets, in holder allowance mode.  Creating one  *)
(* waits for the wallet's holdings on chain; meanwhile the session may     *)
(* end, the operator may act, and other creations may overtake.            *)
(***************************************************************************)
EXTENDS SignIn

CONSTANTS
  Keys,           \* random key ids
  MaxActiveKeys   \* 10

ASSUME KeyAssumption ==
  /\ {"member-key", "revoke-all"} \subseteq Endpoints
  /\ MaxActiveKeys \in Nat

VARIABLES
  keys,         \* api_keys
  making,       \* creations that wait for the chain
  holders,      \* wallets that hold the token now
  disabled,     \* user_admin.disabled
  maintenance,
  revocations   \* the counts of a wallet's 'wallet_keys_revoked' audit rows, added up

desk == <<holders, disabled, maintenance>>

keyVars == <<keys, making, desk, revocations>>

accessVars == <<signInVars, keyVars>>

KeysTypeOK ==
  /\ SignInTypeOK
  /\ keys \subseteq [key : Keys, wallet : Wallets, revoked : BOOLEAN]
  /\ making \subseteq [key : Keys, wallet : Wallets, answer : {"pending", "yes", "no"}]
  /\ holders \subseteq Wallets /\ disabled \subseteq Wallets /\ maintenance \in BOOLEAN
  /\ revocations \in [Wallets -> Nat]

KeysInit ==
  /\ SignInInit
  /\ keys = {} /\ making = {}
  /\ holders \in SUBSET Wallets /\ disabled = {} /\ maintenance = FALSE
  /\ revocations = [w \in Wallets |-> 0]

-------------------------------------------------------------------------------
(* Creating and revoking keys.                                             *)

ActiveKeys(w) == {k \in keys : k.wallet = w /\ ~k.revoked}

Unused(k) == (\A x \in keys : x.key # k) /\ (\A m \in making : m.key # k)

Begin(k, w) == making' = making \cup {[key |-> k, wallet |-> w, answer |-> "pending"]}

(* POST /api/member-key up to its await.                                   *)
RequestMemberKey(c, s, k) ==
  /\ Unused(k)
  /\ s \in LiveSessions
  /\ s.wallet \notin disabled
  /\ ~maintenance
  /\ \E gone \in Sweeps : Admit("member-key", c, gone) /\ SweptOnly(gone)
  /\ Begin(k, s.wallet)
  /\ UNCHANGED <<now, logouts, asked, grants, keys, desk, revocations>>

(* The same without a session, for a disabled wallet or in maintenance:    *)
(* the throttle has counted the request by then.                           *)
MemberKeyDenied(c) ==
  /\ \E gone \in Sweeps : Admit("member-key", c, gone) /\ SweptOnly(gone)
  /\ UNCHANGED <<now, logouts, asked, grants, keyVars>>

(* POST /api/keys up to its await.                                         *)
RequestKey(s, k) ==
  /\ Unused(k)
  /\ s \in LiveSessions
  /\ s.wallet \notin disabled
  /\ Begin(k, s.wallet)
  /\ UNCHANGED <<signInVars, keys, desk, revocations>>

(* The finalized token accounts are read; a failed read is not eligible.   *)
ReadHoldings(m) ==
  /\ m.answer = "pending"
  /\ \E answer \in {"yes", "no"} :
       /\ answer = "yes" => m.wallet \in holders
       /\ making' = (making \ {m}) \cup {[m EXCEPT !.answer = answer]}
  /\ UNCHANGED <<signInVars, keys, desk, revocations>>

(* Faulty: the keys were counted before the await, not at the insert.      *)
IssueUncounted(m) ==
  /\ m.answer = "yes"
  /\ keys' = keys \cup {[key |-> m.key, wallet |-> m.wallet, revoked |-> FALSE]}
  /\ making' = making \ {m}
  /\ UNCHANGED <<signInVars, desk, revocations>>

(* issue_key: count and insert in one transaction.                         *)
IssueKey(m) ==
  /\ m.answer = "yes"
  /\ Cardinality(ActiveKeys(m.wallet)) < MaxActiveKeys
  /\ keys' = keys \cup {[key |-> m.key, wallet |-> m.wallet, revoked |-> FALSE]}
  /\ making' = making \ {m}
  /\ UNCHANGED <<signInVars, desk, revocations>>

(* The wallet is not eligible, the spending limit asked for is malformed   *)
(* (checked only now), or the wallet has its maximum of active keys.       *)
DenyKey(m) ==
  /\ m.answer # "pending"
  /\ making' = making \ {m}
  /\ UNCHANGED <<signInVars, keys, desk, revocations>>

RevokeRows(rows) == keys' = (keys \ rows) \cup {[k EXCEPT !.revoked = TRUE] : k \in rows}

(* DELETE /api/keys/{id}.                                                  *)
DeleteKey(s, k) ==
  /\ s \in LiveSessions
  /\ k.wallet = s.wallet
  /\ RevokeRows({k})
  /\ UNCHANGED <<signInVars, making, desk, revocations>>

RevokeAllKeys(c, s) ==
  /\ s \in LiveSessions
  /\ \E gone \in Sweeps : Admit("revoke-all", c, gone) /\ SweptOnly(gone)
  /\ RevokeRows(ActiveKeys(s.wallet))
  /\ revocations' = [revocations EXCEPT ![s.wallet] = @ + Cardinality(ActiveKeys(s.wallet))]
  /\ UNCHANGED <<now, logouts, asked, grants, making, desk>>

(* revoke-all asks for the session before it throttles.                    *)
TooManyKeyRequests(c) ==
  /\ \/ TooMany("member-key", c)
     \/ TooMany("revoke-all", c) /\ LiveSessions # {}
  /\ UNCHANGED keyVars

-------------------------------------------------------------------------------
(* The operator, the chain and the process.                                *)

(* Its own audit row 'key_revoked' carries no count.                       *)
OperatorRevokesKey(k) ==
  /\ RevokeRows({k})
  /\ UNCHANGED <<signInVars, making, desk, revocations>>

SetDisabled(w) ==
  /\ disabled' = IF w \in disabled THEN disabled \ {w} ELSE disabled \cup {w}
  /\ UNCHANGED <<signInVars, keys, making, holders, maintenance, revocations>>

SetMaintenance ==
  /\ maintenance' = ~maintenance
  /\ UNCHANGED <<signInVars, keys, making, holders, disabled, revocations>>

Trade(w) ==
  /\ holders' = IF w \in holders THEN holders \ {w} ELSE holders \cup {w}
  /\ UNCHANGED <<signInVars, keys, making, disabled, maintenance, revocations>>

RestartAll ==
  /\ Restart
  /\ making' = {}
  /\ UNCHANGED <<keys, desk, revocations>>

KeyStep ==
  \/ \E c \in Clients, s \in sessions, k \in Keys : RequestMemberKey(c, s, k)
  \/ \E c \in Clients : MemberKeyDenied(c)
  \/ \E s \in sessions, k \in Keys : RequestKey(s, k)
  \/ \E m \in making : ReadHoldings(m)
  \/ \E m \in making : IssueKey(m)
  \/ \E m \in making : DenyKey(m)
  \/ \E s \in sessions, k \in keys : DeleteKey(s, k)
  \/ \E c \in Clients, s \in sessions : RevokeAllKeys(c, s)
  \/ \E c \in Clients : TooManyKeyRequests(c)

WorldStep ==
  \/ \E k \in keys : OperatorRevokesKey(k)
  \/ \E w \in Wallets : SetDisabled(w) \/ Trade(w)
  \/ SetMaintenance
  \/ RestartAll

KeysNext ==
  \/ (SignInStep \/ Tick) /\ UNCHANGED keyVars
  \/ KeyStep
  \/ WorldStep

KeysSpec == KeysInit /\ [][KeysNext]_accessVars

-------------------------------------------------------------------------------
(* A wallet never has more active keys than issue_key allows, although     *)
(* several creations wait for the chain at once.                           *)
ActiveKeysBounded ==
  \A w \in Wallets : Cardinality(ActiveKeys(w)) <= MaxActiveKeys
===============================================================================
