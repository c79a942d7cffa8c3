------------------------------- MODULE Treasury -------------------------------
(***************************************************************************)
(* The operator's treasury tools: the listing of the treasury's accounts   *)
(* of the project token, read in two calls, and the plan of an unsigned    *)
(* burn, read in one.  The chain moves on between the calls.               *)
(***************************************************************************)
EXTENDS Integers, Sums

CONSTANTS
  Accs,         \* addresses of token accounts
  Accounts,     \* what an account of the mint may hold
  Mints,        \* what the mint account may hold
  Typed,      \* amounts an operator may type: units, fraction, places
  Decimals,     \* of the token, as configured
  RawMax,       \* U64_MAX
  FinalSlot,    \* bound: the chain stops here
  Gone          \* no such account, no such answer

Account ==
  [ours : BOOLEAN, balance : Nat, frozen : BOOLEAN, native : BOOLEAN,
   delegate : {"none", "set", "allowance"}, closer : {"none", "own", "other"},
   layout : {"plain", "reviewed", "odd"}]

ASSUME TreasuryAssumption ==
  /\ Decimals \in Nat /\ RawMax \in Nat /\ FinalSlot \in Nat
  /\ IsFiniteSet(Accs)
  /\ Accounts \subseteq Account /\ Gone \notin Account
  /\ \A x \in Typed : x.units \in Nat /\ x.fraction \in Nat /\ x.places \in Nat

VARIABLES
  mint,      \* program, extension layout, readiness
  chain,     \* finalized slot, supply and accounts
  listing,   \* the account listing that waits for its reference
  display,   \* the last listing given, each row with the account it is of
  plan       \* the last burn asked for, with the account it was judged on

treasuryVars == <<mint, chain, listing, display, plan>>

BalanceOf(r) == IF r = Gone THEN 0 ELSE r.balance

TreasuryInit ==
  /\ mint \in Mints
  /\ \E held \in [Accs -> Accounts \cup {Gone}] :
       chain = [slot |-> 1, held |-> held,
                supply |-> SumOf([a \in Accs |-> BalanceOf(held[a])])]
  /\ listing = Gone /\ display = Gone /\ plan = Gone

-------------------------------------------------------------------------------
(* Judging accounts.                                                       *)

(* _extensions: a plain account, or reviewed extensions of Token-2022.     *)
ExtensionsOk(layout) == layout = "plain" \/ (layout = "reviewed" /\ mint.program = "token2022")

MintOk == mint.ready /\ ExtensionsOk(mint.layout)

(* Faulty: nobody asks who else may close the account.                     *)
ReasonWithoutCloser(r) ==
  CASE r.frozen -> "frozen"
    [] ~r.frozen /\ r.native -> "native"
    [] ~r.frozen /\ ~r.native /\ r.delegate \in {"set", "allowance"} -> "delegated"
    [] OTHER -> IF ~ExtensionsOk(r.layout) THEN "unsupported_extension"
                ELSE IF r.balance = 0 THEN "empty" ELSE "eligible"

(* Why an account cannot be burned from, the first reason that applies.    *)
Reason(r) ==
  CASE r.frozen -> "frozen"
    [] ~r.frozen /\ r.native -> "native"
    [] ~r.frozen /\ ~r.native /\ r.delegate \in {"set", "allowance"} -> "delegated"
    [] OTHER -> IF r.closer = "other" THEN "close_authority"
                ELSE IF ~ExtensionsOk(r.layout) THEN "unsupported_extension"
                ELSE IF r.balance = 0 THEN "empty" ELSE "eligible"

-------------------------------------------------------------------------------
(* GET /api/admin/treasury/accounts.                                       *)

ListAccounts ==
  /\ listing' = [a \in {b \in Accs : chain.held[b] # Gone /\ chain.held[b].ours} |-> chain.held[a]]
  /\ UNCHANGED <<mint, chain, display, plan>>

Balances == SumOf([a \in DOMAIN listing |-> listing[a].balance])

(* The mint and the owner, not before the listing.                         *)
ReadReference ==
  /\ listing # Gone
  /\ MintOk /\ Balances <= chain.supply
  /\ display' = [a \in DOMAIN listing |-> [of |-> listing[a], reason |-> Reason(listing[a])]]
  /\ listing' = Gone
  /\ UNCHANGED <<mint, chain, plan>>

(* A read fails, or the accounts hold more than the mint's supply now.     *)
ListingFails ==
  /\ listing # Gone
  /\ listing' = Gone
  /\ UNCHANGED <<mint, chain, display, plan>>

-------------------------------------------------------------------------------
(* POST /api/admin/treasury/burn-plan.                                     *)

(* amount_to_raw: units and a fraction of no more places than the token's. *)
RawAmount(x) ==
  IF x.places <= Decimals
  THEN x.units * 10^Decimals + x.fraction * 10^(Decimals - x.places)
  ELSE 0

Burnable(r, raw) ==
  /\ MintOk /\ r.ours
  /\ ExtensionsOk(r.layout)
  /\ ~r.frozen /\ ~r.native /\ r.delegate = "none" /\ r.closer # "other"
  /\ r.balance <= chain.supply
  /\ raw <= r.balance

PlanBurn(a, x) ==
  LET r == chain.held[a]
      raw == RawAmount(x)
  IN  /\ r # Gone /\ raw \in 1..RawMax
      /\ plan' = [acc |-> a, raw |-> raw, of |-> r,
                  made |-> Burnable(r, raw),
                  remaining |-> r.balance - raw, supplyAfter |-> chain.supply - raw]
      /\ UNCHANGED <<mint, chain, listing, display>>

(* No such account, an amount out of range or too precise, no endpoint.    *)
PlanFails ==
  /\ plan' = Gone
  /\ UNCHANGED <<mint, chain, listing, display>>

-------------------------------------------------------------------------------
(* The chain: the owner and others act on one account.                     *)

Becomes(a, r, burned) ==
  /\ chain.slot < FinalSlot
  /\ chain' = [slot |-> chain.slot + 1, supply |-> chain.supply - burned,
               held |-> [chain.held EXCEPT ![a] = r]]
  /\ UNCHANGED <<mint, listing, display, plan>>

ChainMoves ==
  \E a \in Accs :
    LET r == chain.held[a]
    IN  /\ r # Gone
        /\ \/ Becomes(a, [r EXCEPT !.balance = 0], r.balance)
           \/ Becomes(a, [r EXCEPT !.frozen = ~@], 0)
           \/ \E d \in {"none", "set", "allowance"} : Becomes(a, [r EXCEPT !.delegate = d], 0)
           \/ r.balance = 0 /\ Becomes(a, Gone, 0)

TreasuryNext ==
  \/ ListAccounts \/ ReadReference \/ ListingFails
  \/ \E a \in Accs, x \in Typed : PlanBurn(a, x)
  \/ PlanFails
  \/ ChainMoves

TreasurySpec == TreasuryInit /\ [][TreasuryNext]_treasuryVars

-------------------------------------------------------------------------------
(* The listing and the plan are two readings of the same bytes by two      *)
(* parsers: for an account that has not changed between them, a burn within*)
(* its balance is planned if and only if the listing called it eligible.   *)
(* And what a plan promises to leave is there, in the account and in all.  *)
ToolsAgree ==
  /\ plan # Gone /\ plan.made => 0 <= plan.remaining /\ plan.remaining <= plan.supplyAfter
  /\ (/\ display # Gone /\ plan # Gone
      /\ plan.acc \in DOMAIN display
      /\ plan.of = display[plan.acc].of
      /\ plan.raw <= plan.of.balance)
     => (plan.made <=> display[plan.acc].reason = "eligible")
===============================================================================
