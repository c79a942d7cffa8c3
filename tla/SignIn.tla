-------------------------------- MODULE SignIn --------------------------------
(***************************************************************************)
(* Wallet sign-in behind the sliding-window throttle: challenges, sessions *)
(* and rate_hits of gridraft/store.py as the endpoints of gridraft/app.py  *)
(* use them.  A table is a set of rows.  No endpoint here has an await.    *)
(***************************************************************************)
EXTENDS Integers, FiniteSets

CONSTANTS
  Wallets, Clients,
  Ids,            \* random challenge ids
  Tokens,         \* random session tokens; the table keeps their hashes
  Endpoints,      \* those that throttle their callers
  Limit,          \* requests per window, by endpoint
  Window,         \* 60 s
  Retention,      \* 7200 s
  SweepInterval,  \* HOUSEKEEPING_INTERVAL_SECONDS
  SweepBatch,     \* HOUSEKEEPING_BATCH_SIZE
  ChallengeLife,  \* 300 s
  SessionLife,    \* 3600 s
  Never,          \* None
  MaxTime         \* bound of the clock

ASSUME TimeAssumption ==
  /\ Window \in Nat /\ Retention \in Nat /\ SweepInterval \in Nat \ {0}
  /\ ChallengeLife \in Nat /\ SessionLife \in Nat
  /\ Window <= Retention
  /\ Never \notin Int

ASSUME LimitAssumption ==
  /\ {"challenge", "verify"} \subseteq Endpoints
  /\ Limit \in [Endpoints -> Nat]
  /\ SweepBatch \in Nat

VARIABLES
  now,
  challenges,   \* rows awaiting a signature
  sessions,     \* rows of signed-in browsers
  hits,         \* rate_hits
  lastSweep,    \* _last_housekeeping, lost with the process
  logouts,      \* the counts of a wallet's 'wallet_sessions_revoked' audit rows, added up
  asked,        \* history: challenges handed out
  grants        \* history: sign-ins

tables == <<challenges, sessions, hits>>

signInVars == <<now, tables, lastSweep, logouts, asked, grants>>

SignInTypeOK ==
  /\ now \in Nat
  /\ challenges \subseteq [id : Ids, wallet : Wallets, expires : Nat]
  /\ sessions \subseteq [token : Tokens, wallet : Wallets, expires : Nat]
  /\ hits \subseteq [endpoint : Endpoints, client : Clients, created : Nat, nth : Nat]
  /\ lastSweep \in Nat \cup {Never}
  /\ logouts \in [Wallets -> Nat]
  /\ asked \subseteq [id : Ids, wallet : Wallets, at : Nat]
  /\ grants \subseteq [id : Ids, wallet : Wallets, token : Tokens, at : Nat]

SignInInit ==
  /\ now = 0
  /\ challenges = {} /\ sessions = {} /\ hits = {}
  /\ lastSweep = Never
  /\ logouts = [w \in Wallets |-> 0]
  /\ asked = {} /\ grants = {}

-------------------------------------------------------------------------------
(* The throttle.  One transaction deletes some dead rows, if that is due,  *)
(* then counts the caller's hits and records one more or refuses.          *)

(* Faulty: the cutoff forgets how long hits count.                         *)
AllButCurrentHits == {h \in hits : h.created < now}

OldHits == {h \in hits : h.created + Retention < now}

DeadChallenges == {x \in challenges : x.expires < now}

DeadSessions == {s \in sessions : s.expires < now}

SweepDue == IF lastSweep = Never THEN TRUE ELSE now - lastSweep >= SweepInterval

(* At most a batch of a table's dead rows, in no particular order.         *)
Batches(rows) ==
  {B \in SUBSET rows :
     Cardinality(B) = IF Cardinality(rows) < SweepBatch THEN Cardinality(rows)
                                                        ELSE SweepBatch}

Sweeps ==
  IF SweepDue
  THEN [hits : Batches(OldHits), challenges : Batches(DeadChallenges),
        sessions : Batches(DeadSessions)]
  ELSE {[hits |-> {}, challenges |-> {}, sessions |-> {}]}

(* Faulty: a calendar window that starts afresh instead of a sliding one.  *)
ThisWindow(rows, e, c) ==
  {h \in rows : h.endpoint = e /\ h.client = c /\ h.created \div Window = now \div Window}

Recent(rows, e, c) ==
  {h \in rows : h.endpoint = e /\ h.client = c /\ h.created > now - Window}

(* "created" is a float of the clock; nth tells hits of one tick apart.    *)
NewHit(e, c) ==
  [endpoint |-> e, client |-> c, created |-> now,
   nth |-> Cardinality({h \in hits : h.endpoint = e /\ h.client = c /\ h.created = now})]

SetSchedule == lastSweep' = IF SweepDue THEN now ELSE lastSweep

Admit(e, c, gone) ==
  /\ SetSchedule
  /\ Cardinality(Recent(hits \ gone.hits, e, c)) < Limit[e]
  /\ hits' = (hits \ gone.hits) \cup {NewHit(e, c)}

Refuse(e, c, gone) ==
  /\ SetSchedule
  /\ Cardinality(Recent(hits \ gone.hits, e, c)) >= Limit[e]
  /\ hits' = hits \ gone.hits

SweptOnly(gone) ==
  /\ challenges' = challenges \ gone.challenges
  /\ sessions' = sessions \ gone.sessions

LiveSessions == {s \in sessions : s.expires > now}

(* A refused request still commits its housekeeping.                       *)
TooMany(e, c) ==
  /\ \E gone \in Sweeps : Refuse(e, c, gone) /\ SweptOnly(gone)
  /\ UNCHANGED <<now, logouts, asked, grants>>

-------------------------------------------------------------------------------
(* Signing in and out.                                                     *)

AskChallenge(c, w, id) ==
  /\ \A a \in asked : a.id # id
  /\ \E gone \in Sweeps :
       /\ Admit("challenge", c, gone)
       /\ challenges' = (challenges \ gone.challenges)
                        \cup {[id |-> id, wallet |-> w, expires |-> now + ChallengeLife]}
       /\ sessions' = sessions \ gone.sessions
  /\ asked' = asked \cup {[id |-> id, wallet |-> w, at |-> now]}
  /\ UNCHANGED <<now, logouts, grants>>

(* An address that does not decode is refused behind the throttle.         *)
Misaddressed(c) ==
  /\ \E gone \in Sweeps : Admit("challenge", c, gone) /\ SweptOnly(gone)
  /\ UNCHANGED <<now, logouts, asked, grants>>

Answered(gone, id) == {x \in challenges \ gone.challenges : x.id = id}

(* Faulty: the row is left for housekeeping to delete when it expires.     *)
KeepChallenge(gone, id) == challenges' = challenges \ gone.challenges

(* consume_challenge deletes the row whatever comes of it.                 *)
Consume(gone, id) == challenges' = (challenges \ gone.challenges) \ Answered(gone, id)

Verify(c, id, token) ==
  /\ \A g \in grants : g.token # token
  /\ \E gone \in Sweeps :
       /\ Admit("verify", c, gone)
       /\ Consume(gone, id)
       /\ \E x \in Answered(gone, id) :
            /\ x.expires >= now
            /\ sessions' = (sessions \ gone.sessions)
                 \cup {[token |-> token, wallet |-> x.wallet, expires |-> now + SessionLife]}
            /\ grants' = grants \cup {[id |-> id, wallet |-> x.wallet, token |-> token, at |-> now]}
  /\ UNCHANGED <<now, logouts, asked>>

(* The challenge is unknown or expired, or the signature is wrong, or the  *)
(* process dies before the session is written.                             *)
VerifyFails(c, id) ==
  /\ \E gone \in Sweeps :
       /\ Admit("verify", c, gone)
       /\ Consume(gone, id)
       /\ sessions' = sessions \ gone.sessions
  /\ UNCHANGED <<now, logouts, asked, grants>>

Logout(s) ==
  /\ sessions' = sessions \ {s}
  /\ UNCHANGED <<now, challenges, hits, lastSweep, logouts, asked, grants>>

SessionsOf(w) == {s \in sessions : s.wallet = w}

LogoutAll(s) ==
  /\ s \in LiveSessions
  /\ sessions' = sessions \ SessionsOf(s.wallet)
  /\ logouts' = [logouts EXCEPT ![s.wallet] = @ + Cardinality(SessionsOf(s.wallet))]
  /\ UNCHANGED <<now, challenges, hits, lastSweep, asked, grants>>

-------------------------------------------------------------------------------
(* The clock and the process.                                              *)

Tick ==
  /\ now < MaxTime
  /\ now' = now + 1
  /\ UNCHANGED <<tables, lastSweep, logouts, asked, grants>>

(* The tables are on disk; the housekeeping schedule is not.               *)
Restart ==
  /\ lastSweep' = Never
  /\ UNCHANGED <<now, tables, logouts, asked, grants>>

SignInStep ==
  \/ \E c \in Clients, w \in Wallets, id \in Ids : AskChallenge(c, w, id)
  \/ \E c \in Clients : Misaddressed(c)
  \/ \E c \in Clients, id \in Ids, t \in Tokens : Verify(c, id, t)
  \/ \E c \in Clients, id \in Ids : VerifyFails(c, id)
  \/ \E s \in sessions : Logout(s)
  \/ \E s \in sessions : LogoutAll(s)
  \/ \E e \in {"challenge", "verify"}, c \in Clients : TooMany(e, c)

SignInNext == SignInStep \/ Tick \/ Restart

SignInSpec == SignInInit /\ [][SignInNext]_signInVars

-------------------------------------------------------------------------------
(* A sign-in answers a challenge of its wallet while the challenge lives,  *)
(* no challenge signs in twice, and every session row stems from a sign-in *)
(* and dies a session's life after it, whatever retries, sweeps and        *)
(* restarts come between (docs/SECURITY.md: expiring, one-time).           *)
SignInsAreOneTime ==
  /\ \A g \in grants : \E a \in asked :
       a.id = g.id /\ a.wallet = g.wallet /\ a.at <= g.at /\ g.at <= a.at + ChallengeLife
  /\ \A g, h \in grants : g.id = h.id => g = h
  /\ \A s \in sessions : \E g \in grants :
       g.token = s.token /\ g.wallet = s.wallet /\ s.expires = g.at + SessionLife

(* In no window, at whatever time it starts, has throttle admitted more    *)
(* than the limit, restarts of the process included.                       *)
RateWindowKept ==
  \A e \in Endpoints, c \in Clients, start \in 0..now :
     Cardinality({h \in hits : /\ h.endpoint = e /\ h.client = c
                               /\ start <= h.created /\ h.created < start + Window})
       <= Limit[e]

(* Housekeeping never removes what still counts: a hit of the window, a    *)
(* session before its end, or a challenge that can be answered, except the *)
(* one the request itself answers.                                         *)
SweepsSpareTheLiving ==
  [][lastSweep' # lastSweep =>
       /\ \A h \in hits \ hits' : h.created + Window <= now
       /\ \A s \in sessions \ sessions' : s.expires <= now
       /\ Cardinality({x.id : x \in {y \in challenges \ challenges' : y.expires >= now}}) <= 1
    ]_signInVars
===============================================================================
