---------------------------- MODULE ApiKeys_proofs ----------------------------
(* Theorems about sign-in and about keys, for every value of the constants.*)
EXTENDS ApiKeys, FiniteSetTheorems, TLAPS

-------------------------------------------------------------------------------
(* Sign-in: the throttle, challenges and sessions.                         *)

(* The inductive invariant, in two halves that share only the clock.       *)
HitsInv ==
  /\ now \in Nat
  /\ hits \subseteq [endpoint : Endpoints, client : Clients, created : Nat, nth : Nat]
  /\ IsFiniteSet(hits)
  /\ \A h \in hits : h.created <= now
  /\ lastSweep \in Nat \cup {Never}
  /\ RateWindowKept

(* Beyond what is promised: a waiting challenge was handed out, and nobody *)
(* has signed in with it.                                                  *)
CredentialsInv ==
  /\ now \in Nat
  /\ challenges \subseteq [id : Ids, wallet : Wallets, expires : Nat]
  /\ sessions \subseteq [token : Tokens, wallet : Wallets, expires : Nat]
  /\ IsFiniteSet(sessions)
  /\ logouts \in [Wallets -> Nat]
  /\ asked \subseteq [id : Ids, wallet : Wallets, at : Nat]
  /\ grants \subseteq [id : Ids, wallet : Wallets, token : Tokens, at : Nat]
  /\ \A a \in asked : a.at <= now
  /\ \A x \in challenges : \E a \in asked :
       a.id = x.id /\ a.wallet = x.wallet /\ x.expires = a.at + ChallengeLife
  /\ \A x \in challenges, g \in grants : x.id # g.id
  /\ SignInsAreOneTime

SignInInv == HitsInv /\ CredentialsInv

-------------------------------------------------------------------------------

(* One more element adds at most one to a cardinality.                     *)
LEMMA OneMore ==
  ASSUME NEW S, IsFiniteSet(S), NEW x
  PROVE  /\ IsFiniteSet(S \cup {x})
         /\ Cardinality(S) \in Nat
         /\ Cardinality(S \cup {x}) \in Nat
         /\ Cardinality(S \cup {x}) <= Cardinality(S) + 1
<1>1. Cardinality(S) \in Nat
  BY FS_CardinalityType
<1>2. CASE x \in S
  <2>1. S \cup {x} = S
    BY <1>2
  <2>2. Cardinality(S) <= Cardinality(S) + 1
    BY <1>1
  <2>3. QED
    BY <1>1, <2>1, <2>2, Zenon
<1>3. CASE x \notin S
  BY <1>1, <1>3, FS_AddElement
<1>4. QED
  BY <1>2, <1>3

(* A sweep takes rows of the tables it sweeps.                             *)
LEMMA SweepsAreParts ==
  ASSUME NEW gone \in Sweeps
  PROVE  /\ gone.hits \subseteq hits /\ gone.challenges \subseteq challenges
         /\ gone.sessions \subseteq sessions
<1>1. CASE SweepDue
  <2>1. gone \in [hits : Batches(OldHits), challenges : Batches(DeadChallenges),
                  sessions : Batches(DeadSessions)]
    BY <1>1 DEF Sweeps
  <2>2. /\ gone.hits \subseteq OldHits /\ gone.challenges \subseteq DeadChallenges
        /\ gone.sessions \subseteq DeadSessions
    BY <2>1 DEF Batches
  <2>3. QED
    BY <2>2 DEF OldHits, DeadChallenges, DeadSessions
<1>2. CASE ~SweepDue
  BY <1>2 DEF Sweeps
<1>3. QED
  BY <1>1, <1>2

(* Fewer hits fill no window.                                              *)
LEMMA FewerHits ==
  ASSUME HitsInv, now' = now, hits' \subseteq hits, SetSchedule
  PROVE  HitsInv'
<1>1. IsFiniteSet(hits')
  BY FS_Subset DEF HitsInv
<1>2. lastSweep' \in Nat \cup {Never}
  BY DEF HitsInv, SetSchedule
<1>3. RateWindowKept'
  <2> SUFFICES ASSUME NEW e \in Endpoints, NEW c \in Clients, NEW start \in 0..now
               PROVE  Cardinality({h \in hits' : /\ h.endpoint = e /\ h.client = c
                                                 /\ start <= h.created
                                                 /\ h.created < start + Window}) <= Limit[e]
    BY DEF RateWindowKept
  <2> DEFINE In(rows) == {h \in rows : /\ h.endpoint = e /\ h.client = c
                                       /\ start <= h.created /\ h.created < start + Window}
  <2>1. In(hits') \subseteq In(hits) /\ IsFiniteSet(In(hits))
    BY FS_Subset DEF HitsInv
  <2>2. /\ Cardinality(In(hits')) \in Nat /\ Cardinality(In(hits)) \in Nat
        /\ Cardinality(In(hits')) <= Cardinality(In(hits))
    BY <2>1, FS_Subset, FS_CardinalityType
  <2>3. Cardinality(In(hits)) <= Limit[e]
    BY DEF HitsInv, RateWindowKept
  <2>4. Limit[e] \in Nat
    BY LimitAssumption
  <2>5. QED
    BY <2>2, <2>3, <2>4
<1>4. QED
  BY <1>1, <1>2, <1>3 DEF HitsInv

(* The sliding window: a hit is admitted only if the window that ends with *)
(* it has room, so no window that contains it exceeds the limit.           *)
LEMMA AdmitKeeps ==
  ASSUME HitsInv, now' = now, NEW e \in Endpoints, NEW c \in Clients,
         NEW gone \in Sweeps, Admit(e, c, gone)
  PROVE  HitsInv'
<1> DEFINE left == hits \ gone.hits
           new == NewHit(e, c)
<1>1. hits' = left \cup {new} /\ left \subseteq hits
  BY DEF Admit
<1>2. IsFiniteSet(left) /\ IsFiniteSet(hits')
  BY <1>1, FS_Subset, FS_AddElement DEF HitsInv
<1>3. /\ new \in [endpoint : Endpoints, client : Clients, created : Nat, nth : Nat]
      /\ new.endpoint = e /\ new.client = c /\ new.created = now
  <2>1. Cardinality({h \in hits : h.endpoint = e /\ h.client = c /\ h.created = now}) \in Nat
    BY FS_Subset, FS_CardinalityType DEF HitsInv
  <2>2. QED
    BY <2>1 DEF NewHit, HitsInv
<1>4. lastSweep' \in Nat \cup {Never}
  BY DEF HitsInv, Admit, SetSchedule
<1>5. \A h \in hits' : h.created <= now'
  BY <1>1, <1>3 DEF HitsInv
<1>6. RateWindowKept'
  <2> SUFFICES ASSUME NEW f \in Endpoints, NEW d \in Clients, NEW start \in 0..now
               PROVE  Cardinality({h \in hits' : /\ h.endpoint = f /\ h.client = d
                                                 /\ start <= h.created
                                                 /\ h.created < start + Window}) <= Limit[f]
    BY DEF RateWindowKept
  <2> DEFINE In(rows) == {h \in rows : /\ h.endpoint = f /\ h.client = d
                                       /\ start <= h.created /\ h.created < start + Window}
  <2>1. Limit[f] \in Nat /\ Window \in Nat /\ now \in Nat /\ start \in Nat
    BY LimitAssumption, TimeAssumption DEF HitsInv
  <2>2. CASE f = e /\ d = c /\ now < start + Window
    <3>1. IsFiniteSet(Recent(left, e, c))
      BY <1>2, FS_Subset DEF Recent
    <3>2. Cardinality(Recent(left, e, c)) \in Nat /\ Cardinality(Recent(left, e, c)) < Limit[e]
      BY <3>1, FS_CardinalityType DEF Admit
    <3>3. \A h \in left : h.created \in Nat
      BY <1>1 DEF HitsInv
    <3>4. In(hits') \subseteq Recent(left, e, c) \cup {new}
      BY <1>1, <2>1, <2>2, <3>3 DEF Recent
    <3>5. /\ IsFiniteSet(Recent(left, e, c) \cup {new})
          /\ Cardinality(Recent(left, e, c) \cup {new}) <= Cardinality(Recent(left, e, c)) + 1
      BY <3>1, OneMore
    <3>6. /\ Cardinality(In(hits')) <= Cardinality(Recent(left, e, c) \cup {new})
          /\ Cardinality(In(hits')) \in Nat
          /\ Cardinality(Recent(left, e, c) \cup {new}) \in Nat
      BY <3>4, <3>5, FS_Subset, FS_CardinalityType
    <3>7. QED
      BY <2>1, <2>2, <3>2, <3>5, <3>6
  <2>3. CASE ~(f = e /\ d = c /\ now < start + Window)
    <3>1. In(hits') \subseteq In(hits) /\ IsFiniteSet(In(hits))
      BY <1>1, <1>3, <2>3, FS_Subset DEF HitsInv
    <3>2. /\ Cardinality(In(hits')) \in Nat /\ Cardinality(In(hits)) \in Nat
          /\ Cardinality(In(hits')) <= Cardinality(In(hits))
      BY <3>1, FS_Subset, FS_CardinalityType
    <3>3. Cardinality(In(hits)) <= Limit[f]
      BY DEF HitsInv, RateWindowKept
    <3>4. QED
      BY <2>1, <3>2, <3>3
  <2>4. QED
    BY <2>2, <2>3
<1>7. QED
  BY <1>1, <1>2, <1>3, <1>4, <1>5, <1>6 DEF HitsInv

(* Time opens no window that is full already.                              *)
LEMMA TickKeepsHits ==
  ASSUME HitsInv, Tick
  PROVE  HitsInv'
<1>1. now' = now + 1 /\ hits' = hits /\ lastSweep' = lastSweep /\ now \in Nat
  BY DEF Tick, tables, HitsInv
<1>2. RateWindowKept'
  <2> SUFFICES ASSUME NEW e \in Endpoints, NEW c \in Clients, NEW start \in 0..(now + 1)
               PROVE  Cardinality({h \in hits : /\ h.endpoint = e /\ h.client = c
                                                /\ start <= h.created
                                                /\ h.created < start + Window}) <= Limit[e]
    BY <1>1 DEF RateWindowKept
  <2>1. CASE start \in 0..now
    BY <2>1 DEF HitsInv, RateWindowKept
  <2>2. CASE start = now + 1
    <3>1. {h \in hits : /\ h.endpoint = e /\ h.client = c
                        /\ start <= h.created /\ h.created < start + Window} = {}
      BY <1>1, <2>2 DEF HitsInv
    <3>2. Limit[e] \in Nat
      BY LimitAssumption
    <3>3. QED
      BY <3>1, <3>2, FS_EmptySet
  <2>3. QED
    BY <1>1, <2>1, <2>2
<1>3. QED
  BY <1>1, <1>2 DEF HitsInv

-------------------------------------------------------------------------------

(* Rows that leave, by a sweep, an answer or a log-out, break no promise.  *)
LEMMA FewerCredentials ==
  ASSUME CredentialsInv,
         UNCHANGED <<now, asked, grants>>,
         challenges' \subseteq challenges, sessions' \subseteq sessions,
         logouts' \in [Wallets -> Nat]
  PROVE  CredentialsInv'
<1>1. IsFiniteSet(sessions')
  BY FS_Subset DEF CredentialsInv
<1>2. SignInsAreOneTime'
  BY DEF CredentialsInv, SignInsAreOneTime
<1>3. QED
  BY <1>1, <1>2 DEF CredentialsInv

(* A new challenge bears an id nobody has signed in with.                  *)
LEMMA AskKeeps ==
  ASSUME CredentialsInv, NEW c \in Clients, NEW w \in Wallets, NEW id \in Ids,
         AskChallenge(c, w, id)
  PROVE  CredentialsInv'
<1>1. PICK gone \in Sweeps :
        /\ challenges' = (challenges \ gone.challenges)
                         \cup {[id |-> id, wallet |-> w, expires |-> now + ChallengeLife]}
        /\ sessions' = sessions \ gone.sessions
  BY DEF AskChallenge
<1>2. /\ \A a \in asked : a.id # id
      /\ asked' = asked \cup {[id |-> id, wallet |-> w, at |-> now]}
      /\ now' = now /\ logouts' = logouts /\ grants' = grants
  BY DEF AskChallenge
<1>3. now \in Nat /\ ChallengeLife \in Nat
  BY TimeAssumption DEF CredentialsInv
<1>4. IsFiniteSet(sessions')
  BY <1>1, FS_Subset DEF CredentialsInv
<1>5. /\ challenges' \subseteq [id : Ids, wallet : Wallets, expires : Nat]
      /\ sessions' \subseteq [token : Tokens, wallet : Wallets, expires : Nat]
      /\ asked' \subseteq [id : Ids, wallet : Wallets, at : Nat]
      /\ \A a \in asked' : a.at <= now'
  BY <1>1, <1>2, <1>3 DEF CredentialsInv
<1>6. \A x \in challenges' : \E a \in asked' :
        a.id = x.id /\ a.wallet = x.wallet /\ x.expires = a.at + ChallengeLife
  <2> SUFFICES ASSUME NEW x \in challenges'
               PROVE  \E a \in asked' : /\ a.id = x.id /\ a.wallet = x.wallet
                                         /\ x.expires = a.at + ChallengeLife
    OBVIOUS
  <2>1. CASE x \in challenges
    BY <1>2, <2>1 DEF CredentialsInv
  <2>2. CASE x = [id |-> id, wallet |-> w, expires |-> now + ChallengeLife]
    <3>1. [id |-> id, wallet |-> w, at |-> now] \in asked'
      BY <1>2
    <3>2. QED
      BY <2>2, <3>1
  <2>3. QED
    BY <1>1, <2>1, <2>2
<1>7. \A x \in challenges', g \in grants' : x.id # g.id
  <2>1. \A g \in grants : g.id # id
    BY <1>2 DEF CredentialsInv, SignInsAreOneTime
  <2>2. QED
    BY <1>1, <1>2, <2>1 DEF CredentialsInv
<1>8. SignInsAreOneTime'
  BY <1>1, <1>2 DEF CredentialsInv, SignInsAreOneTime
<1>9. QED
  BY <1>2, <1>4, <1>5, <1>6, <1>7, <1>8 DEF CredentialsInv

(* A sign-in uses its challenge up, so none can repeat it.                 *)
LEMMA VerifyKeeps ==
  ASSUME CredentialsInv, NEW c \in Clients, NEW id \in Ids, NEW token \in Tokens,
         Verify(c, id, token)
  PROVE  CredentialsInv'
<1>1. PICK gone \in Sweeps : \E x \in Answered(gone, id) :
        /\ Consume(gone, id)
        /\ x.expires >= now
        /\ sessions' = (sessions \ gone.sessions)
             \cup {[token |-> token, wallet |-> x.wallet, expires |-> now + SessionLife]}
        /\ grants' = grants \cup {[id |-> id, wallet |-> x.wallet, token |-> token, at |-> now]}
  BY DEF Verify
<1>2. PICK x \in challenges :
        /\ x.id = id
        /\ challenges' \subseteq challenges /\ \A y \in challenges' : y.id # id
        /\ x.expires >= now
        /\ sessions' \subseteq sessions
             \cup {[token |-> token, wallet |-> x.wallet, expires |-> now + SessionLife]}
        /\ grants' = grants \cup {[id |-> id, wallet |-> x.wallet, token |-> token, at |-> now]}
  BY <1>1 DEF Answered, Consume
<1>3. now' = now /\ logouts' = logouts /\ asked' = asked
  BY DEF Verify
<1>4. now \in Nat /\ SessionLife \in Nat /\ ChallengeLife \in Nat
  BY TimeAssumption DEF CredentialsInv
<1>5. x.wallet \in Wallets
  BY DEF CredentialsInv
<1>6. PICK a \in asked : a.id = id /\ a.wallet = x.wallet /\ x.expires = a.at + ChallengeLife
  BY <1>2 DEF CredentialsInv
<1>7. a.at <= now /\ now <= a.at + ChallengeLife
  BY <1>2, <1>4, <1>6 DEF CredentialsInv
<1>8. /\ sessions' \subseteq [token : Tokens, wallet : Wallets, expires : Nat]
      /\ grants' \subseteq [id : Ids, wallet : Wallets, token : Tokens, at : Nat]
  BY <1>2, <1>4, <1>5 DEF CredentialsInv
<1>9. IsFiniteSet(sessions')
  <2>1. IsFiniteSet(sessions
          \cup {[token |-> token, wallet |-> x.wallet, expires |-> now + SessionLife]})
    BY OneMore DEF CredentialsInv
  <2>2. QED
    BY <1>2, <2>1, FS_Subset
<1>10. SignInsAreOneTime'
  <2> DEFINE new == [id |-> id, wallet |-> x.wallet, token |-> token, at |-> now]
  <2>1. ASSUME NEW g \in grants'
        PROVE  \E b \in asked : /\ b.id = g.id /\ b.wallet = g.wallet
                                 /\ b.at <= g.at /\ g.at <= b.at + ChallengeLife
    <3>1. CASE g \in grants
      BY <3>1 DEF CredentialsInv, SignInsAreOneTime
    <3>2. CASE g = new
      BY <1>6, <1>7, <3>2
    <3>3. QED
      BY <1>2, <3>1, <3>2
  <2>2. \A g \in grants : g.id # id
    BY <1>2 DEF CredentialsInv
  <2>3. \A g, h \in grants' : g.id = h.id => g = h
    BY <1>2, <2>2 DEF CredentialsInv, SignInsAreOneTime
  <2>4. ASSUME NEW s \in sessions'
        PROVE  \E g \in grants' : /\ g.token = s.token /\ g.wallet = s.wallet
                                   /\ s.expires = g.at + SessionLife
    <3>1. CASE s \in sessions
      BY <1>2, <3>1 DEF CredentialsInv, SignInsAreOneTime
    <3>2. CASE s = [token |-> token, wallet |-> x.wallet, expires |-> now + SessionLife]
      <4>1. new \in grants'
        BY <1>2
      <4>2. QED
        BY <3>2, <4>1
    <3>3. QED
      BY <1>2, <3>1, <3>2
  <2>5. QED
    BY <1>3, <2>1, <2>3, <2>4 DEF SignInsAreOneTime
<1>11. \A y \in challenges', g \in grants' : y.id # g.id
  BY <1>2 DEF CredentialsInv
<1>12. \A y \in challenges' : \E b \in asked' :
        b.id = y.id /\ b.wallet = y.wallet /\ y.expires = b.at + ChallengeLife
  BY <1>2, <1>3 DEF CredentialsInv
<1>13. QED
  BY <1>2, <1>3, <1>8, <1>9, <1>10, <1>11, <1>12 DEF CredentialsInv

(* Any throttled request that otherwise leaves credentials to the sweep.   *)
LEMMA ThrottledKeeps ==
  ASSUME SignInInv, NEW e \in Endpoints, NEW c \in Clients, NEW gone \in Sweeps,
         Admit(e, c, gone) \/ Refuse(e, c, gone),
         SweptOnly(gone),
         UNCHANGED <<now, logouts, asked, grants>>
  PROVE  SignInInv'
<1>1. HitsInv'
  <2>1. CASE Admit(e, c, gone)
    BY <2>1, AdmitKeeps DEF SignInInv
  <2>2. CASE Refuse(e, c, gone)
    BY <2>2, FewerHits DEF SignInInv, Refuse
  <2>3. QED
    BY <2>1, <2>2
<1>2. CredentialsInv'
  <2>1. logouts' \in [Wallets -> Nat]
    BY DEF SignInInv, CredentialsInv
  <2>2. challenges' \subseteq challenges /\ sessions' \subseteq sessions
    BY DEF SweptOnly
  <2>3. QED
    BY <2>1, <2>2, FewerCredentials DEF SignInInv
<1>3. QED
  BY <1>1, <1>2 DEF SignInInv

(* Ending sessions disturbs no hit and only removes rows.                  *)
LEMMA LogoutKeeps ==
  ASSUME SignInInv, NEW s \in sessions, Logout(s) \/ LogoutAll(s)
  PROVE  SignInInv'
<1>1. HitsInv'
  BY DEF SignInInv, HitsInv, RateWindowKept, Logout, LogoutAll
<1>2. logouts' \in [Wallets -> Nat]
  <2>1. logouts \in [Wallets -> Nat] /\ s.wallet \in Wallets
    BY DEF SignInInv, CredentialsInv
  <2>2. Cardinality(SessionsOf(s.wallet)) \in Nat
    BY FS_Subset, FS_CardinalityType DEF SignInInv, CredentialsInv, SessionsOf
  <2>3. \/ logouts' = logouts
        \/ logouts' = [logouts EXCEPT ![s.wallet] = @ + Cardinality(SessionsOf(s.wallet))]
    BY DEF Logout, LogoutAll
  <2>4. QED
    BY <2>1, <2>2, <2>3
<1>3. /\ UNCHANGED <<now, asked, grants>>
      /\ challenges' \subseteq challenges /\ sessions' \subseteq sessions
  BY DEF Logout, LogoutAll
<1>4. CredentialsInv'
  BY <1>2, <1>3, FewerCredentials DEF SignInInv
<1>5. QED
  BY <1>1, <1>4 DEF SignInInv

LEMMA SignInStepKeeps == SignInInv /\ SignInStep => SignInInv'
<1> SUFFICES ASSUME SignInInv, SignInStep PROVE SignInInv'
  OBVIOUS
<1>0. "challenge" \in Endpoints /\ "verify" \in Endpoints
  BY LimitAssumption
<1>1. ASSUME NEW c \in Clients, NEW w \in Wallets, NEW id \in Ids, AskChallenge(c, w, id)
      PROVE  SignInInv'
  <2>1. HitsInv'
    BY <1>0, <1>1, AdmitKeeps DEF SignInInv, AskChallenge
  <2>2. QED
    BY <1>1, <2>1, AskKeeps DEF SignInInv
<1>2. ASSUME NEW c \in Clients, NEW id \in Ids, NEW t \in Tokens, Verify(c, id, t)
      PROVE  SignInInv'
  <2>1. HitsInv'
    BY <1>0, <1>2, AdmitKeeps DEF SignInInv, Verify
  <2>2. QED
    BY <1>2, <2>1, VerifyKeeps DEF SignInInv
<1>3. ASSUME NEW c \in Clients, NEW id \in Ids, VerifyFails(c, id)
      PROVE  SignInInv'
  <2>1. HitsInv'
    BY <1>0, <1>3, AdmitKeeps DEF SignInInv, VerifyFails
  <2>2. /\ UNCHANGED <<now, asked, grants>> /\ logouts' \in [Wallets -> Nat]
        /\ challenges' \subseteq challenges /\ sessions' \subseteq sessions
    BY <1>3 DEF VerifyFails, Consume, SignInInv, CredentialsInv
  <2>3. QED
    BY <2>1, <2>2, FewerCredentials DEF SignInInv
<1>4. ASSUME NEW s \in sessions, Logout(s) \/ LogoutAll(s)
      PROVE  SignInInv'
  BY <1>4, LogoutKeeps
<1>5. ASSUME NEW e \in {"challenge", "verify"}, NEW c \in Clients, TooMany(e, c)
      PROVE  SignInInv'
  BY <1>0, <1>5, ThrottledKeeps DEF TooMany
<1>6. ASSUME NEW c \in Clients, Misaddressed(c)
      PROVE  SignInInv'
  BY <1>0, <1>6, ThrottledKeeps DEF Misaddressed
<1>7. QED
  BY <1>1, <1>2, <1>3, <1>4, <1>5, <1>6 DEF SignInStep

LEMMA ClockKeeps == SignInInv /\ (Tick \/ Restart) => SignInInv'
<1>1. ASSUME SignInInv, Tick PROVE SignInInv'
  <2>1. now' = now + 1 /\ now \in Nat /\ UNCHANGED <<tables, logouts, asked, grants>>
    BY <1>1 DEF Tick, SignInInv, HitsInv
  <2>2. SignInsAreOneTime'
    BY <1>1, <2>1 DEF SignInsAreOneTime, SignInInv, CredentialsInv, tables
  <2>3. CredentialsInv'
    BY <1>1, <2>1, <2>2 DEF SignInInv, CredentialsInv, tables
  <2>4. QED
    BY <1>1, <2>3, TickKeepsHits DEF SignInInv
<1>2. ASSUME SignInInv, Restart PROVE SignInInv'
  <2>1. UNCHANGED <<now, tables, logouts, asked, grants>> /\ lastSweep' = Never
    BY <1>2 DEF Restart
  <2>2. SignInsAreOneTime' /\ RateWindowKept'
    BY <1>2, <2>1 DEF SignInsAreOneTime, RateWindowKept, SignInInv, HitsInv, CredentialsInv, tables
  <2>3. QED
    BY <1>2, <2>1, <2>2 DEF SignInInv, HitsInv, CredentialsInv, tables
<1>3. QED
  BY <1>1, <1>2

LEMMA StutterKeeps == SignInInv /\ UNCHANGED signInVars => SignInInv'
<1> SUFFICES ASSUME SignInInv, UNCHANGED signInVars PROVE SignInInv'
  OBVIOUS
<1>1. SignInsAreOneTime' /\ RateWindowKept'
  BY DEF SignInsAreOneTime, RateWindowKept, SignInInv, HitsInv, CredentialsInv, signInVars, tables
<1>2. QED
  BY <1>1 DEF SignInInv, HitsInv, CredentialsInv, signInVars, tables

LEMMA SignInStarts == SignInInit => SignInInv
<1> SUFFICES ASSUME SignInInit PROVE SignInInv
  OBVIOUS
<1>1. IsFiniteSet(hits) /\ IsFiniteSet(sessions)
  BY FS_EmptySet DEF SignInInit
<1>2. RateWindowKept
  <2> SUFFICES ASSUME NEW e \in Endpoints, NEW c \in Clients, NEW start \in 0..now
               PROVE  Cardinality({h \in hits : /\ h.endpoint = e /\ h.client = c
                                                /\ start <= h.created
                                                /\ h.created < start + Window}) <= Limit[e]
    BY DEF RateWindowKept
  <2>1. {h \in hits : /\ h.endpoint = e /\ h.client = c
                      /\ start <= h.created /\ h.created < start + Window} = {}
    BY DEF SignInInit
  <2>2. Limit[e] \in Nat
    BY LimitAssumption
  <2>3. QED
    BY <2>1, <2>2, FS_EmptySet
<1>3. QED
  BY <1>1, <1>2 DEF SignInInit, SignInInv, HitsInv, CredentialsInv, SignInsAreOneTime

(* The invariant is inductive: every request, tick and restart keeps it.   *)
THEOREM SignInInvariance == SignInSpec => []SignInInv
<1>1. SignInInv /\ [SignInNext]_signInVars => SignInInv'
  BY SignInStepKeeps, ClockKeeps, StutterKeeps DEF SignInNext
<1>2. QED
  BY <1>1, SignInStarts, PTL DEF SignInSpec

-------------------------------------------------------------------------------

(* The tables only ever hold rows of their schema, and the clock, the      *)
(* sweep schedule and the audited counts stay natural (store.py).          *)
THEOREM SignInTyped == SignInSpec => []SignInTypeOK
<1>1. SignInInv => SignInTypeOK
  BY DEF SignInInv, HitsInv, CredentialsInv, SignInTypeOK
<1>2. QED
  BY <1>1, SignInInvariance, PTL

(* For any number of clients, retries and restarts, a challenge signs in   *)
(* at most once, in time and for its wallet (consume_challenge).           *)
THEOREM ChallengesAreOneTime == SignInSpec => []SignInsAreOneTime
<1>1. SignInInv => SignInsAreOneTime
  BY DEF SignInInv, CredentialsInv
<1>2. QED
  BY <1>1, SignInInvariance, PTL

(* For any limits, windows, batches and sweep intervals, no window ever    *)
(* holds more admitted requests of a caller than its limit (throttle).     *)
THEOREM ThrottleHolds == SignInSpec => []RateWindowKept
<1>1. SignInInv => RateWindowKept
  BY DEF SignInInv, HitsInv
<1>2. QED
  BY <1>1, SignInInvariance, PTL

(* What one sweep takes is dead, whatever the batch.                       *)
LEMMA SweptIsDead ==
  ASSUME SignInInv, NEW gone \in Sweeps
  PROVE  /\ \A h \in gone.hits : h.created + Window <= now
         /\ \A s \in gone.sessions : s.expires <= now
         /\ \A x \in gone.challenges : ~(x.expires >= now)
<1>1. CASE SweepDue
  <2>1. gone \in [hits : Batches(OldHits), challenges : Batches(DeadChallenges),
                  sessions : Batches(DeadSessions)]
    BY <1>1 DEF Sweeps
  <2>2. /\ gone.hits \subseteq OldHits /\ gone.challenges \subseteq DeadChallenges
        /\ gone.sessions \subseteq DeadSessions
    BY <2>1 DEF Batches
  <2>3. \A h \in gone.hits : h.created \in Nat /\ h.created + Retention < now
    BY <2>2 DEF OldHits, SignInInv, HitsInv
  <2>4. \A h \in gone.hits : h.created + Window <= now
    BY <2>3, TimeAssumption DEF SignInInv, HitsInv
  <2>5. \A s \in gone.sessions : s.expires \in Nat /\ s.expires < now
    BY <2>2 DEF DeadSessions, SignInInv, CredentialsInv
  <2>6. \A x \in gone.challenges : x.expires \in Nat /\ x.expires < now
    BY <2>2 DEF DeadChallenges, SignInInv, CredentialsInv
  <2>7. now \in Nat
    BY DEF SignInInv, HitsInv
  <2>8. QED
    BY <2>4, <2>5, <2>6, <2>7
<1>2. CASE ~SweepDue
  BY <1>2 DEF Sweeps
<1>3. QED
  BY <1>1, <1>2

(* Housekeeping never takes a hit, a session or a challenge that still     *)
(* counts, for any lifetimes with Window <= Retention (throttle).          *)
THEOREM SweepsAreHarmless == SignInSpec => SweepsSpareTheLiving
<1> DEFINE Alive(rows) == {x.id : x \in {y \in rows : y.expires >= now}}
           Spared == lastSweep' # lastSweep =>
             /\ \A h \in hits \ hits' : h.created + Window <= now
             /\ \A s \in sessions \ sessions' : s.expires <= now
             /\ Cardinality(Alive(challenges \ challenges')) <= 1
<1>1. ASSUME SignInInv, NEW gone \in Sweeps, NEW id,
             hits \ gone.hits \subseteq hits',
             sessions \ gone.sessions \subseteq sessions',
             \A x \in (challenges \ gone.challenges) \ challenges' : x.id = id
      PROVE  Spared
  <2>1. Alive(challenges \ challenges') \subseteq {id}
    BY <1>1, SweptIsDead
  <2>2. Cardinality(Alive(challenges \ challenges')) <= 1
    <3>1. IsFiniteSet({id}) /\ Cardinality({id}) = 1
      BY FS_Singleton
    <3>2. /\ Cardinality(Alive(challenges \ challenges')) \in Nat
          /\ Cardinality(Alive(challenges \ challenges')) <= Cardinality({id})
      BY <2>1, <3>1, FS_Subset, FS_CardinalityType
    <3>3. QED
      BY <3>1, <3>2
  <2>3. QED
    BY <1>1, <2>2, SweptIsDead
<1>2. ASSUME SignInInv, [SignInNext]_signInVars
      PROVE  Spared
  <2> SUFFICES ASSUME lastSweep' # lastSweep PROVE Spared
    OBVIOUS
  <2>1. ASSUME NEW c, NEW w, NEW id, AskChallenge(c, w, id) PROVE Spared
    BY <1>1, <1>2, <2>1 DEF AskChallenge, Admit
  <2>2. ASSUME NEW c, NEW id, NEW t, Verify(c, id, t) PROVE Spared
    BY <1>1, <1>2, <2>2 DEF Verify, Admit, Consume, Answered
  <2>3. ASSUME NEW c, NEW id, VerifyFails(c, id) PROVE Spared
    BY <1>1, <1>2, <2>3 DEF VerifyFails, Admit, Consume, Answered
  <2>4. ASSUME NEW e, NEW c, TooMany(e, c) PROVE Spared
    BY <1>1, <1>2, <2>4 DEF TooMany, Refuse, SweptOnly
  <2>5. ASSUME NEW c, Misaddressed(c) PROVE Spared
    BY <1>1, <1>2, <2>5 DEF Misaddressed, Admit, SweptOnly
  <2>6. ASSUME Restart PROVE Spared
    <3>1. Alive(challenges \ challenges') = {}
      BY <2>6 DEF Restart, tables
    <3>2. QED
      BY <2>6, <3>1, FS_EmptySet DEF Restart, tables
  <2>7. ASSUME NEW s \in sessions, Logout(s) \/ LogoutAll(s) PROVE FALSE
    BY <2>7 DEF Logout, LogoutAll
  <2>8. ASSUME Tick \/ UNCHANGED signInVars PROVE FALSE
    BY <2>8 DEF Tick, signInVars
  <2>9. QED
    BY <1>2, <2>1, <2>2, <2>3, <2>4, <2>5, <2>6, <2>7, <2>8 DEF SignInNext, SignInStep
<1>3. SignInInv /\ [SignInNext]_signInVars => [Spared]_signInVars
  BY <1>2
<1>4. QED
  BY <1>3, SignInInvariance, PTL DEF SignInSpec, SweepsSpareTheLiving

-------------------------------------------------------------------------------
(* Keys, beside sign-in.                                                   *)

(* The inductive invariant: sign-in's own, and the bound on active keys.   *)
KeysInv ==
  /\ SignInInv
  /\ keys \subseteq [key : Keys, wallet : Wallets, revoked : BOOLEAN]
  /\ IsFiniteSet(keys)
  /\ making \subseteq [key : Keys, wallet : Wallets, answer : {"pending", "yes", "no"}]
  /\ holders \subseteq Wallets /\ disabled \subseteq Wallets /\ maintenance \in BOOLEAN
  /\ revocations \in [Wallets -> Nat]
  /\ ActiveKeysBounded

(* What sign-in needs of the steps of the larger system.                   *)
LEMMA SignInUndisturbed == KeysInv /\ [KeysNext]_accessVars => SignInInv'
<1> SUFFICES ASSUME KeysInv, [KeysNext]_accessVars PROVE SignInInv'
  OBVIOUS
<1>0. SignInInv /\ "member-key" \in Endpoints /\ "revoke-all" \in Endpoints
  BY KeyAssumption DEF KeysInv
<1>1. CASE SignInStep \/ Tick \/ RestartAll
  BY <1>0, <1>1, SignInStepKeeps, ClockKeeps DEF RestartAll
<1>2. ASSUME NEW e \in {"member-key", "revoke-all"}, NEW c \in Clients, NEW gone \in Sweeps,
             Admit(e, c, gone) \/ Refuse(e, c, gone), SweptOnly(gone),
             UNCHANGED <<now, logouts, asked, grants>>
      PROVE  SignInInv'
  BY <1>0, <1>2, ThrottledKeeps
<1>3. ASSUME NEW c \in Clients, NEW s \in sessions, NEW k \in Keys, RequestMemberKey(c, s, k)
      PROVE  SignInInv'
  BY <1>2, <1>3 DEF RequestMemberKey
<1>4. ASSUME NEW c \in Clients, MemberKeyDenied(c) PROVE SignInInv'
  BY <1>2, <1>4 DEF MemberKeyDenied
<1>5. ASSUME NEW c \in Clients, NEW s \in sessions, RevokeAllKeys(c, s) PROVE SignInInv'
  BY <1>2, <1>5 DEF RevokeAllKeys
<1>6. ASSUME NEW c \in Clients, TooManyKeyRequests(c) PROVE SignInInv'
  BY <1>2, <1>6 DEF TooManyKeyRequests, TooMany
<1>7. CASE UNCHANGED signInVars
  BY <1>0, <1>7, StutterKeeps
<1>8. ASSUME NEW s \in sessions, NEW k, RequestKey(s, k) \/ DeleteKey(s, k)
      PROVE  SignInInv'
  BY <1>7, <1>8 DEF RequestKey, DeleteKey
<1>9. ASSUME NEW m \in making, ReadHoldings(m) \/ IssueKey(m) \/ DenyKey(m)
      PROVE  SignInInv'
  BY <1>7, <1>9 DEF ReadHoldings, IssueKey, DenyKey
<1>10. ASSUME NEW k \in keys, OperatorRevokesKey(k) PROVE SignInInv'
  BY <1>7, <1>10 DEF OperatorRevokesKey
<1>11. ASSUME NEW w \in Wallets, SetDisabled(w) \/ Trade(w) PROVE SignInInv'
  BY <1>7, <1>11 DEF SetDisabled, Trade
<1>12. CASE SetMaintenance
  BY <1>7, <1>12 DEF SetMaintenance
<1>13. CASE UNCHANGED accessVars
  BY <1>7, <1>13 DEF accessVars
<1>14. QED
  BY <1>1, <1>3, <1>4, <1>5, <1>6, <1>8, <1>9, <1>10, <1>11, <1>12, <1>13
     DEF KeysNext, KeyStep, WorldStep

-------------------------------------------------------------------------------

(* Revoking rows activates none.                                           *)
LEMMA RevokeKeeps ==
  ASSUME KeysInv, NEW rows \in SUBSET keys, RevokeRows(rows)
  PROVE  /\ keys' \subseteq [key : Keys, wallet : Wallets, revoked : BOOLEAN]
         /\ IsFiniteSet(keys')
         /\ ActiveKeysBounded'
<1> DEFINE ended == {[k EXCEPT !.revoked = TRUE] : k \in rows}
<1>1. keys' = (keys \ rows) \cup ended
  BY DEF RevokeRows
<1>2. \A k \in rows : /\ [k EXCEPT !.revoked = TRUE]
                           \in [key : Keys, wallet : Wallets, revoked : BOOLEAN]
                      /\ [k EXCEPT !.revoked = TRUE].revoked = TRUE
  BY DEF KeysInv
<1>3. IsFiniteSet(keys')
  <2>1. IsFiniteSet(keys \ rows) /\ IsFiniteSet(rows)
    BY FS_Subset DEF KeysInv
  <2>2. IsFiniteSet(ended)
    <3> DEFINE end == [k \in rows |-> [k EXCEPT !.revoked = TRUE]]
    <3>1. end \in Surjection(rows, ended)
      BY DEF Surjection
    <3>2. QED
      BY <2>1, <3>1, FS_Surjection
  <2>3. QED
    BY <1>1, <2>1, <2>2, FS_Union
<1>4. ASSUME NEW w \in Wallets
      PROVE  Cardinality(ActiveKeys(w)') <= MaxActiveKeys
  <2>1. ActiveKeys(w)' \subseteq ActiveKeys(w) /\ IsFiniteSet(ActiveKeys(w))
    BY <1>1, <1>2, FS_Subset DEF ActiveKeys, KeysInv
  <2>2. /\ Cardinality(ActiveKeys(w)') <= Cardinality(ActiveKeys(w))
        /\ Cardinality(ActiveKeys(w)') \in Nat /\ Cardinality(ActiveKeys(w)) \in Nat
    BY <2>1, FS_Subset, FS_CardinalityType
  <2>3. Cardinality(ActiveKeys(w)) <= MaxActiveKeys
    BY DEF KeysInv, ActiveKeysBounded
  <2>4. QED
    BY <2>2, <2>3, KeyAssumption
<1>5. QED
  BY <1>1, <1>2, <1>3, <1>4 DEF ActiveKeysBounded, KeysInv

(* The count and the insert are one transaction, so every creation that    *)
(* waited is counted against those that overtook it.                       *)
LEMMA IssueKeeps ==
  ASSUME KeysInv, NEW m \in making, IssueKey(m)
  PROVE  /\ keys' \subseteq [key : Keys, wallet : Wallets, revoked : BOOLEAN]
         /\ IsFiniteSet(keys')
         /\ ActiveKeysBounded'
<1> DEFINE new == [key |-> m.key, wallet |-> m.wallet, revoked |-> FALSE]
<1>1. keys' = keys \cup {new} /\ Cardinality(ActiveKeys(m.wallet)) < MaxActiveKeys
  BY DEF IssueKey
<1>2. new \in [key : Keys, wallet : Wallets, revoked : BOOLEAN]
  BY DEF KeysInv
<1>3. IsFiniteSet(keys')
  BY <1>1, OneMore DEF KeysInv
<1>4. ASSUME NEW w \in Wallets
      PROVE  Cardinality(ActiveKeys(w)') <= MaxActiveKeys
  <2>1. IsFiniteSet(ActiveKeys(w))
    BY FS_Subset DEF ActiveKeys, KeysInv
  <2>2. CASE w = m.wallet
    <3>1. /\ IsFiniteSet(ActiveKeys(w) \cup {new})
          /\ Cardinality(ActiveKeys(w)) \in Nat
          /\ Cardinality(ActiveKeys(w) \cup {new}) \in Nat
          /\ Cardinality(ActiveKeys(w) \cup {new}) <= Cardinality(ActiveKeys(w)) + 1
      BY <2>1, OneMore
    <3>2. ActiveKeys(w)' \subseteq ActiveKeys(w) \cup {new}
      BY <1>1 DEF ActiveKeys
    <3>3. /\ Cardinality(ActiveKeys(w)') <= Cardinality(ActiveKeys(w) \cup {new})
          /\ Cardinality(ActiveKeys(w)') \in Nat
      BY <3>1, <3>2, FS_Subset, FS_CardinalityType
    <3>4. QED
      BY <1>1, <2>2, <3>1, <3>3, KeyAssumption
  <2>3. CASE w # m.wallet
    <3>1. ActiveKeys(w)' = ActiveKeys(w)
      BY <1>1, <2>3 DEF ActiveKeys
    <3>2. QED
      BY <3>1 DEF KeysInv, ActiveKeysBounded
  <2>4. QED
    BY <2>2, <2>3
<1>5. QED
  BY <1>1, <1>2, <1>3, <1>4 DEF ActiveKeysBounded, KeysInv

LEMMA KeysStepKeeps == KeysInv /\ [KeysNext]_accessVars => KeysInv'
<1> SUFFICES ASSUME KeysInv, [KeysNext]_accessVars PROVE KeysInv'
  OBVIOUS
<1> DEFINE Rows == /\ keys' \subseteq [key : Keys, wallet : Wallets, revoked : BOOLEAN]
                   /\ IsFiniteSet(keys')
                   /\ ActiveKeysBounded'
           Rest == /\ making' \subseteq [key : Keys, wallet : Wallets,
                                         answer : {"pending", "yes", "no"}]
                   /\ holders' \subseteq Wallets /\ disabled' \subseteq Wallets
                   /\ maintenance' \in BOOLEAN
                   /\ revocations' \in [Wallets -> Nat]
<1>1. SignInInv'
  BY SignInUndisturbed
<1>2. ASSUME keys' = keys PROVE Rows
  BY <1>2 DEF KeysInv, ActiveKeysBounded, ActiveKeys
<1>3. ASSUME UNCHANGED <<making, desk, revocations>> PROVE Rest
  BY <1>3 DEF KeysInv, desk
<1>4. sessions \subseteq [token : Tokens, wallet : Wallets, expires : Nat]
  BY DEF KeysInv, SignInInv, CredentialsInv
<1>5. ASSUME (SignInStep \/ Tick) /\ UNCHANGED keyVars PROVE Rows /\ Rest
  BY <1>2, <1>3, <1>5 DEF keyVars
<1>6. ASSUME NEW s \in sessions, NEW k \in Keys,
             (\E c \in Clients : RequestMemberKey(c, s, k)) \/ RequestKey(s, k)
      PROVE  Rows /\ Rest
  BY <1>2, <1>4, <1>6 DEF RequestMemberKey, RequestKey, Begin, KeysInv, desk
<1>7. ASSUME NEW c \in Clients, MemberKeyDenied(c) \/ TooManyKeyRequests(c)
      PROVE  Rows /\ Rest
  BY <1>2, <1>3, <1>7 DEF MemberKeyDenied, TooManyKeyRequests, keyVars
<1>8. ASSUME NEW m \in making, ReadHoldings(m) PROVE Rows /\ Rest
  <2>1. PICK answer \in {"yes", "no"} :
          making' = (making \ {m}) \cup {[m EXCEPT !.answer = answer]}
    BY <1>8 DEF ReadHoldings
  <2>2. [m EXCEPT !.answer = answer]
          \in [key : Keys, wallet : Wallets, answer : {"pending", "yes", "no"}]
    BY <2>1 DEF KeysInv
  <2>3. QED
    BY <1>2, <1>8, <2>1, <2>2 DEF ReadHoldings, KeysInv, desk
<1>9. ASSUME NEW m \in making, IssueKey(m) PROVE Rows /\ Rest
  <2>1. Rows
    BY <1>9, IssueKeeps
  <2>2. Rest
    BY <1>9 DEF IssueKey, KeysInv, desk
  <2>3. QED
    BY <2>1, <2>2
<1>10. ASSUME NEW m \in making, DenyKey(m) PROVE Rows /\ Rest
  BY <1>2, <1>10 DEF DenyKey, KeysInv, desk
<1>11. ASSUME NEW k \in keys, OperatorRevokesKey(k) \/ (\E s \in sessions : DeleteKey(s, k))
       PROVE  Rows /\ Rest
  <2>1. RevokeRows({k}) /\ UNCHANGED <<making, desk, revocations>>
    BY <1>11 DEF OperatorRevokesKey, DeleteKey
  <2>2. QED
    BY <1>3, <2>1, RevokeKeeps
<1>12. ASSUME NEW c \in Clients, NEW s \in sessions, RevokeAllKeys(c, s) PROVE Rows /\ Rest
  <2>1. /\ RevokeRows(ActiveKeys(s.wallet)) /\ UNCHANGED <<making, desk>>
        /\ revocations' = [revocations EXCEPT ![s.wallet] = @ + Cardinality(ActiveKeys(s.wallet))]
    BY <1>12 DEF RevokeAllKeys
  <2>2. ActiveKeys(s.wallet) \in SUBSET keys
    BY DEF ActiveKeys
  <2>3. Rows
    BY <2>1, <2>2, RevokeKeeps
  <2>4. Cardinality(ActiveKeys(s.wallet)) \in Nat
    BY <2>2, FS_Subset, FS_CardinalityType DEF KeysInv
  <2>5. revocations' \in [Wallets -> Nat]
    BY <1>4, <2>1, <2>4 DEF KeysInv
  <2>6. QED
    BY <2>1, <2>3, <2>5 DEF KeysInv, desk
<1>13. ASSUME NEW w \in Wallets, SetDisabled(w) \/ Trade(w) PROVE Rows /\ Rest
  BY <1>2, <1>13 DEF SetDisabled, Trade, KeysInv
<1>14. ASSUME SetMaintenance PROVE Rows /\ Rest
  BY <1>2, <1>14 DEF SetMaintenance, KeysInv
<1>15. ASSUME RestartAll PROVE Rows /\ Rest
  BY <1>2, <1>15 DEF RestartAll, KeysInv, desk
<1>16. ASSUME UNCHANGED accessVars PROVE Rows /\ Rest
  BY <1>2, <1>3, <1>16 DEF accessVars, keyVars
<1>17. Rows /\ Rest
  BY <1>5, <1>6, <1>7, <1>8, <1>9, <1>10, <1>11, <1>12, <1>13, <1>14, <1>15, <1>16
     DEF KeysNext, KeyStep, WorldStep
<1>18. QED
  BY <1>1, <1>17 DEF KeysInv

LEMMA KeysStart == KeysInit => KeysInv
<1> SUFFICES ASSUME KeysInit PROVE KeysInv
  OBVIOUS
<1>1. SignInInv
  BY SignInStarts DEF KeysInit
<1>2. IsFiniteSet(keys)
  BY FS_EmptySet DEF KeysInit
<1>3. \A w \in Wallets : Cardinality(ActiveKeys(w)) <= MaxActiveKeys
  <2>1. \A w \in Wallets : ActiveKeys(w) = {}
    BY DEF ActiveKeys, KeysInit
  <2>2. QED
    BY <2>1, FS_EmptySet, KeyAssumption
<1>4. QED
  BY <1>1, <1>2, <1>3 DEF KeysInit, KeysInv, ActiveKeysBounded

(* The invariant is inductive over the whole system.                       *)
THEOREM KeysInvariance == KeysSpec => []KeysInv
BY KeysStart, KeysStepKeeps, PTL DEF KeysSpec

-------------------------------------------------------------------------------

(* Every table, of sign-in and of keys, only ever holds rows of its        *)
(* schema, and a creation waits with one of three answers.                 *)
THEOREM KeysTyped == KeysSpec => []KeysTypeOK
<1>1. KeysInv => KeysTypeOK
  BY DEF KeysInv, SignInInv, HitsInv, CredentialsInv, SignInTypeOK, KeysTypeOK
<1>2. QED
  BY <1>1, KeysInvariance, PTL

(* However many creations wait for the chain together, a wallet never has  *)
(* more than the maximum of active keys (issue_key).                       *)
THEOREM KeyLimitHolds == KeysSpec => []ActiveKeysBounded
<1>1. KeysInv => ActiveKeysBounded
  BY DEF KeysInv
<1>2. QED
  BY <1>1, KeysInvariance, PTL

(* Key requests share the throttle and its housekeeping with sign-in, and  *)
(* still no challenge signs in twice and no window overflows.              *)
THEOREM SignInSurvivesKeys == KeysSpec => [](SignInsAreOneTime /\ RateWindowKept)
<1>1. KeysInv => SignInsAreOneTime /\ RateWindowKept
  BY DEF KeysInv, SignInInv, HitsInv, CredentialsInv
<1>2. QED
  BY <1>1, KeysInvariance, PTL
===============================================================================
