---------------------------- MODULE AccessProofs ----------------------------
(***************************************************************************)
(* Proofs about the services that let requests in: sessions and refresh     *)
(* tokens, recovery codes, magic links, DID challenges, Telegram codes,     *)
(* idempotency keys, nonces and signing secrets.  A service moves only by   *)
(* its own steps, so each invariant is proved over those.                   *)
(***************************************************************************)
EXTENDS MCServices, FiniteSetTheorems, TLAPS

\* An instance counts as this module does.
LEMMA SameCount ==
  \A S : No!Cardinality(S) = Cardinality(S) /\ Re!Cardinality(S) = Cardinality(S)
  BY DEF No!Cardinality, Re!Cardinality, Cardinality

(***************************************************************************)
(* Sessions                                                                *)
(***************************************************************************)
LEMMA SessionsMove == [Next]_vars => Se!SessionsNext \/ UNCHANGED sessionsState
  BY DEF Next, Frame, vars

\* Tokens are numbers up to the last one issued, and only that one is unused.
TokensInv ==
  /\ issued \in Nat \ {0} /\ current = issued
  /\ consumed \subseteq 0..issued /\ current \notin consumed
  /\ presented \in [Rotations -> Nat] /\ seenJti \in [Rotations -> Nat]
  /\ \A r \in Rotations : presented[r] <= issued /\ seenJti[r] <= issued

\* Where a rotation may be, given how it began and what it has read.
RotationInv(r) ==
  /\ rotation[r] = "reused" \/ rotation[r] = "cache" => revoked
  /\ r \in late => rotation[r] = "denied"
  /\ r \in stale => /\ rotation[r] \notin { "idle", "commit", "ok" }
                    /\ presented[r] < current
                    /\ rotation[r] = "history" => presented[r] < seenJti[r]

SessionsInv ==
  /\ TokensInv
  /\ rotation \in [Rotations -> { "idle", "denied", "session", "history", "commit", "ok", "reuse", "cache", "reused" }]
  /\ revoked \in BOOLEAN /\ late \subseteq Rotations /\ stale \subseteq Rotations
  /\ \A r \in Rotations : RotationInv(r)

\* The invariant holds at the start and through every step of the service.
LEMMA SessionsFirst == Init => SessionsInv
<1> SUFFICES ASSUME Se!SessionsInit PROVE SessionsInv
  BY DEF Init
<1>1. TokensInv
  BY DEF Se!SessionsInit, TokensInv
<1>2. \A r \in Rotations : RotationInv(r)
  BY DEF Se!SessionsInit, RotationInv
<1> QED
  BY <1>1, <1>2 DEF Se!SessionsInit, SessionsInv

LEMMA SessionsStep == SessionsInv /\ [Next]_vars => SessionsInv'
<1> SUFFICES ASSUME SessionsInv, [Next]_vars PROVE SessionsInv'
  OBVIOUS
<1>1. CASE UNCHANGED sessionsState
  BY <1>1 DEF SessionsInv, TokensInv, RotationInv, sessionsState
<1>2. ASSUME NEW r \in Rotations, NEW t \in 1..MaxToken, Se!CheckFamily(r, t) PROVE SessionsInv'
  <2>1. TokensInv'
    BY <1>2 DEF SessionsInv, TokensInv, Se!CheckFamily, Se!familyVars
  <2>2. \A q \in Rotations : RotationInv(q)'
    BY <1>2 DEF SessionsInv, TokensInv, RotationInv, Se!CheckFamily, Se!familyVars, Se!Go
  <2> QED
    BY <1>2, <2>1, <2>2 DEF SessionsInv, Se!CheckFamily, Se!familyVars, Se!Go
<1>3. ASSUME NEW r \in Rotations, Se!ReadSession(r) \/ Se!ReadHistory(r) PROVE SessionsInv'
  <2>1. TokensInv'
    <3>1. UNCHANGED << issued, current, consumed, presented >>
      BY <1>3 DEF Se!ReadSession, Se!ReadHistory, Se!familyVars
    <3>2. seenJti' = [seenJti EXCEPT ![r] = current] \/ seenJti' = seenJti
      BY <1>3 DEF Se!ReadSession, Se!ReadHistory
    <3> QED
      BY <3>1, <3>2 DEF SessionsInv, TokensInv
  <2>2. \A q \in Rotations : RotationInv(q)'
    BY <1>3 DEF SessionsInv, TokensInv, RotationInv, Se!ReadSession, Se!ReadHistory, Se!familyVars, Se!Go
  <2> QED
    BY <1>3, <2>1, <2>2 DEF SessionsInv, Se!ReadSession, Se!ReadHistory, Se!familyVars, Se!Go
<1>4. ASSUME NEW r \in Rotations, Se!Commit(r) PROVE SessionsInv'
  <2>1. TokensInv'
    <3>1. /\ issued \in Nat /\ issued' = issued + 1 /\ current' = issued + 1
          /\ presented[r] \in 0..issued /\ consumed \subseteq 0..issued
      BY <1>4 DEF SessionsInv, TokensInv, Se!Commit
    <3>2. consumed' \subseteq 0..issued' /\ current' \notin consumed'
      <4>1. consumed' = consumed \cup {presented[r]}
        BY <1>4 DEF Se!Commit
      <4>2. consumed' \subseteq 0..issued
        BY <3>1, <4>1
      <4>3. issued + 1 \notin 0..issued /\ 0..issued \subseteq 0..(issued + 1)
        BY <3>1
      <4> QED
        BY <3>1, <4>2, <4>3
    <3>3. UNCHANGED << presented, seenJti >>
      BY <1>4 DEF Se!Commit
    <3> QED
      BY <3>1, <3>2, <3>3 DEF SessionsInv, TokensInv
  <2>2. \A q \in Rotations : RotationInv(q)'
    BY <1>4 DEF SessionsInv, TokensInv, RotationInv, Se!Commit, Se!Go
  <2> QED
    BY <1>4, <2>1, <2>2 DEF SessionsInv, Se!Commit, Se!Go
<1>5. ASSUME NEW r \in Rotations, Se!RevokeReused(r) \/ Se!CacheReused(r) PROVE SessionsInv'
  <2>1. TokensInv'
    BY <1>5 DEF SessionsInv, TokensInv, Se!RevokeReused, Se!CacheReused
  <2>2. \A q \in Rotations : RotationInv(q)'
    BY <1>5 DEF SessionsInv, TokensInv, RotationInv, Se!RevokeReused, Se!CacheReused, Se!Go
  <2> QED
    BY <1>5, <2>1, <2>2 DEF SessionsInv, Se!RevokeReused, Se!CacheReused, Se!Go
<1>6. CASE Se!Logout
  BY <1>6 DEF SessionsInv, TokensInv, RotationInv, Se!Logout, Se!requestVars
<1> QED
  BY <1>1, <1>2, <1>3, <1>4, <1>5, <1>6, SessionsMove DEF Se!SessionsNext, Se!Rotate

\* A request that begins with a superseded token or after a revocation gets no
\* tokens, and the current token is unused, for any number of requests beside
\* each other (rotateRefreshToken and revokeFamily).
THEOREM SessionsAreSafe == Spec => []SessionsSafe
<1>1. SessionsInv => SessionsSafe
  BY DEF SessionsInv, TokensInv, RotationInv, SessionsSafe, Se!StaleTokenRefused, Se!CurrentUnused
<1> QED
  BY <1>1, SessionsFirst, SessionsStep, PTL DEF Spec

(***************************************************************************)
(* Idempotency keys                                                        *)
(***************************************************************************)
LEMMA RequestsMove == [Next]_vars => Rq!RequestsNext \/ UNCHANGED requestsState
  BY DEF Next, Frame, vars

Running(c) == call[c] \in { "handler", "store" }

\* What is cached, and who succeeded.
AnswersInv ==
  /\ call \in [Calls -> { "idle", "replayed", "handler", "store", "sent", "error" }]
  /\ reply \in [Calls -> Calls \cup {"none"}]
  /\ executed \subseteq Calls /\ excused \in BOOLEAN
  /\ answer # "none" => answer \in executed
  /\ \A c \in executed : call[c] \in { "store", "sent" }
  /\ \A c \in Calls : call[c] = "store" => c \in executed

\* While the cache answers, a request that runs alone found no answer, finds none
\* until it has stored its own, and nobody has succeeded before it.
AloneInv ==
  /\ \A c \in Calls : Running(c) => c \in keyed
  /\ \A c \in Calls : call[c] = "sent" => answer # "none"
  /\ \A c \in Calls \ crowd : Running(c) => answer = "none" /\ \A d \in Calls \ {c} : ~Running(d)
  /\ \A c, d \in executed \ crowd : c = d

RequestsInv ==
  /\ AnswersInv
  /\ \A c \in Calls : call[c] = "replayed" => reply[c] \in executed \ {c}
  /\ ~excused => AloneInv

LEMMA RequestsFirst == Init => RequestsInv
<1> SUFFICES ASSUME Rq!RequestsInit PROVE RequestsInv
  BY DEF Init
<1>1. AnswersInv
  BY DEF Rq!RequestsInit, Rq!NoCall, AnswersInv
<1>2. AloneInv
  BY DEF Rq!RequestsInit, AloneInv, Running
<1> QED
  BY <1>1, <1>2 DEF Rq!RequestsInit, RequestsInv

LEMMA RequestsStep == RequestsInv /\ [Next]_vars => RequestsInv'
<1> SUFFICES ASSUME RequestsInv, [Next]_vars PROVE RequestsInv'
  OBVIOUS
<1>0. "none" \notin Calls
  BY AccessOK
<1>1. CASE UNCHANGED requestsState
  BY <1>1 DEF RequestsInv, AnswersInv, AloneInv, Running, requestsState
<1>2. ASSUME NEW c \in Calls, Rq!LookUp(c) PROVE RequestsInv'
  <2> USE <1>2 DEF Rq!LookUp, Rq!CallGoto, Rq!NoCall
  <2>1. AnswersInv'
    <3>1. /\ call' = [call EXCEPT ![c] = "replayed"] \/ call' = [call EXCEPT ![c] = "handler"]
          /\ call[c] = "idle" /\ UNCHANGED << answer, executed >> /\ excused' \in {excused, TRUE}
      OBVIOUS
    <3>2. reply' \in [Calls -> Calls \cup {"none"}]
      BY DEF RequestsInv, AnswersInv
    <3> HIDE <1>2 DEF Rq!LookUp, Rq!CallGoto, Rq!NoCall
    <3>3. AnswersInv
      BY DEF RequestsInv
    <3>4. /\ call' \in [Calls -> { "idle", "replayed", "handler", "store", "sent", "error" }]
          /\ \A d \in Calls : d # c => call'[d] = call[d]
          /\ call'[c] \in { "replayed", "handler" }
      BY <3>1, <3>3 DEF AnswersInv
    <3>5. c \notin executed
      BY <3>1, <3>3 DEF AnswersInv
    <3> QED
      BY <3>1, <3>2, <3>3, <3>4, <3>5 DEF AnswersInv
  <2>2. \A d \in Calls : call'[d] = "replayed" => reply'[d] \in executed' \ {d}
    BY DEF RequestsInv, AnswersInv
  <2>3. ASSUME ~excused' PROVE AloneInv'
    BY <2>3 DEF RequestsInv, AnswersInv, AloneInv, Running, Rq!Others
  <2> QED
    BY <2>1, <2>2, <2>3 DEF RequestsInv
<1>3. ASSUME NEW c \in Calls, Rq!Handler(c) PROVE RequestsInv'
  <2> USE <1>3 DEF Rq!Handler, Rq!CallGoto
  <2>1. AnswersInv'
    BY DEF RequestsInv, AnswersInv
  <2>2. \A d \in Calls : call'[d] = "replayed" => reply'[d] \in executed' \ {d}
    BY DEF RequestsInv, AnswersInv
  <2>3. ASSUME ~excused' PROVE AloneInv'
    BY <2>3 DEF RequestsInv, AnswersInv, AloneInv, Running
  <2> QED
    BY <2>1, <2>2, <2>3 DEF RequestsInv
<1>4. ASSUME NEW c \in Calls, Rq!Store(c) PROVE RequestsInv'
  <2> USE <1>4 DEF Rq!Store, Rq!CallGoto
  <2>1. AnswersInv'
    BY DEF RequestsInv, AnswersInv
  <2>2. \A d \in Calls : call'[d] = "replayed" => reply'[d] \in executed' \ {d}
    BY DEF RequestsInv, AnswersInv
  <2>3. ASSUME ~excused' PROVE AloneInv'
    BY <1>0, <2>3 DEF RequestsInv, AnswersInv, AloneInv, Running
  <2> QED
    BY <2>1, <2>2, <2>3 DEF RequestsInv
<1>5. CASE Rq!AnswerExpires
  BY <1>5 DEF RequestsInv, AnswersInv, Rq!AnswerExpires, Rq!NoCall
<1> QED
  BY <1>1, <1>2, <1>3, <1>4, <1>5, RequestsMove DEF Rq!RequestsNext

(***************************************************************************)
(* Nonces                                                                  *)
(***************************************************************************)
LEMMA NoncesMove == [Next]_vars => No!NoncesNext \/ UNCHANGED noncesState
  BY DEF Next, Frame, vars

\* A nonce that was stored outlives every copy that may still be accepted.
Outlives(until) == until # 0 => until >= Stamp - Drift + NonceTTL
CopyInv(c) ==
  copy[c] = "set" => /\ server[c] \in Servers
                     /\ Stamp - Drift <= since[c] /\ since[c] <= Stamp + Drift
                     /\ since[c] <= now /\ now <= since[c] + RoundTrip

Accepted == { c \in Copies : copy[c] = "accepted" }
Local == { s \in Servers : localUntil[s] # 0 }

NoncesInv ==
  /\ now \in Nat \ {0} /\ redisUntil \in Nat /\ localUntil \in [Servers -> Nat]
  /\ copy \in [Copies -> { "idle", "set", "accepted", "rejected" }]
  /\ since \in [Copies -> Nat] /\ DOMAIN server = Copies /\ outage \subseteq Servers
  /\ Outlives(redisUntil) /\ \A s \in Servers : Outlives(localUntil[s])
  /\ \A c \in Copies : CopyInv(c)
  /\ Local \subseteq outage
  /\ Cardinality(Accepted) <= Cardinality(Local) + (IF redisUntil = 0 THEN 0 ELSE 1)

LEMMA NoncesFirst == Init => NoncesInv
<1> SUFFICES ASSUME No!NoncesInit PROVE NoncesInv
  BY DEF Init
<1> USE DEF No!NoncesInit
<1>1. Accepted = {} /\ Local = {}
  BY DEF Accepted, Local
<1>2. Cardinality(Accepted) = 0 /\ Cardinality(Local) = 0
  BY <1>1, FS_EmptySet
<1>3. \A c \in Copies : CopyInv(c)
  BY DEF CopyInv
<1>4. Outlives(redisUntil) /\ \A s \in Servers : Outlives(localUntil[s])
  BY DEF Outlives
<1> QED
  BY <1>1, <1>2, <1>3, <1>4 DEF NoncesInv

\* A copy that may still be accepted comes before any stored nonce expires.
LEMMA InTime ==
  ASSUME NoncesInv, NEW c \in Copies, copy[c] = "set", NEW until \in Nat, Outlives(until), ~(until > now)
  PROVE  until = 0 /\ Stamp - Drift <= now
<1>1. /\ { Drift, NonceTTL, RoundTrip, Stamp } \subseteq Nat /\ NonceTTL > 2 * Drift + RoundTrip
      /\ now \in Nat /\ since[c] \in Nat
  BY NoncesOK DEF NoncesInv
<1>2. Stamp - Drift <= since[c] /\ since[c] <= Stamp + Drift /\ since[c] <= now /\ now <= since[c] + RoundTrip
  BY DEF NoncesInv, CopyInv
<1>3. now <= Stamp + Drift + RoundTrip /\ Stamp - Drift <= now
  BY <1>1, <1>2
<1> QED
  BY <1>1, <1>3 DEF Outlives

\* The stores are finite, and a store or a copy more is one more.
LEMMA OneMore == ASSUME NEW S, IsFiniteSet(S), NEW x
                 PROVE  Cardinality(S \cup {x}) <= Cardinality(S) + 1 /\ Cardinality(S) \in Nat
                        /\ (x \notin S => Cardinality(S \cup {x}) = Cardinality(S) + 1)
<1>1. Cardinality(S) \in Nat
  BY FS_CardinalityType
<1>2. CASE x \in S
  <2>0. S \cup {x} = S
    BY <1>2
  <2>1. Cardinality(S \cup {x}) = Cardinality(S)
    BY <2>0
  <2> QED
    BY <1>1, <1>2, <2>1
<1>3. CASE x \notin S
  BY <1>1, <1>3, FS_AddElement
<1> QED
  BY <1>1, <1>2, <1>3

LEMMA NoncesStep == NoncesInv /\ [Next]_vars => NoncesInv'
<1> SUFFICES ASSUME NoncesInv, [Next]_vars PROVE NoncesInv'
  OBVIOUS
<1>0. /\ { Drift, NonceTTL, RoundTrip, Stamp, Horizon } \subseteq Nat /\ now \in Nat \ {0}
      /\ \A c \in Copies : since[c] \in Nat
  BY NoncesOK DEF NoncesInv
<1>a. IsFiniteSet(Accepted) /\ IsFiniteSet(Local) /\ Cardinality(Accepted) \in Nat /\ Cardinality(Local) \in Nat
  BY NoncesOK, FS_Subset, FS_CardinalityType DEF Accepted, Local
<1>1. CASE UNCHANGED noncesState
  <2>1. Accepted' = Accepted /\ Local' = Local
    BY <1>1 DEF Accepted, Local, noncesState
  <2> QED
    BY <1>1, <2>1 DEF NoncesInv, Outlives, CopyInv, noncesState
<1>2. ASSUME NEW c \in Copies, NEW s \in Servers, No!CheckDrift(c, s) PROVE NoncesInv'
  <2> USE <1>2 DEF No!CheckDrift
  <2>1. Accepted' = Accepted /\ Local' = Local
    BY DEF NoncesInv, Accepted, Local
  <2>2. ASSUME NEW d \in Copies PROVE CopyInv(d)'
    <3>1. CASE d = c
      BY <1>0, <3>1 DEF NoncesInv, CopyInv
    <3>2. CASE d # c
      BY <3>2 DEF NoncesInv, CopyInv
    <3> QED
      BY <3>1, <3>2
  <2>3. Outlives(redisUntil)' /\ \A q \in Servers : Outlives(localUntil[q])'
    BY DEF NoncesInv, Outlives
  <2>4. /\ copy' \in [Copies -> { "idle", "set", "accepted", "rejected" }]
        /\ since' \in [Copies -> Nat] /\ DOMAIN server' = Copies
    BY <1>0 DEF NoncesInv
  <2> QED
    BY <2>1, <2>2, <2>3, <2>4 DEF NoncesInv
<1>3. ASSUME NEW c \in Copies, No!StoreNonce(c) PROVE NoncesInv'
  <2>0. copy[c] = "set" /\ UNCHANGED << now, localUntil, since, server, outage >>
    BY <1>3 DEF No!StoreNonce
  <2>1. Local' = Local /\ \A q \in Servers : Outlives(localUntil[q])'
    BY <2>0 DEF Local, Outlives, NoncesInv
  <2>2. CASE redisUntil > now /\ copy' = [copy EXCEPT ![c] = "rejected"] /\ UNCHANGED redisUntil
    <3>1. Accepted' = Accepted
      BY <2>0, <2>2 DEF NoncesInv, Accepted
    <3> QED
      BY <2>0, <2>1, <2>2, <3>1 DEF NoncesInv, CopyInv, Outlives
  <2>3. CASE ~(redisUntil > now) /\ copy' = [copy EXCEPT ![c] = "accepted"] /\ redisUntil' = now + NonceTTL
    <3>1. redisUntil = 0 /\ Stamp - Drift <= now
      BY <2>0, <2>3, InTime DEF NoncesInv
    <3>2. Accepted' = Accepted \cup {c} /\ c \notin Accepted
      BY <2>0, <2>3 DEF NoncesInv, Accepted
    <3>3. Cardinality(Accepted') = Cardinality(Accepted) + 1
      BY <1>a, <3>2, OneMore
    <3>4. redisUntil' \in Nat \ {0} /\ Outlives(redisUntil)'
      BY <1>0, <2>3, <3>1 DEF Outlives
    <3>5. Cardinality(Accepted') \in Nat
      BY <1>a, <3>3
    <3>6. Cardinality(Accepted)' <= Cardinality(Local)' + (IF redisUntil' = 0 THEN 0 ELSE 1)
      BY <1>a, <2>1, <3>1, <3>3, <3>4, <3>5 DEF NoncesInv
    <3>7. \A d \in Copies : CopyInv(d)'
      BY <2>0, <2>3 DEF NoncesInv, CopyInv
    <3> QED
      BY <2>0, <2>1, <2>3, <3>4, <3>6, <3>7 DEF NoncesInv
  <2> QED
    BY <1>3, <2>2, <2>3 DEF No!StoreNonce
<1>4. ASSUME NEW c \in Copies, No!StoreDegraded(c) PROVE NoncesInv'
  <2>0. /\ copy[c] = "set" /\ UNCHANGED << now, redisUntil, since, server >>
        /\ outage' = outage \cup {server[c]} /\ server[c] \in Servers
    BY <1>4 DEF No!StoreDegraded, NoncesInv, CopyInv
  <2>1. Outlives(redisUntil)'
    BY <2>0 DEF Outlives, NoncesInv
  <2>2. CASE copy' = [copy EXCEPT ![c] = "rejected"] /\ UNCHANGED localUntil
    <3>1. Accepted' = Accepted /\ Local' = Local
      BY <2>0, <2>2 DEF NoncesInv, Accepted, Local
    <3> QED
      BY <2>0, <2>1, <2>2, <3>1 DEF NoncesInv, CopyInv, Outlives
  <2>3. CASE /\ ~(localUntil[server[c]] > now) /\ copy' = [copy EXCEPT ![c] = "accepted"]
             /\ localUntil' = [localUntil EXCEPT ![server[c]] = now + NonceTTL]
    <3>1. localUntil[server[c]] = 0 /\ Stamp - Drift <= now
      BY <2>0, <2>3, InTime DEF NoncesInv
    <3>2. Accepted' = Accepted \cup {c} /\ c \notin Accepted
      BY <2>0, <2>3 DEF NoncesInv, Accepted
    <3>3. now + NonceTTL \in Nat \ {0} /\ Outlives(now + NonceTTL)
      BY <1>0, <3>1 DEF Outlives
    <3>4. Local' = Local \cup {server[c]} /\ server[c] \notin Local
      BY <2>0, <2>3, <3>1, <3>3 DEF NoncesInv, Local
    <3>5. Cardinality(Accepted') = Cardinality(Accepted) + 1 /\ Cardinality(Local') = Cardinality(Local) + 1
      BY <1>a, <3>2, <3>4, OneMore
    <3>6. Cardinality(Accepted)' <= Cardinality(Local)' + (IF redisUntil' = 0 THEN 0 ELSE 1)
      BY <1>a, <2>0, <3>5 DEF NoncesInv
    <3>7. \A d \in Copies : CopyInv(d)'
      BY <2>0, <2>3 DEF NoncesInv, CopyInv
    <3>8. localUntil' \in [Servers -> Nat] /\ \A q \in Servers : Outlives(localUntil[q])'
      BY <2>0, <2>3, <3>3 DEF NoncesInv, Outlives
    <3>9. copy' \in [Copies -> { "idle", "set", "accepted", "rejected" }] /\ outage' \subseteq Servers /\ Local' \subseteq outage'
      BY <2>0, <2>3, <3>4 DEF NoncesInv
    <3> QED
      BY <2>0, <2>1, <3>6, <3>7, <3>8, <3>9 DEF NoncesInv
  <2> QED
    BY <1>4, <2>2, <2>3 DEF No!StoreDegraded
<1>5. CASE No!Tick
  <2>1. Accepted' = Accepted /\ Local' = Local /\ now' = now + 1
    BY <1>5 DEF Accepted, Local, No!Tick
  <2>2. ASSUME NEW c \in Copies PROVE CopyInv(c)'
    BY <1>0, <1>5, <2>1 DEF NoncesInv, CopyInv, No!Tick
  <2> QED
    BY <1>0, <1>5, <2>1, <2>2 DEF NoncesInv, Outlives, No!Tick
<1> QED
  BY <1>1, <1>2, <1>3, <1>4, <1>5, NoncesMove DEF No!NoncesNext

\* Requests of one key succeed once unless they overlapped or the cache failed,
\* what is replayed is the answer of a success, and a nonce is accepted once per
\* store, for any number of requests, copies and processes (the idempotency hooks
\* and the replay defence; the nonce's life exceeds twice the drift tolerance).
THEOREM RequestsHaveEffectOnce == Spec => []RequestsOnce
<1>1. RequestsInv => Rq!SecondNeedsOverlap /\ Rq!ReplayIsGenuine
  BY DEF RequestsInv, AloneInv, Rq!SecondNeedsOverlap, Rq!ReplayIsGenuine
<1>2. NoncesInv => No!AcceptedOncePerStore
  <2> SUFFICES ASSUME NoncesInv PROVE Cardinality(Accepted) <= 1 + Cardinality(outage)
    BY SameCount DEF No!AcceptedOncePerStore, Accepted
  <2>1. IsFiniteSet(outage) /\ IsFiniteSet(Accepted)
    BY NoncesOK, FS_Subset DEF NoncesInv, Accepted
  <2>2. Cardinality(Local) <= Cardinality(outage) /\ IsFiniteSet(Local)
    BY <2>1, FS_Subset DEF NoncesInv
  <2>3. Cardinality(Local) \in Nat /\ Cardinality(outage) \in Nat /\ Cardinality(Accepted) \in Nat
    BY <2>1, <2>2, FS_CardinalityType
  <2> QED
    BY <2>2, <2>3 DEF NoncesInv
<1> QED
  BY <1>1, <1>2, RequestsFirst, RequestsStep, NoncesFirst, NoncesStep, PTL DEF Spec, RequestsOnce

(***************************************************************************)
(* Recovery codes                                                          *)
(***************************************************************************)
LEMMA RecoveryMove == [Next]_vars => Re!RecoveryNext \/ UNCHANGED recoveryState
  BY DEF Next, Frame, vars

\* A request that has matched a code and not yet recovered the account with it.
Holding(r, c) == recovery[r] \in { "consume", "reset" } /\ code[r] = c

\* A code two requests did not match at once is held by one of them, or was used,
\* or can be.
CodeInv(c) ==
  /\ \A r, q \in Recoveries : Holding(r, c) /\ Holding(q, c) => r = q
  /\ \A r \in Recoveries : Holding(r, c) => wins[c] = 0
  /\ c \in unused => wins[c] = 0 /\ \A r \in Recoveries : recovery[r] = "reset" => code[r] # c
  /\ wins[c] <= 1

\* Requests that will count a wrong code on the counter w.
Readers(w) == { r \in Recoveries : recovery[r] = "read" /\ limit[r] = w }
CounterInv(w) == guesses[w] + Cardinality(Readers(w)) <= MaxGuesses + Cardinality(Recoveries) - 1

RecoveryInv ==
  /\ unused \subseteq Codes /\ window \in 1..MaxWindows
  /\ guesses \in [1..MaxWindows -> Nat] /\ wins \in [Codes -> Nat]
  /\ DOMAIN recovery = Recoveries /\ DOMAIN code = Recoveries
  /\ limit \in [Recoveries -> 1..MaxWindows]
  /\ \A r \in Recoveries : recovery[r] \in { "consume", "reset" } => code[r] \in Codes
  /\ \A c \in Codes \ crowded : CodeInv(c)
  /\ \A w \in 1..MaxWindows : CounterInv(w)

LEMMA RecoveryFirst == Init => RecoveryInv
<1> SUFFICES ASSUME Re!RecoveryInit PROVE RecoveryInv
  BY DEF Init
<1> USE DEF Re!RecoveryInit
<1>0. MaxGuesses \in Nat \ {0} /\ MaxWindows \in Nat \ {0} /\ Cardinality(Recoveries) \in Nat
  BY AccessOK, FS_CardinalityType
<1>1. ASSUME NEW w \in 1..MaxWindows PROVE CounterInv(w)
  <2>1. Readers(w) = {}
    BY DEF Readers
  <2>2. Cardinality(Readers(w)) = 0
    BY <2>1, FS_EmptySet
  <2> QED
    BY <1>0, <2>2 DEF CounterInv
<1>2. \A c \in Codes : CodeInv(c)
  BY DEF CodeInv, Holding
<1> QED
  BY <1>0, <1>1, <1>2 DEF RecoveryInv

\* The readers of a counter are finitely many, at most all requests.
LEMMA ReadersFacts ==
  ASSUME NEW w
  PROVE  /\ IsFiniteSet(Readers(w)) /\ Cardinality(Readers(w)) \in Nat
         /\ Cardinality(Readers(w)) <= Cardinality(Recoveries) /\ Cardinality(Recoveries) \in Nat
<1>1. IsFiniteSet(Recoveries) /\ Readers(w) \subseteq Recoveries
  BY AccessOK DEF Readers
<1> QED
  BY <1>1, FS_Subset, FS_CardinalityType

\* A counter keeps its bound when it is not counted on and has no new reader.
LEMMA CounterKeeps ==
  ASSUME NEW w, guesses[w] \in Nat, CounterInv(w), guesses'[w] = guesses[w], Readers(w)' \subseteq Readers(w)
  PROVE  CounterInv(w)'
<1>1. Cardinality(Readers(w)') <= Cardinality(Readers(w)) /\ Cardinality(Readers(w)') \in Nat
  BY ReadersFacts, FS_Subset, FS_CardinalityType
<1>2. MaxGuesses \in Nat
  BY AccessOK
<1> QED
  BY <1>1, <1>2, ReadersFacts DEF CounterInv

LEMMA RecoveryStep == RecoveryInv /\ [Next]_vars => RecoveryInv'
<1> SUFFICES ASSUME RecoveryInv, [Next]_vars PROVE RecoveryInv'
  OBVIOUS
<1>0. /\ MaxGuesses \in Nat \ {0} /\ MaxWindows \in Nat \ {0} /\ Cardinality(Recoveries) \in Nat
      /\ \A w \in 1..MaxWindows : guesses[w] \in Nat
  BY AccessOK, FS_CardinalityType DEF RecoveryInv
<1>a. ASSUME UNCHANGED << guesses, recovery, limit >> PROVE \A w \in 1..MaxWindows : CounterInv(w)'
  <2>1. \A w \in 1..MaxWindows : Readers(w)' = Readers(w)
    BY <1>a DEF Readers
  <2> QED
    BY <1>0, <1>a, <2>1, CounterKeeps DEF RecoveryInv
<1>b. ASSUME NEW r \in Recoveries, NEW l, l # "read", recovery' = [recovery EXCEPT ![r] = l], UNCHANGED << guesses, limit >>
      PROVE  \A w \in 1..MaxWindows : CounterInv(w)'
  <2>1. \A w \in 1..MaxWindows : Readers(w)' \subseteq Readers(w)
    BY <1>b DEF Readers, RecoveryInv
  <2> QED
    BY <1>0, <1>b, <2>1, CounterKeeps DEF RecoveryInv
<1>1. CASE UNCHANGED recoveryState
  <2>1. \A c \in Codes \ crowded : CodeInv(c)'
    BY <1>1 DEF RecoveryInv, CodeInv, Holding, recoveryState
  <2> QED
    BY <1>1, <1>a, <2>1 DEF RecoveryInv, recoveryState
<1>2. CASE Re!WindowExpires
  <2> USE <1>2 DEF Re!WindowExpires, Re!NewWindow, Re!accountVars
  <2>1. \A c \in Codes \ crowded : CodeInv(c)'
    BY DEF RecoveryInv, CodeInv, Holding
  <2>2. window' \in 1..MaxWindows
    BY <1>0 DEF RecoveryInv
  <2> QED
    BY <1>a, <2>1, <2>2 DEF RecoveryInv
<1>3. ASSUME NEW r \in Recoveries, NEW c \in Codes \cup { "wrong" }, Re!BeginRecovery(r, c) PROVE RecoveryInv'
  <2>0. /\ recovery[r] \notin { "read", "consume", "reset" }
        /\ code' = [code EXCEPT ![r] = c] /\ limit' = [limit EXCEPT ![r] = window]
        /\ \/ guesses[window] >= MaxGuesses /\ recovery' = [recovery EXCEPT ![r] = "limited"]
           \/ ~(guesses[window] >= MaxGuesses) /\ recovery' = [recovery EXCEPT ![r] = "read"]
        /\ UNCHANGED << unused, window, guesses, wins, crowded >>
    BY <1>3 DEF Re!BeginRecovery, Re!RStep, Re!accountVars, Re!limitVars
  <2>1. \A d \in Codes : \A q \in Recoveries : Holding(q, d)' = Holding(q, d)
    BY <2>0 DEF RecoveryInv, Holding
  <2>2. \A q \in Recoveries : (recovery'[q] = "reset") = (recovery[q] = "reset") /\ (recovery[q] = "reset" => code'[q] = code[q])
    BY <2>0 DEF RecoveryInv
  <2>3. \A d \in Codes \ crowded : CodeInv(d)'
    BY <2>0, <2>1, <2>2 DEF RecoveryInv, CodeInv
  <2>4. ASSUME NEW w \in 1..MaxWindows PROVE CounterInv(w)'
    <3>1. CASE w # window \/ guesses[window] >= MaxGuesses
      <4>1. Readers(w)' \subseteq Readers(w)
        BY <2>0, <3>1 DEF Readers, RecoveryInv
      <4> QED
        BY <1>0, <2>0, <4>1, CounterKeeps DEF RecoveryInv
    <3>2. CASE w = window /\ ~(guesses[window] >= MaxGuesses)
      <4>1. Cardinality(Readers(w)') <= Cardinality(Recoveries) /\ Cardinality(Readers(w)') \in Nat
        <5>1. Readers(w)' \subseteq Recoveries /\ IsFiniteSet(Recoveries)
          BY AccessOK DEF Readers
        <5> QED
          BY <5>1, FS_Subset, FS_CardinalityType
      <4>2. guesses'[w] \in Nat /\ guesses'[w] + 1 <= MaxGuesses
        BY <1>0, <2>0, <3>2
      <4> QED
        BY <1>0, <4>1, <4>2 DEF CounterInv
    <3> QED
      BY <3>1, <3>2
  <2>5. limit' \in [Recoveries -> 1..MaxWindows]
    BY <2>0 DEF RecoveryInv
  <2>6. \A q \in Recoveries : recovery'[q] \in { "consume", "reset" } => code'[q] \in Codes
    BY <2>0 DEF RecoveryInv
  <2> QED
    BY <2>0, <2>3, <2>4, <2>5, <2>6 DEF RecoveryInv
<1>4. ASSUME NEW r \in Recoveries, Re!ReadCodes(r) PROVE RecoveryInv'
  <2>0. recovery[r] = "read" /\ UNCHANGED << unused, mfaEnabled, code, limit, wins >>
    BY <1>4 DEF Re!ReadCodes, Re!accountVars
  <2>1. CASE /\ code[r] \in unused /\ recovery' = [recovery EXCEPT ![r] = "consume"] /\ Re!NewWindow /\ UNCHANGED guesses
             /\ crowded' = (IF \E q \in Recoveries : recovery[q] = "consume" /\ code[q] = code[r]
                              THEN crowded \cup {code[r]} ELSE crowded)
    <3>1. window' \in 1..MaxWindows
      BY <1>0, <2>1 DEF RecoveryInv, Re!NewWindow
    <3>2. ASSUME NEW c \in Codes \ crowded' PROVE CodeInv(c)'
      <4>0. c \in Codes \ crowded
        BY <2>1
      <4>1. CASE c # code[r]
        BY <2>0, <2>1, <4>0, <4>1 DEF RecoveryInv, CodeInv, Holding
      <4>2. CASE c = code[r]
        <5>1. c \notin crowded' => \A q \in Recoveries : recovery[q] = "consume" => code[q] # c
          BY <2>1, <4>2
        <5>2. wins[c] = 0 /\ \A q \in Recoveries : ~Holding(q, c)
          BY <2>1, <4>0, <4>2, <5>1 DEF RecoveryInv, CodeInv, Holding
        <5>3. \A q \in Recoveries : Holding(q, c)' => q = r
          BY <2>0, <2>1, <5>2 DEF RecoveryInv, Holding
        <5>4. \A q \in Recoveries : recovery'[q] = "reset" => code'[q] # c
          BY <2>0, <2>1, <5>2 DEF RecoveryInv, Holding
        <5> QED
          BY <2>0, <5>2, <5>3, <5>4 DEF CodeInv
      <4> QED
        BY <4>1, <4>2
    <3>3. \A q \in Recoveries : recovery'[q] \in { "consume", "reset" } => code'[q] \in Codes
      BY <2>0, <2>1 DEF RecoveryInv
    <3> QED
      BY <1>b, <2>0, <2>1, <3>1, <3>2, <3>3 DEF RecoveryInv
  <2>2. CASE /\ recovery' = [recovery EXCEPT ![r] = "failed"] /\ UNCHANGED << window, crowded >>
             /\ guesses' = [guesses EXCEPT ![limit[r]] = @ + 1]
    <3>1. \A c \in Codes \ crowded : CodeInv(c)'
      BY <2>0, <2>2 DEF RecoveryInv, CodeInv, Holding
    <3>2. limit[r] \in 1..MaxWindows /\ guesses' \in [1..MaxWindows -> Nat]
      BY <2>2 DEF RecoveryInv
    <3>3. ASSUME NEW w \in 1..MaxWindows PROVE CounterInv(w)'
      <4>1. CASE w # limit[r]
        <5>1. Readers(w)' \subseteq Readers(w) /\ guesses'[w] = guesses[w]
          BY <2>0, <2>2, <3>2, <4>1 DEF Readers, RecoveryInv
        <5> QED
          BY <1>0, <5>1, CounterKeeps DEF RecoveryInv
      <4>2. CASE w = limit[r]
        <5>1. r \in Readers(w) /\ Readers(w)' = Readers(w) \ {r} /\ guesses'[w] = guesses[w] + 1
          BY <2>0, <2>2, <3>2, <4>2 DEF Readers, RecoveryInv
        <5>2. Cardinality(Readers(w)') = Cardinality(Readers(w)) - 1
          BY <5>1, ReadersFacts, FS_RemoveElement
        <5> QED
          BY <1>0, <5>1, <5>2, ReadersFacts DEF CounterInv, RecoveryInv
      <4> QED
        BY <4>1, <4>2
    <3> QED
      BY <2>0, <2>2, <3>1, <3>2, <3>3 DEF RecoveryInv
  <2> QED
    BY <1>4, <2>1, <2>2 DEF Re!ReadCodes, Re!RStep
<1>5. ASSUME NEW r \in Recoveries, Re!ConsumeCode(r) PROVE RecoveryInv'
  <2> USE <1>5 DEF Re!ConsumeCode, Re!RStep, Re!limitVars
  <2>1. \A c \in Codes \ crowded : CodeInv(c)'
    BY DEF RecoveryInv, CodeInv, Holding
  <2> QED
    BY <1>b, <2>1 DEF RecoveryInv
<1>6. ASSUME NEW r \in Recoveries, Re!ResetMfa(r) PROVE RecoveryInv'
  <2> USE <1>6 DEF Re!ResetMfa, Re!RStep, Re!limitVars
  <2>1. code[r] \in Codes /\ wins[code[r]] \in Nat /\ wins' \in [Codes -> Nat]
    BY DEF RecoveryInv
  <2>2. ASSUME NEW c \in Codes \ crowded PROVE CodeInv(c)'
    <3>1. CASE c = code[r]
      BY <2>1, <3>1 DEF RecoveryInv, CodeInv, Holding
    <3>2. CASE c # code[r]
      BY <2>1, <3>2 DEF RecoveryInv, CodeInv, Holding
    <3> QED
      BY <3>1, <3>2
  <2> QED
    BY <1>b, <2>1, <2>2 DEF RecoveryInv
<1> QED
  BY <1>1, <1>2, <1>3, <1>4, <1>5, <1>6, RecoveryMove DEF Re!RecoveryNext

(***************************************************************************)
(* Magic links and DID challenges                                          *)
(***************************************************************************)
LEMMA SignInMoves == [Next]_vars => Si!SignInNext \/ UNCHANGED signinState
  BY DEF Next, Frame, vars

\* A visit whose link or challenge was found valid and spent.
Through(v) == visit[v] \in { "user", "session", "failed" }
ByLink(v) == Through(v) /\ shown[v] = 0
Proving(v, c) == shown[v] = c /\ (Through(v) \/ visit[v] = "consume")

\* A link that let a visit in is gone for good.
LinkInv ==
  /\ linkKey => linkSent
  /\ \A v \in Visits : ByLink(v) => linkSent /\ ~linkKey
  /\ \A v, w \in Visits : ByLink(v) /\ ByLink(w) => v = w

\* A challenge that was not shared proves one visit, and is gone once it has.
ChallengeInv(c) ==
  /\ \A v, w \in Visits : Proving(v, c) /\ Proving(w, c) => v = w
  /\ \A v \in Visits : Proving(v, c) /\ Through(v) => challenge # c

\* A visit about to delete the key finds what it read, nothing, or a challenge that
\* was stored under it.
KeyInv ==
  \A v \in Visits : visit[v] \in { "consume", "drop" } => challenge \in { 0, shown[v] } \cup displaced

SignInInv ==
  /\ linkKey \in BOOLEAN /\ linkSent \in BOOLEAN
  /\ requested \in Nat /\ challenge \in 0..requested
  /\ visit \in [Visits -> { "idle", "refused", "drop", "consume", "user", "session", "failed" }]
  /\ shown \in [Visits -> Nat] /\ \A v \in Visits : shown[v] <= requested
  /\ \A v \in Visits : visit[v] = "idle" => shown[v] = 0
  /\ \A v \in Visits : visit[v] \in { "consume", "drop" } => shown[v] # 0
  /\ LinkInv
  /\ \A c \in Nat \ ({0} \cup sharedProof) : ChallengeInv(c)
  /\ KeyInv /\ Si!ChallengeStays

LEMMA SignInFirst == Init => SignInInv
<1> SUFFICES ASSUME Si!SignInInit PROVE SignInInv
  BY DEF Init
<1> USE DEF Si!SignInInit
<1>1. LinkInv
  BY DEF LinkInv, ByLink, Through
<1>2. \A c \in Nat \ {0} : ChallengeInv(c)
  BY DEF ChallengeInv, Through, Proving
<1>3. linkKey \in BOOLEAN /\ linkSent \in BOOLEAN
  OBVIOUS
<1>5. KeyInv /\ Si!ChallengeStays /\ requested = 0 /\ challenge \in 0..requested
  BY DEF KeyInv, Si!ChallengeStays
<1>4. /\ visit \in [Visits -> { "idle", "refused", "drop", "consume", "user", "session", "failed" }]
      /\ shown \in [Visits -> Nat] /\ \A v \in Visits : shown[v] = 0 /\ visit[v] = "idle"
  OBVIOUS
<1> QED
  BY <1>1, <1>2, <1>3, <1>4, <1>5 DEF SignInInv

LEMMA SignInStep == SignInInv /\ [Next]_vars => SignInInv'
<1> SUFFICES ASSUME SignInInv, [Next]_vars PROVE SignInInv'
  OBVIOUS
<1> USE DEF Si!VisitGoto, Si!Magic, Si!Did
<1>1. CASE UNCHANGED signinState
  BY <1>1 DEF SignInInv, LinkInv, ChallengeInv, ByLink, Through, Proving, KeyInv, Si!ChallengeStays, signinState
<1>2. CASE Si!RequestMagicLink \/ Si!LinkExpires
  <2>1. LinkInv'
    BY <1>2 DEF SignInInv, LinkInv, ByLink, Through, Si!RequestMagicLink, Si!LinkExpires
  <2>2. \A c \in Nat \ ({0} \cup sharedProof') : ChallengeInv(c)'
    BY <1>2 DEF SignInInv, ChallengeInv, Through, Proving, Si!RequestMagicLink, Si!LinkExpires
  <2> QED
    BY <1>2, <2>1, <2>2 DEF SignInInv, KeyInv, Si!ChallengeStays, Si!RequestMagicLink, Si!LinkExpires
<1>3. CASE Si!RequestDIDChallenge
  <2>1. LinkInv'
    BY <1>3 DEF SignInInv, LinkInv, ByLink, Through, Si!RequestDIDChallenge
  <2>2. ASSUME NEW c \in Nat \ ({0} \cup sharedProof') PROVE ChallengeInv(c)'
    BY <1>3 DEF SignInInv, ChallengeInv, Through, Proving, Si!RequestDIDChallenge
  <2>3. requested' \in Nat /\ challenge' \in 0..requested' /\ \A v \in Visits : shown'[v] <= requested'
    BY <1>3 DEF SignInInv, Si!RequestDIDChallenge
  <2> QED
    BY <1>3, <2>1, <2>2, <2>3 DEF SignInInv, KeyInv, Si!ChallengeStays, Si!RequestDIDChallenge
<1>4. ASSUME NEW c, Si!ChallengeAges(c) PROVE SignInInv'
  BY <1>4 DEF SignInInv, LinkInv, ChallengeInv, ByLink, Through, Proving, KeyInv, Si!ChallengeStays, Si!ChallengeAges
<1>5. CASE Si!ChallengeExpires
  <2>1. LinkInv'
    BY <1>5 DEF SignInInv, LinkInv, ByLink, Through, Si!ChallengeExpires
  <2>2. \A c \in Nat \ ({0} \cup sharedProof') : ChallengeInv(c)'
    BY <1>5 DEF SignInInv, ChallengeInv, Through, Proving, Si!ChallengeExpires
  <2> QED
    BY <1>5, <2>1, <2>2 DEF SignInInv, KeyInv, Si!ChallengeStays, Si!ChallengeExpires
<1>6. ASSUME NEW v \in Visits, Si!ConsumeLink(v) PROVE SignInInv'
  <2>0. /\ visit[v] = "idle" /\ shown[v] = 0
        /\ UNCHANGED << linkSent, challenge, requested, shown, sharedProof, stored, gone, displaced >>
    BY <1>6 DEF Si!ConsumeLink, SignInInv
  <2>b. \/ linkKey /\ ~linkKey' /\ visit' = [visit EXCEPT ![v] = "user"]
        \/ (linkKey' => linkKey) /\ visit' = [visit EXCEPT ![v] = "refused"]
    <3>1. CASE linkKey' = FALSE /\ visit' = [visit EXCEPT ![v] = IF linkKey THEN "user" ELSE "refused"]
      BY <3>1
    <3>2. CASE linkKey' \in {linkKey, FALSE} /\ visit' = [visit EXCEPT ![v] = "refused"]
      BY <3>2
    <3> QED
      BY <1>6, <3>1, <3>2 DEF Si!ConsumeLink
  <2>a. linkKey' \in BOOLEAN
    BY <1>6 DEF Si!ConsumeLink, SignInInv
  <2>1. LinkInv'
    <3>1. CASE linkKey /\ ~linkKey' /\ visit' = [visit EXCEPT ![v] = "user"]
      <4>1. \A w \in Visits : ByLink(w)' => w = v
        BY <2>0, <3>1 DEF SignInInv, LinkInv, ByLink, Through
      <4> QED
        BY <2>0, <3>1, <4>1 DEF SignInInv, LinkInv
    <3>2. CASE (linkKey' => linkKey) /\ visit' = [visit EXCEPT ![v] = "refused"]
      <4>1. \A w \in Visits : ByLink(w)' => ByLink(w)
        BY <2>0, <3>2 DEF SignInInv, ByLink, Through
      <4> QED
        BY <2>0, <3>2, <4>1 DEF SignInInv, LinkInv
    <3> QED
      BY <2>b, <3>1, <3>2
  <2>2. ASSUME NEW c \in Nat \ ({0} \cup sharedProof') PROVE ChallengeInv(c)'
    <3>1. \A w \in Visits : Proving(w, c)' => w # v /\ Proving(w, c) /\ Through(w)' = Through(w)
      BY <2>0, <2>b DEF SignInInv, Through, Proving
    <3> QED
      BY <2>0, <3>1 DEF SignInInv, ChallengeInv
  <2>3. visit' \in [Visits -> { "idle", "refused", "drop", "consume", "user", "session", "failed" }]
    BY <2>0, <2>b DEF SignInInv
  <2> QED
    BY <2>0, <2>a, <2>b, <2>1, <2>2, <2>3 DEF SignInInv, KeyInv, Si!ChallengeStays
<1>7. ASSUME NEW v \in Visits, Si!ConsumeChallenge(v) PROVE SignInInv'
  <2> USE <1>7 DEF Si!ConsumeChallenge
  <2>1. LinkInv'
    BY DEF SignInInv, LinkInv, ByLink, Through
  <2>2. ASSUME NEW c \in Nat \ ({0} \cup sharedProof') PROVE ChallengeInv(c)'
    BY DEF SignInInv, ChallengeInv, Through, Proving
  <2>3. visit' \in [Visits -> { "idle", "refused", "drop", "consume", "user", "session", "failed" }]
    BY DEF SignInInv
  <2> QED
    BY <2>1, <2>2, <2>3 DEF SignInInv, KeyInv, Si!ChallengeStays
<1>8. ASSUME NEW v \in Visits, Si!IssueSession(v) PROVE SignInInv'
  <2> USE <1>8 DEF Si!IssueSession
  <2>1. LinkInv'
    BY DEF SignInInv, LinkInv, ByLink, Through
  <2>2. \A c \in Nat \ ({0} \cup sharedProof') : ChallengeInv(c)'
    BY DEF SignInInv, ChallengeInv, Through, Proving
  <2> QED
    BY <2>1, <2>2 DEF SignInInv, KeyInv, Si!ChallengeStays
<1>9. ASSUME NEW v \in Visits, NEW c \in 1..MaxChallenges, Si!ReadChallenge(v, c) PROVE SignInInv'
  <2> USE <1>9 DEF Si!ReadChallenge
  <2>0. c \in Nat \ {0} /\ c <= requested
    BY AccessOK DEF SignInInv
  <2>1. LinkInv'
    BY <2>0 DEF SignInInv, LinkInv, ByLink, Through
  <2>2. ASSUME NEW d \in Nat \ ({0} \cup sharedProof') PROVE ChallengeInv(d)'
    BY <2>0 DEF SignInInv, ChallengeInv, Through, Proving
  <2>3. /\ visit' \in [Visits -> { "idle", "refused", "drop", "consume", "user", "session", "failed" }]
        /\ shown' \in [Visits -> Nat] /\ \A w \in Visits : shown'[w] <= requested
    BY <2>0 DEF SignInInv
  <2> QED
    BY <2>0, <2>1, <2>2, <2>3 DEF SignInInv, KeyInv, Si!ChallengeStays
<1> QED
  BY <1>1, <1>2, <1>3, <1>4, <1>5, <1>6, <1>7, <1>8, <1>9, SignInMoves DEF Si!SignInNext

(***************************************************************************)
(* Telegram codes                                                          *)
(***************************************************************************)
LEMMA TelegramMoves == [Next]_vars => Tl!TelegramNext \/ UNCHANGED telegramState
  BY DEF Next, Frame, vars

\* A confirmation that found its code usable and has not failed since.
Confirming(c, g) == confirm[c] \in { "mark", "link", "done" } /\ confirmCode[c] = g

\* The code of a confirmation exists, and is used once the confirmation is past it.
ConfirmInv ==
  /\ \A c \in Confirms : confirm[c] \in { "mark", "link", "done" } => confirmCode[c] \in codes
  /\ \A c \in Confirms : confirm[c] \in { "link", "done" } => confirmCode[c] \in usedCodes
  /\ \A c \in links : confirm[c] = "done"
  /\ \A c, d \in Confirms : Confirming(c, confirmCode[c]) /\ Confirming(d, confirmCode[c])
                              => c = d \/ confirmCode[c] \in rivals

\* A generation between its statements and an unused code, or two such generations,
\* overlapped.
UsableInv ==
  /\ Tl!OneUsableCode
  /\ \A g, h \in Generations : generation[g] = "create" /\ generation[h] = "create"
                                 => g = h \/ {g, h} \subseteq crossing
  /\ \A g \in Generations : \A h \in codes \ usedCodes :
       generation[g] = "create" => {g, h} \cap crossing # {}

TelegramInv ==
  /\ usedCodes \subseteq codes /\ unlinked \subseteq usedCodes
  /\ links \subseteq Confirms
  /\ DOMAIN confirm = Confirms /\ DOMAIN confirmCode = Confirms /\ DOMAIN generation = Generations
  /\ ConfirmInv
  /\ UsableInv
  /\ \A c \in Confirms : Confirming(c, confirmCode[c]) /\ confirmCode[c] \in unlinked => c \in early

LEMMA TelegramFirst == Init => TelegramInv
  BY DEF Init, Tl!TelegramInit, TelegramInv, ConfirmInv, UsableInv, Confirming, Tl!OneUsableCode, Tl!Idle

LEMMA TelegramStep == TelegramInv /\ [Next]_vars => TelegramInv'
<1> SUFFICES ASSUME TelegramInv, [Next]_vars PROVE TelegramInv'
  OBVIOUS
<1> USE DEF Tl!confirmState, Tl!unlinkState, Tl!Idle
<1>1. CASE UNCHANGED telegramState
  BY <1>1 DEF TelegramInv, ConfirmInv, UsableInv, Confirming, Tl!OneUsableCode, telegramState
<1>2. ASSUME NEW g \in Generations, Tl!Invalidate(g) PROVE TelegramInv'
  <2> USE <1>2 DEF Tl!Invalidate
  <2>1. ConfirmInv'
    BY DEF TelegramInv, ConfirmInv, Confirming
  <2>2. UsableInv'
    BY DEF TelegramInv, UsableInv, Tl!OneUsableCode, Tl!Between
  <2> QED
    BY <2>1, <2>2 DEF TelegramInv, Confirming
<1>3. ASSUME NEW g \in Generations, Tl!CreateCode(g) PROVE TelegramInv'
  <2> USE <1>3 DEF Tl!CreateCode
  <2>1. ConfirmInv'
    BY DEF TelegramInv, ConfirmInv, Confirming
  <2>2. UsableInv'
    BY DEF TelegramInv, UsableInv, Tl!OneUsableCode
  <2> QED
    BY <2>1, <2>2 DEF TelegramInv, Confirming
<1>4. ASSUME NEW g \in Generations, Tl!CodeExpires(g) PROVE TelegramInv'
  BY <1>4 DEF TelegramInv, ConfirmInv, UsableInv, Confirming, Tl!OneUsableCode, Tl!CodeExpires
<1>5. ASSUME NEW c \in Confirms, Tl!MarkUsed(c) PROVE TelegramInv'
  <2> USE <1>5 DEF Tl!MarkUsed
  <2>1. ConfirmInv'
    BY DEF TelegramInv, ConfirmInv, Confirming
  <2>2. UsableInv'
    BY DEF TelegramInv, UsableInv, Tl!OneUsableCode
  <2> QED
    BY <2>1, <2>2 DEF TelegramInv, ConfirmInv, Confirming
<1>6. ASSUME NEW c \in Confirms, Tl!LinkChat(c) PROVE TelegramInv'
  <2> USE <1>6 DEF Tl!LinkChat
  <2>1. ConfirmInv'
    BY DEF TelegramInv, ConfirmInv, Confirming
  <2>2. UsableInv'
    BY DEF TelegramInv, UsableInv, Tl!OneUsableCode
  <2> QED
    BY <2>1, <2>2 DEF TelegramInv, Confirming
<1>7. ASSUME NEW c \in Confirms, NEW g \in Generations, Tl!FindCode(c, g) PROVE TelegramInv'
  <2> USE <1>7 DEF Tl!FindCode
  <2>1. ConfirmInv'
    BY DEF TelegramInv, ConfirmInv, Confirming
  <2>2. UsableInv'
    BY DEF TelegramInv, UsableInv, Tl!OneUsableCode
  <2> QED
    BY <2>1, <2>2 DEF TelegramInv, ConfirmInv, Confirming
<1>8. ASSUME NEW u \in Unlinks, Tl!ClearLink(u) PROVE TelegramInv'
  BY <1>8 DEF TelegramInv, ConfirmInv, UsableInv, Confirming, Tl!OneUsableCode, Tl!ClearLink
<1>9. ASSUME NEW u \in Unlinks, Tl!ClearCodes(u) PROVE TelegramInv'
  <2> USE <1>9 DEF Tl!ClearCodes
  <2>1. ConfirmInv'
    BY DEF TelegramInv, ConfirmInv, Confirming
  <2>2. UsableInv'
    BY DEF TelegramInv, UsableInv, Tl!OneUsableCode
  <2> QED
    BY <2>1, <2>2 DEF TelegramInv, Confirming
<1>10. CASE Tl!CallFails
  <2> USE <1>10 DEF Tl!CallFails
  <2>1. ConfirmInv'
    BY DEF TelegramInv, ConfirmInv, Confirming
  <2>2. UsableInv'
    BY DEF TelegramInv, UsableInv, Tl!OneUsableCode
  <2> QED
    BY <2>1, <2>2 DEF TelegramInv, Confirming
<1> QED
  BY <1>1, <1>2, <1>3, <1>4, <1>5, <1>6, <1>7, <1>8, <1>9, <1>10, TelegramMoves DEF Tl!TelegramNext

\* Recovery codes, magic links, challenges and Telegram codes work once but for
\* calls that overlapped, guesses are bounded by the limit and the requests beside
\* it, a challenge is not lost to a refused visit and an unlink revokes, for any
\* number of calls (mfa.service, auth.service and telegram-sync.service).
THEOREM CredentialsWorkOnce == Spec => []CredentialsOnce
<1>1. RecoveryInv => Re!CodePaysOnce
  BY DEF RecoveryInv, CodeInv, Re!CodePaysOnce
<1>2. RecoveryInv => Re!GuessesBounded
  <2> SUFFICES ASSUME RecoveryInv, NEW w \in 1..MaxWindows
               PROVE  guesses[w] <= MaxGuesses + Cardinality(Recoveries) - 1
    BY SameCount DEF Re!GuessesBounded
  <2>1. guesses[w] \in Nat /\ MaxGuesses \in Nat /\ CounterInv(w)
    BY AccessOK DEF RecoveryInv
  <2> QED
    BY <2>1, ReadersFacts DEF CounterInv
<1>3. SignInInv => Si!LinkOnce /\ Si!ChallengeOnce /\ Si!ChallengeStays
  BY DEF SignInInv, LinkInv, ChallengeInv, ByLink, Through, Proving, Si!LinkOnce, Si!ChallengeOnce, Si!SignedIn
<1>4. TelegramInv => Tl!CodeLinksOnce /\ Tl!OneUsableCode /\ Tl!UnlinkRevokes
  BY DEF TelegramInv, ConfirmInv, UsableInv, Confirming, Tl!CodeLinksOnce, Tl!UnlinkRevokes
<1>5. RecoveryInv /\ SignInInv /\ TelegramInv => CredentialsOnce
  BY <1>1, <1>2, <1>3, <1>4 DEF CredentialsOnce
<1> QED
  BY <1>5, RecoveryFirst, RecoveryStep, SignInFirst, SignInStep, TelegramFirst, TelegramStep, PTL DEF Spec

(***************************************************************************)
(* Signing secrets                                                         *)
(***************************************************************************)
LEMMA SecretsMove == [Next]_vars => Sr!SecretNext \/ UNCHANGED secretsState
  BY DEF Next, Frame, vars

Newest == lineage[Len(lineage)]
Older == lineage[Len(lineage) - 1]

\* The row holds the newest secret and the one before it, which only the end of a
\* grace removes.
RowInv ==
  /\ lineage \in Seq(Rotators \cup {0}) /\ Len(lineage) >= 1
  /\ secrets \in [active : Rotators \cup {0}, previous : Rotators \cup {0, 99}]
  /\ secrets.active = Newest
  /\ Len(lineage) = 1 => secrets.previous = 99
  /\ Len(lineage) > 1 => secrets.previous = Older \/ (secrets.previous = 99 /\ Newest \in graceOver)

\* One rotation at a time is between its statements, and holds the active secret; a
\* secret not yet written has no grace.
RotatorsInv ==
  /\ rotator \in [Rotators -> { "idle", "update", "done" }] /\ DOMAIN demoted = Rotators
  /\ \A r, q \in Rotators : rotator[r] = "update" /\ rotator[q] = "update" => r = q
  /\ \A r \in Rotators : rotator[r] = "update" => demoted[r] = secrets.active
  /\ \A r \in Rotators : rotator[r] # "done" => r \notin graceOver /\ r # secrets.active

\* A delivery that was not overtaken signs as the row says, but for a previous
\* secret that was decommissioned, which it does not sign with either.
LoadedInv ==
  /\ DOMAIN delivery = Deliveries
  /\ loaded \in [Deliveries -> [active : Rotators \cup {0}, previous : Rotators \cup {0, 99}]]
  /\ \A d \in Deliveries \ overtaken :
       delivery[d] = "sign" => /\ loaded[d].active = secrets.active
                               /\ loaded[d].previous = secrets.previous \/ secrets.active \in graceOver

RejectedInv == \A d \in Deliveries, c \in Rotators : << d, c >> \in rejected => d \in overtaken

SecretsInv ==
  /\ clash \in BOOLEAN
  /\ ~clash => RowInv /\ RotatorsInv /\ LoadedInv /\ RejectedInv

LEMMA SecretsFirst == Init => SecretsInv
<1> SUFFICES ASSUME Sr!SecretInit PROVE SecretsInv
  BY DEF Init
<1> USE DEF Sr!SecretInit, Sr!None
<1>1. RowInv
  BY DEF RowInv, Newest, Older
<1>2. RotatorsInv
  BY AccessOK DEF RotatorsInv
<1>3. LoadedInv /\ RejectedInv
  BY DEF LoadedInv, RejectedInv
<1> QED
  BY <1>1, <1>2, <1>3 DEF SecretsInv

LEMMA SecretsStep == SecretsInv /\ [Next]_vars => SecretsInv'
<1> SUFFICES ASSUME SecretsInv, [Next]_vars PROVE SecretsInv'
  OBVIOUS
<1> USE DEF Sr!deliveryState, Sr!None
<1>0. /\ 0 \notin Rotators /\ 99 \notin Rotators
  BY AccessOK
<1>1. CASE UNCHANGED secretsState
  BY <1>1 DEF SecretsInv, RowInv, RotatorsInv, LoadedInv, RejectedInv, Newest, Older, secretsState
<1>2. CASE Sr!GraceEnds
  <2> USE <1>2 DEF Sr!GraceEnds
  <2> SUFFICES ASSUME ~clash PROVE RowInv' /\ RotatorsInv' /\ LoadedInv' /\ RejectedInv'
    BY DEF SecretsInv
  <2>1. RowInv'
    BY DEF SecretsInv, RowInv, Newest, Older
  <2>2. RotatorsInv'
    BY DEF SecretsInv, RotatorsInv
  <2>3. LoadedInv'
    BY DEF SecretsInv, LoadedInv
  <2> QED
    BY <2>1, <2>2, <2>3 DEF SecretsInv, RejectedInv
<1>3. CASE Sr!Decommission
  <2> USE <1>3 DEF Sr!Decommission
  <2> SUFFICES ASSUME ~clash PROVE RowInv' /\ RotatorsInv' /\ LoadedInv' /\ RejectedInv'
    BY DEF SecretsInv
  <2>0. secrets' = [active |-> secrets.active, previous |-> 99]
    BY DEF SecretsInv, RowInv
  <2>1. RowInv'
    BY <2>0 DEF SecretsInv, RowInv, Newest, Older
  <2>2. RotatorsInv'
    BY <2>0 DEF SecretsInv, RotatorsInv
  <2>3. LoadedInv'
    BY <2>0 DEF SecretsInv, LoadedInv
  <2> QED
    BY <2>1, <2>2, <2>3 DEF SecretsInv, RejectedInv
<1>4. ASSUME NEW r \in Rotators, Sr!ReadWebhook(r) PROVE SecretsInv'
  <2> USE <1>4 DEF Sr!ReadWebhook
  <2>0. clash' \in BOOLEAN
    BY DEF SecretsInv
  <2> SUFFICES ASSUME ~clash' PROVE RowInv' /\ RotatorsInv' /\ LoadedInv' /\ RejectedInv'
    BY <2>0 DEF SecretsInv
  <2>1. ~clash /\ \A q \in Rotators : rotator[q] # "update"
    OBVIOUS
  <2>2. RowInv'
    BY <2>1 DEF SecretsInv, RowInv, Newest, Older
  <2>3. RotatorsInv'
    BY <2>1 DEF SecretsInv, RotatorsInv
  <2>4. LoadedInv'
    BY <2>1 DEF SecretsInv, LoadedInv
  <2> QED
    BY <2>1, <2>2, <2>3, <2>4 DEF SecretsInv, RejectedInv
<1>5. ASSUME NEW r \in Rotators, Sr!WriteSecrets(r) PROVE SecretsInv'
  <2> USE <1>5 DEF Sr!WriteSecrets, Sr!Demote
  <2> SUFFICES ASSUME ~clash PROVE RowInv' /\ RotatorsInv' /\ LoadedInv' /\ RejectedInv'
    BY DEF SecretsInv
  <2>0. demoted[r] = secrets.active /\ RowInv /\ RotatorsInv /\ r \notin graceOver
    BY DEF SecretsInv, RotatorsInv
  <2>1. /\ lineage' = Append(lineage, r) /\ Len(lineage') = Len(lineage) + 1 /\ Len(lineage) \in Nat \ {0}
        /\ Newest' = r /\ Older' = Newest
    BY <2>0 DEF RowInv, Newest, Older
  <2>2. RowInv'
    <3>1. lineage' \in Seq(Rotators \cup {0})
      BY <2>0, <2>1 DEF RowInv
    <3>2. secrets' \in [active : Rotators \cup {0}, previous : Rotators \cup {0, 99}]
      BY <2>0 DEF RowInv
    <3> QED
      BY <2>0, <2>1, <3>1, <3>2 DEF RowInv
  <2>3. RotatorsInv'
    BY <1>0, <2>0 DEF RotatorsInv
  <2>4. LoadedInv'
    BY DEF SecretsInv, LoadedInv
  <2> QED
    BY <2>2, <2>3, <2>4 DEF SecretsInv, RejectedInv
<1>6. ASSUME NEW r \in Rotators, Sr!Redeploy(r) PROVE SecretsInv'
  BY <1>6 DEF SecretsInv, RowInv, RotatorsInv, LoadedInv, RejectedInv, Newest, Older, Sr!Redeploy
<1>7. ASSUME NEW d \in Deliveries, Sr!LoadWebhook(d) PROVE SecretsInv'
  <2> USE <1>7 DEF Sr!LoadWebhook
  <2> SUFFICES ASSUME ~clash PROVE RowInv' /\ RotatorsInv' /\ LoadedInv' /\ RejectedInv'
    BY DEF SecretsInv
  <2>1. RowInv'
    BY DEF SecretsInv, RowInv, Newest, Older
  <2>2. RotatorsInv'
    BY DEF SecretsInv, RotatorsInv
  <2>3. LoadedInv'
    BY DEF SecretsInv, LoadedInv, RowInv
  <2> QED
    BY <2>1, <2>2, <2>3 DEF SecretsInv, RejectedInv
<1>8. ASSUME NEW d \in Deliveries, Sr!SendSigned(d) PROVE SecretsInv'
  <2> USE <1>8 DEF Sr!SendSigned
  <2> SUFFICES ASSUME ~clash PROVE RowInv' /\ RotatorsInv' /\ LoadedInv' /\ RejectedInv'
    BY DEF SecretsInv
  <2>1. RowInv'
    BY DEF SecretsInv, RowInv, Newest, Older
  <2>2. RotatorsInv'
    BY DEF SecretsInv, RotatorsInv
  <2>3. LoadedInv'
    BY DEF SecretsInv, LoadedInv
  <2>4. ASSUME d \notin overtaken, Sr!KeepsUp, configured \in Rotators
        PROVE  Sr!Returned(configured) \in Sr!Signatures(loaded[d])
    <3>0. Sr!Returned(configured) = configured
      BY <1>0, <2>4 DEF Sr!Returned
    <3>1. /\ RowInv /\ loaded[d].active = secrets.active
          /\ loaded[d].previous = secrets.previous \/ secrets.active \in graceOver
      BY <2>4 DEF SecretsInv, LoadedInv
    <3>2. CASE configured = Newest
      BY <3>0, <3>1, <3>2 DEF RowInv, Sr!Signatures
    <3>3. CASE Len(lineage) > 1 /\ configured = Older /\ Newest \notin graceOver
      <4>1. Older \in Rotators \cup {0}
        BY <3>1, <3>3 DEF RowInv, Older
      <4>2. loaded[d].previous = configured /\ configured # 99
        BY <1>0, <3>1, <3>3, <4>1 DEF RowInv
      <4> QED
        BY <3>0, <3>1, <3>3, <4>2 DEF RowInv, Sr!Signatures
    <3> QED
      BY <2>4, <3>2, <3>3 DEF Sr!KeepsUp, Newest, Older
  <2> QED
    BY <2>1, <2>2, <2>3, <2>4 DEF SecretsInv, RejectedInv
<1> QED
  BY <1>1, <1>2, <1>3, <1>4, <1>5, <1>6, <1>7, <1>8, SecretsMove DEF Sr!SecretNext

\* A subscriber with the secret of the newest rotation, or of the one before it within
\* its grace, verifies every delivery but for rotations that overlapped and deliveries that
\* had read the row before one, for any number of rotations and deliveries
\* (rotateSecret and buildDualSignatureHeaders).
THEOREM SubscribersVerify == Spec => []SubscriberVerifies
<1>1. SecretsInv => SubscriberVerifies
  BY DEF SecretsInv, RejectedInv, SubscriberVerifies, Sr!SubscriberVerifies
<1> QED
  BY <1>1, SecretsFirst, SecretsStep, PTL DEF Spec
=============================================================================
