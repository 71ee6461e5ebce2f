------------------------------ MODULE Sessions ------------------------------
(***************************************************************************)
(* One session family of lib/session-manager.ts: rotations of its refresh   *)
(* tokens by concurrent requests, detection of reused tokens, and           *)
(* revocation in Postgres and in the Redis cache.  A token is the number of *)
(* its jti in order of issue.                                               *)
(***************************************************************************)
EXTENDS Naturals

CONSTANTS
  Rotations,  \* requests that call rotateRefreshToken
  MaxToken    \* tokens issued, the first included

VARIABLES
  revoked,    \* RefreshSession.isRevoked
  cached,     \* auth:family:<id>:revoked in Redis
  current,    \* RefreshSession.currentJti
  issued,     \* the last jti of RefreshTokenHistory
  consumed,   \* tokens with isConsumed
  rotation,   \* the await each rotation is at, or its result
  presented,  \* the token of each rotation
  seenJti,    \* session.currentJti as each rotation read it
  logout,     \* progress of revokeFamily called by the user
  late,       \* history: rotations that began after a revocation or a detected reuse
  stale       \* history: rotations that began with a token that was not current

familyVars == << revoked, cached, current, issued, consumed >>
requestVars == << rotation, presented, seenJti >>
sessionVars == << familyVars, requestVars, logout, late, stale >>

SessionsInit ==
  /\ revoked = FALSE /\ cached = FALSE
  /\ current = 1 /\ issued = 1 /\ consumed = {}
  /\ rotation = [r \in Rotations |-> "idle"]
  /\ presented = [r \in Rotations |-> 0]
  /\ seenJti = [r \in Rotations |-> 0]
  /\ logout = "idle"
  /\ late = {} /\ stale = {}

Go(r, l) == rotation' = [rotation EXCEPT ![r] = l]

\* A request with a valid signature; isFamilyRevoked asks Redis, then Postgres.
CheckFamily(r, t) ==
  /\ rotation[r] = "idle" /\ t \in 1..issued
  /\ presented' = [presented EXCEPT ![r] = t]
  /\ Go(r, IF cached \/ revoked THEN "denied" ELSE "session")
  /\ late' = (IF revoked \/ \E q \in Rotations : rotation[q] = "reused" THEN late \cup {r} ELSE late)
  /\ stale' = (IF t # current THEN stale \cup {r} ELSE stale)
  /\ UNCHANGED << familyVars, seenJti, logout >>

ReadSession(r) ==
  /\ rotation[r] = "session"
  /\ Go(r, IF revoked THEN "denied" ELSE "history")
  /\ seenJti' = [seenJti EXCEPT ![r] = current]
  /\ UNCHANGED << familyVars, presented, logout, late, stale >>

ReadHistory_ConsumedOnly(r) ==
  /\ rotation[r] = "history"
  /\ Go(r, IF presented[r] \in consumed THEN "reuse" ELSE "commit")
  /\ UNCHANGED << familyVars, presented, seenJti, logout, late, stale >>

\* Reuse: the token is consumed, or is not the one the session names.
ReadHistory(r) ==
  /\ rotation[r] = "history"
  /\ Go(r, IF presented[r] \in consumed \/ seenJti[r] # presented[r] THEN "reuse" ELSE "commit")
  /\ UNCHANGED << familyVars, presented, seenJti, logout, late, stale >>

Commit_KeepsCurrent(r) ==
  /\ rotation[r] = "commit" /\ issued < MaxToken
  /\ consumed' = consumed \cup {presented[r]}
  /\ issued' = issued + 1
  /\ Go(r, "ok")
  /\ UNCHANGED << revoked, cached, current, presented, seenJti, logout, late, stale >>

\* The transaction consumes the token, issues the next and makes it current; no
\* statement of it depends on what the session is by now.
Commit(r) ==
  /\ rotation[r] = "commit" /\ issued < MaxToken
  /\ consumed' = consumed \cup {presented[r]}
  /\ issued' = issued + 1
  /\ current' = issued + 1
  /\ Go(r, "ok")
  /\ UNCHANGED << revoked, cached, presented, seenJti, logout, late, stale >>

\* revokeFamily: Postgres, then Redis, whose failure is logged.
RevokeReused(r) ==
  /\ rotation[r] = "reuse"
  /\ revoked' = TRUE
  /\ Go(r, "cache")
  /\ UNCHANGED << cached, current, issued, consumed, presented, seenJti, logout, late, stale >>

CacheReused(r) ==
  /\ rotation[r] = "cache"
  /\ cached' \in {cached, TRUE}
  /\ Go(r, "reused")
  /\ UNCHANGED << revoked, current, issued, consumed, presented, seenJti, logout, late, stale >>

Logout ==
  \/ /\ logout = "idle" /\ logout' = "cache" /\ revoked' = TRUE /\ UNCHANGED cached
     /\ UNCHANGED << current, issued, consumed, requestVars, late, stale >>
  \/ /\ logout = "cache" /\ logout' = "done" /\ cached' \in {cached, TRUE} /\ UNCHANGED revoked
     /\ UNCHANGED << current, issued, consumed, requestVars, late, stale >>

Rotate(r) ==
  ReadSession(r) \/ ReadHistory(r) \/ Commit(r) \/ RevokeReused(r) \/ CacheReused(r)

SessionsNext ==
  \/ \E r \in Rotations : Rotate(r) \/ \E t \in 1..MaxToken : CheckFamily(r, t)
  \/ Logout

-----------------------------------------------------------------------------
(* Properties.                                                             *)

\* A request that begins when its token is no longer the current one, or after
\* the family was revoked or a reuse answered, gets no new tokens, whatever runs
\* beside it.
StaleTokenRefused == \A r \in late \cup stale : rotation[r] # "ok"

\* The token the session names is the newest and has never been used: of the
\* successors of a token rotated twice at once only one can be rotated again.
CurrentUnused == current = issued /\ current \notin consumed
=============================================================================
