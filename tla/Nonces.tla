------------------------------- MODULE Nonces -------------------------------
(***************************************************************************)
(* Replay defence of signed requests (modules/webhooks/replay-defense.ts    *)
(* over lib/nonceCache.ts): copies of ONE signed request, with its nonce    *)
(* and its timestamp, arrive at several processes.  Time is counted in      *)
(* units of the drift tolerance.                                            *)
(***************************************************************************)
EXTENDS Naturals, Integers, FiniteSets

CONSTANTS
  Copies,     \* deliveries of the request
  Servers,    \* processes, each with a degradedNonceStore
  Drift,      \* driftToleranceMs
  NonceTTL,   \* nonceTtlSeconds
  RoundTrip,  \* the longest a Redis command takes
  Stamp,      \* the timestamp of the request
  Horizon     \* how far time goes

VARIABLES
  now,        \* Date.now()
  redisUntil, \* expiry of webhook_nonce:<nonce> in Redis, 0 when absent
  localUntil, \* its expiry in each process's degradedNonceStore
  copy,       \* where each copy is: "idle", "set", "accepted", "rejected"
  since,      \* when each copy passed the drift check
  server,     \* the process each copy is at
  outage      \* history: processes at which Redis failed

nonceVars == << now, redisUntil, localUntil, copy, since, server, outage >>

AnyServer == CHOOSE s \in Servers : TRUE

NoncesInit ==
  /\ now = 1 /\ redisUntil = 0
  /\ localUntil = [s \in Servers |-> 0]
  /\ copy = [c \in Copies |-> "idle"]
  /\ since = [c \in Copies |-> 0]
  /\ server = [c \in Copies |-> AnyServer]
  /\ outage = {}

CheckDrift_OneSided(c, s) ==
  /\ copy[c] = "idle"
  /\ copy' = [copy EXCEPT ![c] = IF now < Stamp - Drift THEN "rejected" ELSE "set"]
  /\ since' = [since EXCEPT ![c] = now]
  /\ server' = [server EXCEPT ![c] = s]
  /\ UNCHANGED << now, redisUntil, localUntil, outage >>

CheckDrift(c, s) ==
  /\ copy[c] = "idle"
  /\ copy' = [copy EXCEPT ![c] = IF now - Stamp \in -Drift..Drift THEN "set" ELSE "rejected"]
  /\ since' = [since EXCEPT ![c] = now]
  /\ server' = [server EXCEPT ![c] = s]
  /\ UNCHANGED << now, redisUntil, localUntil, outage >>

\* SET key 1 EX ttl NX.
StoreNonce(c) ==
  /\ copy[c] = "set"
  /\ IF redisUntil > now
       THEN copy' = [copy EXCEPT ![c] = "rejected"] /\ UNCHANGED redisUntil
       ELSE copy' = [copy EXCEPT ![c] = "accepted"] /\ redisUntil' = now + NonceTTL
  /\ UNCHANGED << now, localUntil, since, server, outage >>

\* Redis fails: the process falls back to its own map.
StoreDegraded(c) ==
  /\ copy[c] = "set"
  /\ IF localUntil[server[c]] > now
       THEN copy' = [copy EXCEPT ![c] = "rejected"] /\ UNCHANGED localUntil
       ELSE /\ copy' = [copy EXCEPT ![c] = "accepted"]
            /\ localUntil' = [localUntil EXCEPT ![server[c]] = now + NonceTTL]
  /\ outage' = outage \cup {server[c]}
  /\ UNCHANGED << now, redisUntil, since, server >>

\* Time passes; no Redis command takes longer than RoundTrip.
Tick ==
  /\ now < Horizon
  /\ \A c \in Copies : copy[c] = "set" => now < since[c] + RoundTrip
  /\ now' = now + 1
  /\ UNCHANGED << redisUntil, localUntil, copy, since, server, outage >>

NoncesNext ==
  Tick \/ \E c \in Copies : (\E s \in Servers : CheckDrift(c, s)) \/ StoreNonce(c) \/ StoreDegraded(c)

-----------------------------------------------------------------------------
(* Properties.                                                             *)

\* A signed request is accepted once, however its copies are timed at the edges
\* of the drift window and of the nonce's life; each process that lost Redis can
\* let it through once more.
AcceptedOncePerStore ==
  Cardinality({ c \in Copies : copy[c] = "accepted" }) <= 1 + Cardinality(outage)
=============================================================================
