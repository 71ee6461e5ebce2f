------------------------------ MODULE Failover ------------------------------
(***************************************************************************)
(* Two controllers of one API process that both write activeReadTarget:     *)
(* DbFailoverController (lib/db-failover.ts), which watches the primary,    *)
(* makes the API read-only and replays buffered mutations, and              *)
(* ReplicaLagMonitor (lib/database-router.ts), which watches the replica.   *)
(* The list of mutations is in Redis: it outlives the process, and other    *)
(* API processes, whose modes are not looked at, push to it and replay it.  *)
(* Lag is counted in seconds; counters stop at their thresholds.            *)
(***************************************************************************)
EXTENDS Naturals, Sequences, Functions

CONSTANTS
  FailureThreshold, RecoveryThreshold,  \* probes of the primary
  LagThreshold, RecoveryProbes,         \* seconds and probes of the replica
  Lags,          \* lags the replica may have, NoReply if it does not answer
  MaxMutations,  \* mutations buffered
  MaxBuffer,     \* maxBufferSize
  Unhandled      \* mutations whose type has no handler

VARIABLES
  primaryUp, lag,                             \* the two databases
  readTarget,                                 \* activeReadTarget
  mode, failures, successes,                  \* DbFailoverController
  lagState, healthyProbes,                    \* ReplicaLagMonitor
  replaying, buffer, hand, applied, dropped,  \* the replay of the Redis list
  otherHand,                                  \* the mutation another process replays
  pushing, pushed,                            \* calls of bufferMutation
  twoReplays,     \* history: two processes had a mutation in hand at once
  repeated,       \* history: mutations whose handler threw after its effect
  lateMutations   \* history: mutations that came or stayed while the API was healthy

dbVars == << primaryUp, lag >>
controlVars == << mode, failures, successes >>
lagVars == << lagState, healthyProbes >>
otherVars == << otherHand, twoReplays, repeated >>
replayVars == << replaying, buffer, hand, applied, dropped, otherVars >>
pushVars == << pushing, pushed, lateMutations >>
failoverVars == << dbVars, readTarget, controlVars, lagVars, replayVars, pushVars >>

NoReply == 999
AtMost(n, m) == IF n < m THEN n ELSE m

FailoverInit ==
  /\ primaryUp = TRUE /\ lag = 0
  /\ readTarget = "REPLICA"
  /\ mode = "HEALTHY" /\ failures = 0 /\ successes = 0
  /\ lagState = "IN_SYNC" /\ healthyProbes = 0
  /\ replaying = FALSE /\ buffer = << >> /\ hand = 0 /\ applied = << >> /\ dropped = {}
  /\ otherHand = 0 /\ twoReplays = FALSE /\ repeated = {}
  /\ pushing = 0 /\ pushed = 0 /\ lateMutations = {}

\* The databases: the primary is lost and comes back, the replica's lag changes.
DatabasesMove ==
  /\ \/ primaryUp' = ~primaryUp /\ UNCHANGED lag
     \/ lag' \in Lags /\ UNCHANGED primaryUp
  /\ UNCHANGED << readTarget, controlVars, lagVars, replayVars, pushVars >>

\* The catch clause of check().
ProbeFailed ==
  /\ successes' = 0
  /\ failures' = AtMost(failures + 1, FailureThreshold)
  /\ IF mode = "HEALTHY" /\ failures + 1 >= FailureThreshold
       THEN mode' = "DEGRADED_READ_ONLY" /\ readTarget' = "REPLICA"
       ELSE UNCHANGED << mode, readTarget >>

\* One check(); a recovery that is already replaying is not started again.
CheckPrimary ==
  /\ \/ /\ primaryUp
        /\ failures' = 0
        /\ successes' = AtMost(successes + 1, RecoveryThreshold)
        /\ replaying' = (replaying \/ (mode # "HEALTHY" /\ successes + 1 >= RecoveryThreshold))
        /\ UNCHANGED << mode, readTarget >>
     \/ /\ ~primaryUp
        /\ ProbeFailed
        /\ UNCHANGED replaying
  /\ UNCHANGED << dbVars, lagVars, buffer, hand, applied, dropped, otherVars, pushVars >>

\* replayBuffered takes the oldest mutation; an empty list ends the recovery.
Shift ==
  /\ replaying /\ hand = 0
  /\ IF buffer = << >>
       THEN /\ replaying' = FALSE /\ mode' = "HEALTHY" /\ readTarget' = "REPLICA"
            /\ UNCHANGED << buffer, hand, twoReplays >>
       ELSE /\ hand' = Head(buffer) /\ buffer' = Tail(buffer)
            /\ twoReplays' = (twoReplays \/ otherHand # 0)
            /\ UNCHANGED << replaying, mode, readTarget >>
  /\ UNCHANGED << dbVars, failures, successes, lagVars, applied, dropped, otherHand, repeated, pushVars >>

\* The handler returns, or there is none and the mutation is dropped.
Handled(m) ==
  \/ m \in Unhandled /\ dropped' = dropped \cup {m} /\ UNCHANGED applied
  \/ m \notin Unhandled /\ primaryUp /\ applied' = Append(applied, m) /\ UNCHANGED dropped

\* The handler throws, before its effect or (a bound: once) after it; the mutation
\* goes back to the head of the list.
Thrown(m) ==
  /\ m \notin Unhandled
  /\ buffer' = << m >> \o buffer
  /\ \/ UNCHANGED << applied, repeated >>
     \/ /\ primaryUp /\ m \notin repeated
        /\ applied' = Append(applied, m) /\ repeated' = repeated \cup {m}

Apply ==
  /\ hand # 0
  /\ Handled(hand)
  /\ hand' = 0
  /\ UNCHANGED << dbVars, readTarget, controlVars, lagVars, replaying, buffer, otherVars, pushVars >>

PutBack_Tail ==
  /\ hand # 0 /\ hand \notin Unhandled
  /\ buffer' = Append(buffer, hand)
  /\ hand' = 0 /\ successes' = 0 /\ replaying' = FALSE
  /\ UNCHANGED << dbVars, readTarget, mode, failures, lagVars, applied, dropped, otherVars, pushVars >>

PutBack_Recovers ==
  /\ hand # 0 /\ hand \notin Unhandled
  /\ buffer' = << hand >> \o buffer
  /\ hand' = 0 /\ successes' = 0 /\ replaying' = FALSE /\ mode' = "HEALTHY"
  /\ UNCHANGED << dbVars, readTarget, failures, lagVars, applied, dropped, otherVars, pushVars >>

\* A handler that fails ends the replay; the API stays read-only.
PutBack ==
  /\ hand # 0
  /\ Thrown(hand)
  /\ hand' = 0 /\ successes' = 0 /\ replaying' = FALSE
  /\ UNCHANGED << dbVars, readTarget, mode, failures, lagVars, dropped, otherHand, twoReplays, pushVars >>

\* LPOP or LPUSH fails: check() counts it as a failed probe, and a mutation that
\* could not be put back is gone.
RedisFails ==
  /\ replaying
  /\ replaying' = FALSE /\ hand' = 0
  /\ dropped' = (IF hand = 0 THEN dropped ELSE dropped \cup {hand})
  /\ ProbeFailed
  /\ UNCHANGED << dbVars, lagVars, buffer, applied, otherVars, pushVars >>

\* bufferMutation asks for the length of the list, then pushes.
BufferMutation ==
  /\ mode # "HEALTHY" /\ pushing + pushed < MaxMutations /\ Len(buffer) < MaxBuffer
  /\ pushing' = pushing + 1
  /\ UNCHANGED << dbVars, readTarget, controlVars, lagVars, replayVars, pushed, lateMutations >>

\* What came into the list while this process was healthy.
Late(m) == lateMutations' = (IF mode = "HEALTHY" THEN lateMutations \cup {m} ELSE lateMutations)

Push ==
  /\ pushing > 0
  /\ pushing' = pushing - 1 /\ pushed' = pushed + 1
  /\ buffer' = Append(buffer, pushed + 1)
  /\ Late(pushed + 1)
  /\ UNCHANGED << dbVars, readTarget, controlVars, lagVars, replaying, hand, applied, dropped, otherVars >>

\* The process dies and is started again: it is HEALTHY whatever the list holds, and
\* the mutation it had taken from the list is gone.
Restart ==
  /\ mode' = "HEALTHY" /\ failures' = 0 /\ successes' = 0 /\ readTarget' = "REPLICA"
  /\ lagState' = "IN_SYNC" /\ healthyProbes' = 0
  /\ replaying' = FALSE /\ hand' = 0 /\ pushing' = 0
  /\ dropped' = (IF hand = 0 THEN dropped ELSE dropped \cup {hand})
  /\ lateMutations' = lateMutations \cup Range(buffer)
  /\ UNCHANGED << dbVars, buffer, applied, otherVars, pushed >>

\* Another process buffers a mutation,
OtherPushes ==
  /\ pushing + pushed < MaxMutations
  /\ pushed' = pushed + 1
  /\ buffer' = Append(buffer, pushed + 1)
  /\ Late(pushed + 1)
  /\ UNCHANGED << dbVars, readTarget, controlVars, lagVars, replaying, hand, applied, dropped, otherVars, pushing >>

\* takes the oldest one to replay it,
OtherTakes ==
  /\ otherHand = 0 /\ buffer # << >>
  /\ otherHand' = Head(buffer) /\ buffer' = Tail(buffer)
  /\ twoReplays' = (twoReplays \/ hand # 0)
  /\ UNCHANGED << dbVars, readTarget, controlVars, lagVars, replaying, hand, applied, dropped, repeated, pushVars >>

\* and applies it, puts it back, or dies.
OtherEnds ==
  /\ otherHand # 0 /\ otherHand' = 0
  /\ \/ Handled(otherHand) /\ UNCHANGED << buffer, repeated, lateMutations >>
     \/ Thrown(otherHand) /\ Late(otherHand) /\ UNCHANGED dropped
     \/ dropped' = dropped \cup {otherHand} /\ UNCHANGED << applied, buffer, repeated, lateMutations >>
  /\ UNCHANGED << dbVars, readTarget, controlVars, lagVars, replaying, hand, twoReplays, pushing, pushed >>

\* What the probe measures: EXTRACT(MILLISECONDS FROM interval) leaves out minutes.
Measured(l) == l % 60

FailOver_Once ==
  /\ lagState' = "LAGGING" /\ healthyProbes' = 0
  /\ readTarget' = IF lagState = "IN_SYNC" THEN "PRIMARY" ELSE readTarget

\* failOverToPrimary writes the target again at every bad probe.
FailOver ==
  /\ lagState' = "LAGGING" /\ healthyProbes' = 0
  /\ readTarget' = "PRIMARY"

\* A good probe; enough of them end LAGGING.
Healthy_NoReroute ==
  /\ healthyProbes' = AtMost(healthyProbes + 1, RecoveryProbes)
  /\ lagState' = (IF healthyProbes + 1 >= RecoveryProbes THEN "IN_SYNC" ELSE lagState)
  /\ UNCHANGED readTarget

Healthy ==
  /\ healthyProbes' = AtMost(healthyProbes + 1, RecoveryProbes)
  /\ IF lagState = "LAGGING" /\ healthyProbes + 1 >= RecoveryProbes
       THEN lagState' = "IN_SYNC" /\ readTarget' = "REPLICA"
       ELSE UNCHANGED << lagState, readTarget >>

\* One check() of the lag monitor.
CheckLag ==
  /\ \/ lag # NoReply /\ Measured(lag) <= LagThreshold /\ Healthy
     \/ lag = NoReply /\ FailOver
     \/ lag # NoReply /\ Measured(lag) > LagThreshold /\ FailOver
  /\ UNCHANGED << dbVars, controlVars, replayVars, pushVars >>

Recover == Shift \/ Apply \/ PutBack
FailoverNext ==
  \/ DatabasesMove \/ CheckPrimary \/ CheckLag
  \/ Recover \/ RedisFails \/ Restart
  \/ BufferMutation \/ Push
  \/ OtherPushes \/ OtherTakes \/ OtherEnds

-----------------------------------------------------------------------------
(* Properties.                                                             *)

\* Mutations are applied in the order they were buffered, through failed replays,
\* restarts and new calls, unless two processes replayed at once; one is applied a
\* second time only when its handler threw after its effect.
Precedes(m, n) == m < n \/ (m = n /\ m \in repeated)
InHand == IF hand # 0 THEN hand ELSE otherHand
ReplayedInOrder ==
  LET all == applied \o (IF InHand = 0 THEN << >> ELSE << InHand >>) \o buffer IN
    ~twoReplays => \A i, j \in DOMAIN all : i < j => Precedes(all[i], all[j])

\* No mutation disappears, also when processes replay at once, but those without a
\* handler and those in the hands of a replay that died or lost its Redis.
NoMutationLost ==
  Range(applied) \cup Range(buffer) \cup ({ hand, otherHand } \ {0}) \cup dropped = 1..pushed

\* The API accepts writes again only when the list was replayed to its end; what is
\* left was there when the process was restarted, or came in after the recovery.
HealthyDrained == mode = "HEALTHY" => Range(buffer) \subseteq lateMutations

\* Whatever the failover controller writes meanwhile, reads do not stay on a
\* replica whose measured lag stays too high.
LaggingReads == readTarget = "REPLICA" /\ (lag = NoReply \/ Measured(lag) > LagThreshold)
LaggingReadsEnd == LaggingReads ~> ~LaggingReads

\* A replica that stays in sync is read again.
ReadsReturn ==
  (readTarget = "PRIMARY" /\ lag # NoReply /\ Measured(lag) <= LagThreshold)
    ~> (readTarget = "REPLICA" \/ lag = NoReply \/ Measured(lag) > LagThreshold)

\* "reads are rerouted to the replica" while the primary is partitioned.
DegradedReadsReplica == mode = "DEGRADED_READ_ONLY" => readTarget = "REPLICA"
=============================================================================
