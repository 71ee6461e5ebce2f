----------------------------- MODULE MCServices -----------------------------
(***************************************************************************)
(* The services around the pipeline, for TLC.  They share no state, so a    *)
(* behaviour is one of ONE service, chosen at the start: the state graph is *)
(* the disjoint union of theirs.                                            *)
(***************************************************************************)
EXTENDS Naturals, FiniteSets, Sequences

CONSTANTS
  Parts,  \* the services this run looks at
  Rotations, MaxToken,
  Recoveries, Codes, MaxGuesses, MaxWindows,
  Calls,
  Copies, Servers, Drift, NonceTTL, RoundTrip, Stamp, Horizon,
  FailureThreshold, RecoveryThreshold, LagThreshold, RecoveryProbes, Lags,
    MaxMutations, MaxBuffer, Unhandled,
  Executions, Threshold,
  MaxEvents, MaxBatchSize,
  Dispatches, MaxConcurrent, Burst, MaxTries,
  Tasks, MaxInFlight,
  Log, Tip, PageSize, BackfillWindow,
  Accounts, SignerLists, MaxProposals,
  Passes, Cosigners, Weight, Required, MaxTracks,
  Appenders, PaymentOf, MaxAttempts,
  Jobs, Runners, MaxActive,
  Nodes, Records, MaxRemembered, MaxOpened,
  MaxConnects,
  Visits, MaxChallenges,
  Generations, Confirms, Unlinks,
  MaxPublished, DedupWindow, MaxRetries, MaxRuns, MaxHandled,
  Watched, Foreign, LastLedger, EventPage, Lookback, Warning, Polls, MaxPolls,
  Payloads, MaxLeaves, MaxEdits,
  Rotators, Deliveries

ASSUME AccessOK ==
  /\ MaxToken \in Nat
  /\ IsFiniteSet(Recoveries)
  /\ { MaxGuesses, MaxWindows } \subseteq Nat \ {0}
  /\ MaxChallenges \in Nat
  /\ "none" \notin Calls
  /\ Rotators \cap { 0, 98, 99 } = {}

\* A nonce is kept for longer than its request can be accepted.
ASSUME NoncesOK ==
  /\ IsFiniteSet(Copies) /\ IsFiniteSet(Servers)
  /\ { Drift, NonceTTL, RoundTrip, Stamp, Horizon } \subseteq Nat
  /\ NonceTTL > 2 * Drift + RoundTrip

ASSUME ResilienceOK ==
  /\ IsFiniteSet(Dispatches)
  /\ Threshold \in Nat \ {0}

ASSUME RegistryOK ==
  /\ SignerLists \subseteq Seq(Accounts)
  /\ MaxProposals \in Nat

ASSUME ExportsOK == IsFiniteSet(Jobs) /\ "no job" \notin Jobs /\ MaxActive \in Nat
ASSUME ChainOK == MaxAttempts \in Nat
ASSUME QuorumOK == IsFiniteSet(Nodes) /\ Records \in Nat

\* Events come in the order of their ledgers.
ASSUME SorobanOK ==
  /\ Tip \in Nat \ {0} /\ PageSize \in Nat /\ BackfillWindow \in Nat
  /\ Log \in Seq([ledger : 1..Tip, hash : STRING, ok : BOOLEAN])
  /\ \A i, j \in 1..Len(Log) : i <= j => Log[i].ledger <= Log[j].ledger
ASSUME WatchedOK ==
  /\ EventPage \in Nat /\ Lookback \in Nat
  /\ Watched \in Seq([ledger : Nat, paid : STRING, high : BOOLEAN, until : Nat])
  /\ \A d, e \in 1..Len(Watched) : d <= e => Watched[d].ledger <= Watched[e].ledger

ASSUME CliOK == MaxPublished \in Nat /\ DedupWindow \in Nat \ {0}

VARIABLES
  part,   \* the service of this behaviour
  revoked, cached, current, issued, consumed, rotation, presented, seenJti,
    logout, late, stale,
  unused, mfaEnabled, window, guesses, recovery, code, limit, wins, crowded,
  answer, call, keyed, reply, executed, excused, crowd,
  now, redisUntil, localUntil, copy, since, server, outage,
  primaryUp, lag, readTarget, mode, failures, successes, lagState,
    healthyProbes, replaying, buffer, hand, applied, dropped, otherHand,
    pushing, pushed, twoReplays, repeated, lateMutations,
  state, failed, openedAt, step, purpose, writes, crossed, lossy,
  enqueued, pending, timerOn, posting, awaited, reported, lost, batcher,
    atStop, stopAt, hurried,
  active, inWindow, dispatch, tries,
  child, forked, respawns, pongDue, stopped, sigterm, lifecycle, inFlight,
    draining, gaveUp, midSpawn,
  latest, cursor, rows, pass, from, end, start, reached, first, cut,
  admin, signers, threshold, proposals, config, written, quorum,
  envelope, txStatus, notified, poll, heldXdr, heldList, toNotify, told,
    tracks, reminders, disturbed,
  chain, appender, tail, attempt, beganAt,
  job, file, overdue, due, run, expiring, claims, racedJobs, stranded,
  horizonTip, feed, redial, votes, remembered, emissions, shut, forgotten,
  begun, awaiting, open, currentConn, heartbeat, timers, tracked, fresh,
    freshTask, streamClosed, overlap,
  linkKey, linkSent, challenge, requested, aged, visit, shown, sharedProof,
    stored, gone, displaced,
  codes, usedCodes, pastDue, linkedBy, generation, confirm, confirmCode,
    unlink, links, rivals, crossing, unlinked, early,
  published, runs, stage, position, cliCursor, seenIds, keeps, retries, saved,
    handled, ran, skipped, unsaved, resent,
  watcher, closed, snapshots, foreign, pollCount, polling, asOf, firstLedger,
    todo, tally, noticed, detected, missed, overlapping,
  dayRows, dayOver, dailyRoot, rolledUp, edits,
  secrets, graceOver, rotator, demoted, configured, delivery, loaded, lineage,
    clash, overtaken, rejected

Se == INSTANCE Sessions
Re == INSTANCE Recovery
Rq == INSTANCE Requests
No == INSTANCE Nonces
Fo == INSTANCE Failover
Br == INSTANCE Breaker
Ba == INSTANCE Batching
Sl == INSTANCE WalletSlots
Su == INSTANCE Supervision
So == INSTANCE SorobanIndex
Rg == INSTANCE Registry
Mu == INSTANCE Multisig
Ch == INSTANCE ChecksumChain
Ex == INSTANCE Exports
Qs == INSTANCE QuorumStream
Sc == INSTANCE StreamConnect
Si == INSTANCE SignIn
Tl == INSTANCE TelegramLink
Cl == INSTANCE CliStream
Ew == INSTANCE EventWatchers
Dr == INSTANCE DailyRoot
Sr == INSTANCE SecretRotation

sessionsState ==
  << revoked, cached, current, issued, consumed, rotation, presented, seenJti,
     logout, late, stale >>
recoveryState ==
  << unused, mfaEnabled, window, guesses, recovery, code, limit, wins, crowded >>
requestsState ==
  << answer, call, keyed, reply, executed, excused, crowd >>
noncesState ==
  << now, redisUntil, localUntil, copy, since, server, outage >>
failoverState ==
  << primaryUp, lag, readTarget, mode, failures, successes, lagState,
     healthyProbes, replaying, buffer, hand, applied, dropped, otherHand,
     pushing, pushed, twoReplays, repeated, lateMutations >>
breakerState ==
  << state, failed, openedAt, step, purpose, writes, crossed, lossy >>
batchingState ==
  << enqueued, pending, timerOn, posting, awaited, reported, lost, batcher,
     atStop, stopAt, hurried >>
slotsState ==
  << active, inWindow, dispatch, tries >>
supervisionState ==
  << child, forked, respawns, pongDue, stopped, sigterm, lifecycle, inFlight,
     draining, gaveUp, midSpawn >>
sorobanState ==
  << latest, cursor, rows, pass, from, end, start, reached, first, cut >>
registryState ==
  << admin, signers, threshold, proposals, config, written, quorum >>
multisigState ==
  << envelope, txStatus, notified, poll, heldXdr, heldList, toNotify, told,
     tracks, reminders, disturbed >>
chainState ==
  << chain, appender, tail, attempt, beganAt >>
exportsState ==
  << job, file, overdue, due, run, expiring, claims, racedJobs, stranded >>
quorumState ==
  << horizonTip, feed, redial, votes, remembered, emissions, shut, forgotten >>
connectState ==
  << begun, awaiting, open, currentConn, heartbeat, timers, tracked, fresh,
     freshTask, streamClosed, overlap >>
signinState ==
  << linkKey, linkSent, challenge, requested, aged, visit, shown, sharedProof,
     stored, gone, displaced >>
telegramState ==
  << codes, usedCodes, pastDue, linkedBy, generation, confirm, confirmCode,
     unlink, links, rivals, crossing, unlinked, early >>
cliState ==
  << published, runs, stage, position, cliCursor, seenIds, keeps, retries, saved,
     handled, ran, skipped, unsaved, resent >>
eventsState ==
  << watcher, closed, snapshots, foreign, pollCount, polling, asOf,
     firstLedger, todo, tally, noticed, detected, missed, overlapping >>
rootState ==
  << dayRows, dayOver, dailyRoot, rolledUp, edits >>
secretsState ==
  << secrets, graceOver, rotator, demoted, configured, delivery, loaded, lineage,
     clash, overtaken, rejected >>
vars ==
  << part, sessionsState, recoveryState, requestsState, noncesState, failoverState,
     breakerState, batchingState, slotsState, supervisionState, sorobanState,
     registryState, multisigState, chainState, exportsState, quorumState,
     connectState, signinState, telegramState, cliState, eventsState, rootState,
     secretsState >>

Init ==
  /\ part \in Parts
  /\ Se!SessionsInit
  /\ Re!RecoveryInit
  /\ Rq!RequestsInit
  /\ No!NoncesInit
  /\ Fo!FailoverInit
  /\ Br!BreakerInit
  /\ Ba!BatchingInit
  /\ Sl!SlotsInit
  /\ Su!SupervisionInit
  /\ So!SorobanInit
  /\ Rg!RegistryInit
  /\ Mu!MultisigInit
  /\ Ch!ChainInit
  /\ Ex!ExportsInit
  /\ Qs!QuorumInit
  /\ Sc!ConnectInit
  /\ Si!SignInInit
  /\ Tl!TelegramInit
  /\ Cl!CliInit
  /\ Ew!EventWatchersInit /\ (part # "events" => watcher = "allowance")
  /\ Dr!DailyRootInit
  /\ Sr!SecretInit

\* The other services stay where they began.
Frame(p) ==
  /\ UNCHANGED part
  /\ IF p = "sessions" THEN TRUE ELSE UNCHANGED sessionsState
  /\ IF p = "recovery" THEN TRUE ELSE UNCHANGED recoveryState
  /\ IF p = "requests" THEN TRUE ELSE UNCHANGED requestsState
  /\ IF p = "nonces" THEN TRUE ELSE UNCHANGED noncesState
  /\ IF p = "failover" THEN TRUE ELSE UNCHANGED failoverState
  /\ IF p = "breaker" THEN TRUE ELSE UNCHANGED breakerState
  /\ IF p = "batching" THEN TRUE ELSE UNCHANGED batchingState
  /\ IF p = "slots" THEN TRUE ELSE UNCHANGED slotsState
  /\ IF p = "supervision" THEN TRUE ELSE UNCHANGED supervisionState
  /\ IF p = "soroban" THEN TRUE ELSE UNCHANGED sorobanState
  /\ IF p = "registry" THEN TRUE ELSE UNCHANGED registryState
  /\ IF p = "multisig" THEN TRUE ELSE UNCHANGED multisigState
  /\ IF p = "chain" THEN TRUE ELSE UNCHANGED chainState
  /\ IF p = "exports" THEN TRUE ELSE UNCHANGED exportsState
  /\ IF p = "quorum" THEN TRUE ELSE UNCHANGED quorumState
  /\ IF p = "connect" THEN TRUE ELSE UNCHANGED connectState
  /\ IF p = "signin" THEN TRUE ELSE UNCHANGED signinState
  /\ IF p = "telegram" THEN TRUE ELSE UNCHANGED telegramState
  /\ IF p = "cli" THEN TRUE ELSE UNCHANGED cliState
  /\ IF p = "events" THEN TRUE ELSE UNCHANGED eventsState
  /\ IF p = "root" THEN TRUE ELSE UNCHANGED rootState
  /\ IF p = "secrets" THEN TRUE ELSE UNCHANGED secretsState

Next ==
  \/ part = "sessions" /\ Se!SessionsNext /\ Frame("sessions")
  \/ part = "recovery" /\ Re!RecoveryNext /\ Frame("recovery")
  \/ part = "requests" /\ Rq!RequestsNext /\ Frame("requests")
  \/ part = "nonces" /\ No!NoncesNext /\ Frame("nonces")
  \/ part = "failover" /\ Fo!FailoverNext /\ Frame("failover")
  \/ part = "breaker" /\ Br!BreakerNext /\ Frame("breaker")
  \/ part = "batching" /\ Ba!BatchingNext /\ Frame("batching")
  \/ part = "slots" /\ Sl!SlotsNext /\ Frame("slots")
  \/ part = "supervision" /\ Su!SupervisionNext /\ Frame("supervision")
  \/ part = "soroban" /\ So!SorobanNext /\ Frame("soroban")
  \/ part = "registry" /\ Rg!RegistryNext /\ Frame("registry")
  \/ part = "multisig" /\ Mu!MultisigNext /\ Frame("multisig")
  \/ part = "chain" /\ Ch!ChainNext /\ Frame("chain")
  \/ part = "exports" /\ Ex!ExportsNext /\ Frame("exports")
  \/ part = "quorum" /\ Qs!QuorumNext /\ Frame("quorum")
  \/ part = "connect" /\ Sc!ConnectNext /\ Frame("connect")
  \/ part = "signin" /\ Si!SignInNext /\ Frame("signin")
  \/ part = "telegram" /\ Tl!TelegramNext /\ Frame("telegram")
  \/ part = "cli" /\ Cl!CliNext /\ Frame("cli")
  \/ part = "events" /\ Ew!EventWatchersNext /\ Frame("events")
  \/ part = "root" /\ Dr!DailyRootNext /\ Frame("root")
  \/ part = "secrets" /\ Sr!SecretNext /\ Frame("secrets")

Spec == Init /\ [][Next]_vars

\* A step of one service, as fairness is about it.
Step(p, A) == part = p /\ A /\ Frame(p)

\* Timers: the lag monitor's, the batch window's, a waiting dispatch's, the
\* supervisor's, the multisig poll's, the export cleanup's and the quorum fallback's.  Pongs, posts,
\* tasks, exports and the recovery of a database are not assumed to happen.  A
\* multisig pass is not interrupted each time before it has written its row.
Fairness ==
  /\ WF_vars(Step("failover", Fo!CheckLag))
  /\ WF_vars(Step("batching", Ba!WindowCloses))
  /\ \A d \in Dispatches : WF_vars(Step("slots", Sl!TrySlot(d) \/ Sl!ForceEntry(d)))
  /\ WF_vars(Step("supervision", Su!Spawn \/ Su!ExitEvent))
  /\ WF_vars(Step("supervision", Su!Ping)) /\ WF_vars(Step("supervision", Su!PongTimeout))
  /\ \A p \in Passes :
       /\ WF_vars(Step("multisig", Mu!LoadPending(p)))
       /\ SF_vars(Step("multisig", Mu!FindNotified(p)))
       /\ SF_vars(Step("multisig", Mu!UpdateProgress(p)))
       /\ WF_vars(Step("multisig", Mu!Notify(p) \/ Mu!RecordNotified(p)))
  /\ \A j \in Jobs : WF_vars(Step("exports", Ex!FailStale(j)))
  /\ WF_vars(Step("quorum", Qs!Fallback))

FairSpec == Spec /\ Fairness

-----------------------------------------------------------------------------
(* Values of the constants that a configuration cannot write.              *)

\* Two events of ledger 2, of which a page holds one, one that cannot be decoded,
\* and one whose row is that of another.
MCLog ==
  << [ledger |-> 1, hash |-> "a", ok |-> TRUE],  [ledger |-> 2, hash |-> "a", ok |-> TRUE],
     [ledger |-> 2, hash |-> "b", ok |-> TRUE],  [ledger |-> 3, hash |-> "a", ok |-> FALSE],
     [ledger |-> 4, hash |-> "b", ok |-> TRUE],  [ledger |-> 5, hash |-> "a", ok |-> TRUE] >>
MCSignerLists == { << "p", "q" >>, << "q", "r" >>, << "p", "q", "r" >>, << "p", "p" >> }
MCWeight == [s \in Cosigners |-> IF s = "p" THEN 2 ELSE 1]
\* Two equal approvals of one ledger, of which a page may hold one, and that are
\* about to expire when they are first seen, and one that is only about to expire.
MCWatched ==
  << [ledger |-> 1, paid |-> "a", high |-> TRUE, until |-> 9], [ledger |-> 2, paid |-> "b", high |-> TRUE, until |-> 4],
     [ledger |-> 2, paid |-> "b", high |-> TRUE, until |-> 5], [ledger |-> 3, paid |-> "c", high |-> FALSE, until |-> 5] >>
MCPaymentOf == [a \in Appenders |-> IF a = "a4" THEN "a3" ELSE a]

-----------------------------------------------------------------------------
(* The properties: per subject, those of the modules that share it.  Each   *)
(* part is stated with its module.                                          *)

\* A request that begins with a token that is no longer current, or after its
\* family was revoked, gets no new tokens; the token the session names is unused,
\* so that of the successors of a token rotated twice only one rotates again.
SessionsSafe == Se!StaleTokenRefused /\ Se!CurrentUnused

\* Recovery codes, magic links, DID challenges and Telegram codes work once, and
\* not after they were replaced or revoked, except for requests that had read them
\* before; guesses are bounded; a challenge in use is lost to an older visit only when
\* that one had read the key first.
CredentialsOnce ==
  /\ Re!CodePaysOnce /\ Re!GuessesBounded
  /\ Si!LinkOnce /\ Si!ChallengeOnce /\ Si!ChallengeStays
  /\ Tl!CodeLinksOnce /\ Tl!OneUsableCode /\ Tl!UnlinkRevokes

\* A request of one idempotency key or one nonce has its effect once, unless two
\* overlapped or a store was lost, and a replayed answer is that of a success.
RequestsOnce ==
  Rq!SecondNeedsOverlap /\ Rq!ReplayIsGenuine /\ No!AcceptedOncePerStore

\* Mutations buffered during an outage are applied in their order through failed
\* replays and restarts unless two processes replay at once, none disappears but from
\* the hands of a replay that ended, and the API accepts writes again only when the
\* list was empty or the process is new.
FailoverSafe == Fo!ReplayedInOrder /\ Fo!NoMutationLost /\ Fo!HealthyDrained

\* A breaker that reached its threshold is not left closed, and one that is open
\* has the time its cooldown is counted from, however records of several
\* processes are interleaved; two trips of a closed one are the one exception.
BreakerSafe == Br!OpenHasClock /\ Br!ClosedBelowThreshold

\* The slot counter of a wallet is the number of dispatches inside, forced ones
\* included, and the batch worker loses on exit only posts that were under way,
\* events that came after the signal, and what a second signal cut off.
DispatchSafe == Sl!SlotsBalance /\ Ba!OnlyOverlapLost

\* There is at most one process of a worker, none is forked anew after stopAll, and
\* resources are closed under a task only when the drain has timed out.
SupervisionSafe == Su!OneProcess /\ Su!StopsForGood /\ Su!CleanupAfterTasks

\* What a checkpoint or a row has passed was stored and told, once, but for what a
\* full page cut off, a notice that failed and polls that overlapped.
WatchersSafe ==
  /\ So!CheckpointCovers
  /\ Ew!EventToldOnce /\ Ew!PassedIsTold /\ Ew!CountedOnce
  /\ Mu!ReminderOnce

\* A proposal of the registry contract takes effect once, with as many distinct
\* approvers as the threshold of that moment, though signers, threshold and admin
\* are replaced while it is pending and after it was executed.
ProposalsSafe == Rg!ExecutedHadQuorum /\ Rg!ExecutedOnce

\* The checksum chain never forks however appends race, an append that met no plain
\* database error gives up only when overtaken at every attempt, and a day's payments
\* verify against its root exactly while no stored checksum differs from those of its
\* last roll-up.
AuditSafe ==
  Ch!ChainNeverForks /\ Ch!GapNeedsRivals /\ Dr!UntouchedVerifies /\ Dr!EditedFails

\* An export delivered twice is generated once, a download that is offered has its
\* file, and the limit of active jobs holds but for creations that overlapped.
ExportsSafe == Ex!GeneratedOnce /\ Ex!FilesMatchRows /\ Ex!ActiveLimit

\* Streams hand records on once and in order, leave nothing out below what they
\* handed on or saved, keep one connection and always a way to reconnect, but for
\* the named overlaps, forgotten records, unsaved or chosen cursors and a server that
\* sends again what the cursor did not ask for.
StreamsSafe ==
  /\ Qs!HandedOnce /\ Qs!HandedInOrder
  /\ Sc!NoStrayConnection /\ Sc!NeverStranded
  /\ Cl!NoGapBelow /\ Cl!TwiceNeedsReplay

\* A webhook's subscriber with the secret of the newest rotation, or of the one before
\* it and within its grace, verifies every delivery, unless rotations overlapped or
\* the delivery had read the row before one; what the creation returned is excepted.
SubscriberVerifies == Sr!SubscriberVerifies

\* Whatever the failover controller writes meanwhile, reads do not stay on a replica
\* whose measured lag stays too high, and one that stays in sync is read again.
ReadsFollowReplica == Fo!LaggingReadsEnd /\ Fo!ReadsReturn

\* Nothing waits for ever: neither a buffered event, nor a dispatch for a slot, nor
\* a signed envelope for its status, nor an export, nor a record only one Horizon
\* node has shown, nor the work of a worker that crashed or froze and was not stopped.
WorkEnds ==
  /\ Su!WorkerReturns
  /\ Ba!BufferDrains /\ Sl!DispatchEnters /\ Mu!MultisigSettles
  /\ Ex!ExportsEnd /\ Qs!SeenIsHandedOn

\* "reads are rerouted to the replica" while the primary is partitioned.
DegradedReadsReplica == Fo!DegradedReadsReplica
=============================================================================
