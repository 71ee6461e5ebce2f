----------------------------- MODULE Supervision -----------------------------
(***************************************************************************)
(* WorkerSupervisor (workers/supervisor.ts) over one forked worker, and the *)
(* WorkerLifecycleManager (lib/worker-lifecycle.ts) inside that worker,     *)
(* which drains its tasks on SIGTERM.                                       *)
(***************************************************************************)
EXTENDS Naturals, FiniteSets

CONSTANTS Tasks, MaxInFlight

VARIABLES
  child,      \* "none", "up", "frozen", "dead" (its exit event is to come), "unborn"
  forked,     \* the fork still has its exit listener
  respawns,   \* pending setTimeouts of the exit handler
  pongDue,    \* worker.pongTimeout is set
  stopped,    \* stopAll was called
  sigterm,    \* its SIGTERM has not reached the event loop of the child
  lifecycle,  \* state of the manager in the child
  inFlight,    \* tasks in activeTasks
  draining,   \* drainAndShutdown: "no", "waiting", "cleanup"
  gaveUp,     \* history: the drain timed out
  midSpawn    \* history: stopAll was called while a respawn was pending

supervisorVars == << child, forked, respawns, pongDue, stopped, sigterm, midSpawn >>
workerVars == << lifecycle, inFlight, draining, gaveUp >>
supervisionVars == << supervisorVars, workerVars >>

SupervisionInit ==
  /\ child = "up" /\ forked = TRUE /\ respawns = 0 /\ pongDue = FALSE
  /\ stopped = FALSE /\ sigterm = FALSE /\ midSpawn = FALSE
  /\ lifecycle = "INITIALIZING" /\ inFlight = {} /\ draining = "no" /\ gaveUp = FALSE

\* spawn: a new process, with a new lifecycle manager.
Spawn ==
  /\ respawns > 0
  /\ respawns' = respawns - 1
  /\ child' = "up" /\ forked' = TRUE /\ pongDue' = FALSE
  /\ lifecycle' = "INITIALIZING" /\ inFlight' = {} /\ draining' = "no" /\ gaveUp' = FALSE
  /\ sigterm' = FALSE
  /\ UNCHANGED << stopped, midSpawn >>

\* The fork fails: the child has an error event and no exit, so nothing respawns it,
\* and the deadline of a ping kills nothing.
SpawnFails ==
  /\ respawns > 0
  /\ respawns' = respawns - 1
  /\ child' = "unborn" /\ forked' = TRUE /\ pongDue' = FALSE
  /\ sigterm' = FALSE
  /\ UNCHANGED << stopped, midSpawn, workerVars >>

\* The interval pings; its deadline falls due before the next ping.
Ping ==
  /\ child \in { "up", "frozen" } /\ forked /\ ~pongDue
  /\ pongDue' = TRUE
  /\ UNCHANGED << child, forked, respawns, stopped, sigterm, midSpawn, workerVars >>

Pong ==
  /\ child = "up" /\ pongDue
  /\ pongDue' = FALSE
  /\ UNCHANGED << child, forked, respawns, stopped, sigterm, midSpawn, workerVars >>

PongTimeout_Respawns ==
  /\ pongDue /\ child \in { "up", "frozen" }
  /\ child' = "dead" /\ pongDue' = FALSE
  /\ respawns' = respawns + 1
  /\ UNCHANGED << forked, stopped, sigterm, midSpawn, workerVars >>

\* SIGKILL, whatever the child is doing.
PongTimeout ==
  /\ pongDue /\ child \in { "up", "frozen" }
  /\ child' = "dead" /\ pongDue' = FALSE
  /\ UNCHANGED << forked, respawns, stopped, sigterm, midSpawn, workerVars >>

\* The child crashes, freezes, or goes on.
ChildFaults ==
  /\ \/ child \in { "up", "frozen" } /\ child' = "dead"
     \/ child = "up" /\ child' = "frozen"
     \/ child = "frozen" /\ child' = "up"
  /\ UNCHANGED << forked, respawns, pongDue, stopped, sigterm, midSpawn, workerVars >>

ExitEvent_NoRespawn ==
  /\ child = "dead"
  /\ child' = "none" /\ pongDue' = FALSE
  /\ UNCHANGED << forked, respawns, stopped, sigterm, midSpawn, workerVars >>

ExitEvent ==
  /\ child = "dead"
  /\ child' = "none" /\ pongDue' = FALSE
  /\ respawns' = (IF forked THEN respawns + 1 ELSE respawns)
  /\ UNCHANGED << forked, stopped, sigterm, midSpawn, workerVars >>

StopAll_KeepsListener ==
  /\ ~stopped
  /\ stopped' = TRUE /\ midSpawn' = (respawns > 0)
  /\ pongDue' = FALSE
  /\ sigterm' = (child \in { "up", "frozen" })
  /\ UNCHANGED << child, forked, respawns, workerVars >>

\* stopAll ends the heartbeat, removes the exit listener and sends SIGTERM.
StopAll ==
  /\ ~stopped
  /\ stopped' = TRUE /\ midSpawn' = (respawns > 0)
  /\ forked' = FALSE /\ pongDue' = FALSE
  /\ sigterm' = (child \in { "up", "frozen" })
  /\ UNCHANGED << child, respawns, workerVars >>

\* The signal handler of the child: drainAndShutdown, once.
Sigterm ==
  /\ child = "up" /\ sigterm
  /\ sigterm' = FALSE
  /\ IF lifecycle \in { "INITIALIZING", "RUNNING" }
       THEN lifecycle' = "DRAINING" /\ draining' = "waiting"
       ELSE UNCHANGED << lifecycle, draining >>
  /\ UNCHANGED << child, forked, respawns, pongDue, stopped, midSpawn, inFlight, gaveUp >>

RunTask_WhileDraining(t) ==
  /\ child = "up" /\ t \notin inFlight /\ lifecycle # "STOPPED"
  /\ lifecycle' = (IF lifecycle = "INITIALIZING" THEN "RUNNING" ELSE lifecycle)
  /\ inFlight' = (IF Cardinality(inFlight) < MaxInFlight THEN inFlight \cup {t} ELSE inFlight)
  /\ UNCHANGED << supervisorVars, draining, gaveUp >>

\* runTask: refused while draining, skipped at the concurrency limit.
RunTask(t) ==
  /\ child = "up" /\ t \notin inFlight /\ lifecycle \in { "INITIALIZING", "RUNNING" }
  /\ lifecycle' = "RUNNING"
  /\ inFlight' = (IF Cardinality(inFlight) < MaxInFlight THEN inFlight \cup {t} ELSE inFlight)
  /\ UNCHANGED << supervisorVars, draining, gaveUp >>

EndTask(t) ==
  /\ child = "up" /\ t \in inFlight
  /\ inFlight' = inFlight \ {t}
  /\ UNCHANGED << supervisorVars, lifecycle, draining, gaveUp >>

\* Every task has settled, or drainTimeoutMs has passed: the cleanup handlers run.
Drained ==
  /\ child = "up" /\ draining = "waiting"
  /\ \/ inFlight = {} /\ UNCHANGED gaveUp
     \/ inFlight # {} /\ gaveUp' = TRUE
  /\ draining' = "cleanup"
  /\ UNCHANGED << supervisorVars, lifecycle, inFlight >>

\* The last handler returns: STOPPED, then process.exit(0).
CleanedUp ==
  /\ child = "up" /\ draining = "cleanup"
  /\ lifecycle' = "STOPPED" /\ draining' = "no"
  /\ child' = "dead"
  /\ UNCHANGED << forked, respawns, pongDue, stopped, sigterm, midSpawn, inFlight, gaveUp >>

SupervisionNext ==
  \/ Spawn \/ SpawnFails \/ Ping \/ Pong \/ PongTimeout \/ ChildFaults \/ ExitEvent \/ StopAll
  \/ Sigterm \/ Drained \/ CleanedUp
  \/ \E t \in Tasks : RunTask(t) \/ EndTask(t)


-----------------------------------------------------------------------------
(* Properties.                                                             *)

\* However exits, kills, freezes and late pongs are ordered there is at most one
\* process of a worker, counting the one that is about to be forked.
OneProcess == respawns + (IF child \in { "up", "frozen" } THEN 1 ELSE 0) <= 1

\* After stopAll no worker is forked, unless its respawn was already scheduled.
StopsForGood == stopped /\ ~midSpawn => respawns = 0

\* Resources are closed under a task only after the drain has timed out.
CleanupAfterTasks == draining = "cleanup" /\ ~gaveUp => inFlight = {}

\* A worker that crashed or froze is up again, unless it was stopped or its process
\* could not be forked.
WorkerReturns == (child # "up" /\ ~stopped) ~> (child \in { "up", "unborn" } \/ stopped)
=============================================================================
