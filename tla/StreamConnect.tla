---------------------------- MODULE StreamConnect ----------------------------
(***************************************************************************)
(* The connections of one wallet's stream: connect, its heartbeat and its   *)
(* reconnect timer in startHorizonSSEStream (workers/watcher.worker.ts).    *)
(* connect awaits ensureCursor between closing the old connection and       *)
(* opening the new one; timers and failing records may fire meanwhile.      *)
(* What the messages carry is the business of module Ingestion.             *)
(***************************************************************************)
EXTENDS Naturals

CONSTANTS MaxConnects  \* bound: calls of connect

VARIABLES
  begun,         \* calls of connect so far; a call's number names its connection
  awaiting,      \* calls that await ensureCursor
  open,          \* connections that deliver
  currentConn,   \* the connection currentClose closes, 0 for none
  heartbeat,     \* heartbeatTimeout is running
  timers,        \* reconnect timers that are running
  tracked,       \* reconnectTimeout names one of them
  fresh,         \* connections of the current streamGeneration
  freshTask,     \* a record of such a connection is queued
  streamClosed,  \* isClosed
  overlap        \* history: connect or close was called while a connect awaited

Connects == 1..MaxConnects

ConnectInit ==
  /\ begun = 1 /\ awaiting = {1} /\ open = {} /\ currentConn = 0
  /\ heartbeat = FALSE /\ timers = 0 /\ tracked = FALSE
  /\ fresh = {} /\ freshTask = FALSE /\ streamClosed = FALSE /\ overlap = FALSE

\* What cleanupCurrent leaves.
TimersAfterCleanup == IF tracked THEN timers - 1 ELSE timers
CleanupCurrent_KeepsOpen == open' = open /\ currentConn' = 0
CleanupCurrent == open' = open \ {currentConn} /\ currentConn' = 0

\* connect up to its await.
BeginConnect(running) ==
  /\ begun < MaxConnects
  /\ IF streamClosed
       THEN timers' = running /\ UNCHANGED << begun, awaiting, open, currentConn, overlap >>
       ELSE /\ CleanupCurrent
            /\ timers' = running
            /\ begun' = begun + 1 /\ awaiting' = awaiting \cup {begun + 1}
            /\ overlap' = (overlap \/ awaiting # {})
  /\ UNCHANGED << fresh, freshTask, streamClosed >>

HeartbeatFires ==
  /\ heartbeat
  /\ heartbeat' = FALSE
  /\ BeginConnect(IF streamClosed THEN timers ELSE TimersAfterCleanup)
  /\ tracked' = (tracked /\ streamClosed)

\* The timer reconnectTimeout names, or one whose name was overwritten; either
\* way connect clears the named one and the heartbeat.
TimerFires ==
  /\ timers > 0
  /\ \/ tracked /\ BeginConnect(timers - 1) /\ tracked' = FALSE
     \/ /\ timers > (IF tracked THEN 1 ELSE 0)
        /\ BeginConnect(IF streamClosed THEN timers - 1 ELSE TimersAfterCleanup - 1)
        /\ tracked' = (tracked /\ streamClosed)
  /\ heartbeat' = (heartbeat /\ streamClosed)

CursorRead_NoHeartbeat(c) ==
  /\ c \in awaiting
  /\ awaiting' = awaiting \ {c}
  /\ open' = open \cup {c} /\ fresh' = fresh \cup {c} /\ currentConn' = c
  /\ UNCHANGED << begun, heartbeat, timers, tracked, freshTask, streamClosed, overlap >>

\* The connection is opened, also when the stream was closed during the await.
CursorRead(c) ==
  /\ c \in awaiting
  /\ awaiting' = awaiting \ {c}
  /\ heartbeat' = TRUE
  /\ open' = open \cup {c} /\ fresh' = fresh \cup {c} /\ currentConn' = c
  /\ UNCHANGED << begun, timers, tracked, freshTask, streamClosed, overlap >>

\* ensureCursor throws: the next attempt is scheduled under the name of the last.
CursorFails(c) ==
  /\ c \in awaiting
  /\ awaiting' = awaiting \ {c}
  /\ IF streamClosed THEN UNCHANGED << timers, tracked >>
     ELSE timers' = timers + 1 /\ tracked' = TRUE
  /\ UNCHANGED << begun, open, currentConn, heartbeat, fresh, freshTask, streamClosed, overlap >>

\* restartFromPersistedCursor for the current generation.
RestartStream ==
  /\ CleanupCurrent
  /\ heartbeat' = FALSE
  /\ timers' = TimersAfterCleanup + 1 /\ tracked' = TRUE
  /\ fresh' = {} /\ freshTask' = FALSE
  /\ UNCHANGED << begun, awaiting, streamClosed, overlap >>

\* A record arrives and is queued, or dropped by a full queue.
Message(c) ==
  /\ c \in open
  /\ \/ /\ heartbeat' = TRUE
        /\ freshTask' = (freshTask \/ c \in fresh)
        /\ UNCHANGED << begun, awaiting, open, currentConn, timers, tracked, fresh, streamClosed, overlap >>
     \/ c \in fresh /\ ~streamClosed /\ RestartStream

\* The queued records of the generation are processed, or one throws.
TaskEnds ==
  /\ freshTask
  /\ \/ /\ freshTask' = FALSE
        /\ UNCHANGED << begun, awaiting, open, currentConn, heartbeat, timers, tracked, fresh, streamClosed, overlap >>
     \/ ~streamClosed /\ RestartStream

CloseStream ==
  /\ ~streamClosed
  /\ streamClosed' = TRUE
  /\ CleanupCurrent
  /\ heartbeat' = FALSE
  /\ timers' = TimersAfterCleanup /\ tracked' = FALSE
  /\ overlap' = (overlap \/ awaiting # {})
  /\ UNCHANGED << begun, awaiting, fresh, freshTask >>

ConnectNext ==
  \/ HeartbeatFires \/ TimerFires \/ TaskEnds \/ CloseStream
  \/ \E c \in Connects : CursorRead(c) \/ CursorFails(c) \/ Message(c)

-----------------------------------------------------------------------------
(* Properties.                                                             *)

\* Every connection that delivers can be closed by currentClose; only a connect
\* that another connect or the close overtook may leave one behind.
NoStrayConnection == ~overlap => open \subseteq {currentConn}

\* Until it is closed the stream always has something that will bring it back: a
\* running heartbeat, a running timer or a connect under way.
NeverStranded == streamClosed \/ heartbeat \/ timers > 0 \/ awaiting # {}
=============================================================================
