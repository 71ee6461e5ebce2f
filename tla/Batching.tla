------------------------------ MODULE Batching ------------------------------
(***************************************************************************)
(* BatchDispatcher (modules/alerts/batch-dispatcher.ts) with the worker     *)
(* that posts its batches (workers/batch-dispatcher.worker.ts), for one     *)
(* target, through SIGTERM, SIGINT and exit.  Events are numbered as enqueued. *)
(***************************************************************************)
EXTENDS Naturals, Sequences, Functions

CONSTANTS MaxEvents, MaxBatchSize

VARIABLES
  enqueued,   \* events accepted so far
  pending,    \* state.events of the target
  timerOn,    \* state.timer
  posting,    \* batches whose deliverBatch is under way
  awaited,    \* the batch stop() waits for
  reported,   \* events of batches whose result is known
  lost,       \* events nobody will post
  batcher,    \* the worker process: "running", "stopping", "exited"
  atStop,     \* history: events being posted when the signal came
  stopAt,     \* history: events enqueued before it
  hurried     \* history: a second signal came before the exit

stopVars == << atStop, stopAt, hurried >>
batchingVars == << enqueued, pending, timerOn, posting, awaited, reported, lost, batcher, stopVars >>

BatchingInit ==
  /\ enqueued = 0 /\ pending = << >> /\ timerOn = FALSE
  /\ posting = {} /\ awaited = << >> /\ reported = {} /\ lost = {}
  /\ batcher = "running" /\ atStop = {} /\ stopAt = 0 /\ hurried = FALSE

\* flush emits the batch; after stop() nobody listens.
Flush(events) ==
  /\ pending' = << >> /\ timerOn' = FALSE
  /\ IF batcher = "running"
       THEN posting' = posting \cup {events} /\ UNCHANGED lost
       ELSE lost' = lost \cup Range(events) /\ UNCHANGED posting

\* Count threshold, or the window timer.
Enqueue ==
  /\ batcher # "exited" /\ enqueued < MaxEvents
  /\ enqueued' = enqueued + 1
  /\ LET events == Append(pending, enqueued + 1) IN
       IF Len(events) >= MaxBatchSize
         THEN Flush(events)
         ELSE pending' = events /\ timerOn' = TRUE /\ UNCHANGED << posting, lost >>
  /\ UNCHANGED << awaited, reported, batcher, stopVars >>

WindowCloses_NoFlush ==
  /\ timerOn
  /\ timerOn' = FALSE
  /\ UNCHANGED << enqueued, pending, posting, awaited, reported, lost, batcher, stopVars >>

WindowCloses ==
  /\ timerOn /\ batcher # "exited"
  /\ Flush(pending)
  /\ UNCHANGED << enqueued, awaited, reported, batcher, stopVars >>

\* deliverBatch never throws: posted, refused for want of a URL or secret, or failed.
DeliverBatch(b) ==
  /\ b \in posting /\ batcher # "exited"
  /\ posting' = posting \ {b}
  /\ reported' = reported \cup Range(b)
  /\ UNCHANGED << enqueued, pending, timerOn, awaited, lost, batcher, stopVars >>

\* stop(): the listener goes first, then what is pending is posted and awaited.
Stop ==
  /\ batcher = "running"
  /\ batcher' = "stopping"
  /\ atStop' = UNION { Range(b) : b \in posting }
  /\ stopAt' = enqueued
  /\ awaited' = pending
  /\ posting' = (IF pending = << >> THEN posting ELSE posting \cup {pending})
  /\ pending' = << >> /\ timerOn' = FALSE
  /\ UNCHANGED << enqueued, reported, lost, hurried >>

\* process.exit: every post under way is cut off, and the timers are gone.
Ended ==
  /\ batcher' = "exited"
  /\ lost' = lost \cup Range(pending) \cup UNION { Range(b) : b \in posting }
  /\ pending' = << >> /\ posting' = {} /\ timerOn' = FALSE
  /\ UNCHANGED << enqueued, awaited, reported, atStop, stopAt >>

Exit_NoWait ==
  /\ batcher = "stopping"
  /\ Ended
  /\ UNCHANGED hurried

\* The process ends after the awaited batch; it does not wait for what onFlush posts.
Exit ==
  /\ batcher = "stopping" /\ awaited \notin posting
  /\ Ended
  /\ UNCHANGED hurried

\* The other signal: stop() returns at once, and the process ends whatever is awaited
\* (the same signal again, whose handler is gone, ends it too).
SecondSignal ==
  /\ batcher = "stopping"
  /\ hurried' = TRUE
  /\ Ended

BatchingNext ==
  \/ Enqueue \/ WindowCloses \/ Stop \/ Exit \/ SecondSignal
  \/ \E b \in posting : DeliverBatch(b)


-----------------------------------------------------------------------------
(* Properties.                                                             *)

\* What was buffered when the signal came is posted before the process exits: an
\* event is lost only if its post was under way then, if it came later, or if the
\* post stop() waited for was cut by a second signal; none is lost after its result.
OnlyOverlapLost ==
  /\ \A e \in lost : e \in atStop \/ e > stopAt \/ (hurried /\ e \in Range(awaited))
  /\ lost \cap reported = {}

\* An event below the count threshold does not wait in the buffer forever.
BufferDrains == \A e \in 1..MaxEvents : e \in Range(pending) ~> e \notin Range(pending)
=============================================================================
