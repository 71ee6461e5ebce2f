------------------------------ MODULE Pipeline ------------------------------
(***************************************************************************)
(* One payment from its outbox event to its provider: the relays of Outbox *)
(* add a BullMQ job (enqueuePaymentAlertStrict, lib/queue.ts), whose        *)
(* executions are those of Delivery on one gated channel.  The job id is    *)
(* made of the transaction, so adding does nothing while a job of that id   *)
(* is kept; finished jobs are kept for a while only, after which a repeated *)
(* event is a new job.  Faults are those of the outbox: executions run to   *)
(* their end and are answered (Delivery and Alerts have the others), so a   *)
(* gate is always released and never left to its TTL.                       *)
(***************************************************************************)
EXTENDS Outbox

CONSTANTS
  Payment,         \* the event of the payment
  Jobs,            \* 1..n: the jobs its id may have stood for, in order
  MaxRuns, GateRetry, Channel

ASSUME PipelineOK ==
  /\ Payment \in Events
  /\ IsFiniteSet(Jobs) /\ Jobs = 1..Cardinality(Jobs)
  /\ MaxRuns \in Nat \ {0} /\ GateRetry \in Nat /\ Channel \in { "webhook", "email", "push" }

VARIABLES
  kept,            \* the job BullMQ keeps under the id, 0 if none
  added,           \* how many jobs there were
  delivery, attempts, gate, place, runs, tries, seen, row, outcome, sent, waived,
  lapsed, stranded

D == INSTANCE Delivery WITH pc <- place, Faults <- {}

deliveryState ==
  << delivery, attempts, gate, place, runs, tries, seen, row, outcome, sent,
     waived, lapsed, stranded >>
pipelineVars == << vars, kept, added, deliveryState >>

PipelineInit == Init /\ D!Init /\ kept = 0 /\ added = 0

\* The old job is taken away for the new one.
AddJob_Replaces ==
  added < Cardinality(Jobs) /\ added' = added + 1 /\ kept' = added + 1

\* Queue.add with a job id: nothing happens while a job of the id is kept.
AddJob ==
  \/ kept # 0 /\ UNCHANGED << kept, added >>
  \/ kept = 0 /\ added < Cardinality(Jobs) /\ added' = added + 1 /\ kept' = added + 1

\* A step of the outbox; the payment's event reaching the queue adds the job.
Upstream(A) ==
  /\ A
  /\ IF relayed'[Payment] # relayed[Payment] THEN AddJob ELSE UNCHANGED << kept, added >>
  /\ UNCHANGED deliveryState

\* A step of an execution; BullMQ starts executions of the job it keeps.
Downstream(A) == A /\ UNCHANGED << vars, kept, added >>
StartJob(j) == kept = j /\ Downstream(D!Start(j))

\* removeOnComplete and removeOnFail: a finished job is dropped when enough others
\* have finished after it.
DropJob ==
  /\ kept # 0
  /\ D!Finished(kept)
  /\ kept' = 0
  /\ UNCHANGED << vars, added, deliveryState >>

PipelineNext ==
  \/ \E e \in Events : Upstream(Record(e) \/ BecomeDue(e) \/ LockTimeout(e))
  \/ \E r \in Relays : Upstream(Relay(r)) \/ Upstream(Crash(r))
  \/ \E j \in Jobs : StartJob(j) \/ Downstream(D!Step(j))
  \/ DropJob

\* The fairness of the two components; jobs need not be dropped.
PipelineFairness ==
  /\ \A r \in Relays : WF_pipelineVars(Upstream(Relay(r)))
  /\ \A e \in Events :
       /\ WF_pipelineVars(Upstream(BecomeDue(e)))
       /\ WF_pipelineVars(Upstream(LockTimeout(e) /\ ~Held(e)))
  /\ \A j \in Jobs : WF_pipelineVars(StartJob(j)) /\ WF_pipelineVars(Downstream(D!Step(j)))

PipelineSpec == PipelineInit /\ [][PipelineNext]_pipelineVars /\ PipelineFairness

-----------------------------------------------------------------------------
(* Properties.                                                             *)

\* The payment is delivered, or a job of it used up its attempts, which
\* failedJobHandler quarantines (module Alerts).
Failed(j) == D!Finished(j) /\ outcome[j] \notin D!Completed
Settled == D!SomeDelivered \/ \E j \in Jobs : Failed(j)

\* An event is settled in the outbox only when the payment is settled or a job in
\* the queue is still going to settle it: no crash between the two stages loses it.
NoneInBetween ==
  status[Payment] = "processed" => Settled \/ (kept # 0 /\ ~D!Finished(kept))

\* However often the outbox relays the event, and although a finished job's id may
\* be used again, the provider accepts one request.
AlertedOnce == Cardinality(sent) <= 1

\* The outbox and the queue keep their promises together.
PipelineSafe == NoneInBetween /\ AlertedOnce

\* Every payment whose event was recorded is delivered or quarantined.
PaymentSettles == status[Payment] # "absent" ~> Settled
=============================================================================
