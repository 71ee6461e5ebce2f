------------------------------ MODULE Delivery ------------------------------
(***************************************************************************)
(* deliverWithIdempotency (apps/api/src/lib/delivery.ts): every execution  *)
(* of every job that addresses ONE delivery key (payment, channel,         *)
(* destination).  Different keys share no row and no gate, so one key is   *)
(* the whole protocol.  Each await of the code is one action, because      *)
(* other jobs, the Redis clock and a process crash may come in between.    *)
(***************************************************************************)
EXTENDS Naturals, Sequences

CONSTANTS
  Jobs,            \* queue jobs, direct dispatches and replays of the key
  MaxRuns,         \* executions of one job (BullMQ attempts)
  GateRetry,       \* DELIVERY_GATE_RETRY
  Channel,         \* the gated channel of the key
  Faults           \* which of FaultKinds may happen

FaultKinds ==
  { "crash",       \* the process dies; BullMQ runs the stalled job again
    "lostReply",   \* the provider accepts the request, its reply is lost
    "db",          \* a Postgres statement errs, applied or not
    "redis",       \* a Redis command errs, applied or not
    "gateExpiry" } \* a live holder outlasts the gate's TTL

ASSUME ConstantsOK ==
  /\ MaxRuns \in Nat \ {0}
  /\ GateRetry \in Nat
  /\ Channel \in { "webhook", "email", "push" }
  /\ Faults \subseteq FaultKinds

VARIABLES
  delivery,   \* status of the NotificationDelivery row, "absent" before it exists
  attempts,   \* NotificationDeliveryAttempt rows, by attempt number
  gate,       \* the token stored under delivery:gate:<key>
  pc,         \* the await each job is at
  runs,       \* executions each job has started
  tries,      \* failed SET NX commands of the current acquireDeliveryGate
  seen,       \* `prior`, the attempt count read by recordDeliveryAttempt
  row,        \* the attempt number of the current dispatch
  outcome,    \* how the job's last execution ended
  sent,       \* history: attempt numbers whose request the provider accepted
  waived,     \* history: attempts of a receipt the user has switched off
  lapsed,     \* history: jobs at work whose gate ran out or was never stored
  stranded    \* history: some gate outlived the execution that had stored it

vars == << delivery, attempts, gate, pc, runs, tries, seen, row, outcome,
           sent, waived, lapsed, stranded >>
db == << delivery, attempts >>
local == << tries, seen, row >>
history == << sent, waived, lapsed, stranded >>

(* The protocol itself writes "in_progress" and "delivered" only:          *)
(* markDeliveryFailed, markDeliverySuppressed and getOrCreateDelivery have *)
(* no caller.                                                              *)
TERMINAL_DELIVERY_STATES == { "delivered", "exhausted", "suppressed", "skipped" }
DeliveryStatus == { "absent", "pending", "in_progress", "failed" } \cup TERMINAL_DELIVERY_STATES
isTerminalDeliveryStatus(status) == status \in TERMINAL_DELIVERY_STATES

Checking == { "pre1", "pre2" }
Contended == { "lost1", "lost2" }
Recording == { "rec1", "rec2", "rec3", "rec4" }
\* Past the second idempotency check, before the success is recorded.
Committed == Recording \cup { "dispatch", "mark1" }
Releasing == { "releaseOk", "releaseErr", "releaseSkip" }
\* Between acquireDeliveryGate and releaseDeliveryGate.
Critical == { "in1", "in2", "mark2" } \cup Committed \cup Releasing
PC == { "idle", "acquire" } \cup Checking \cup Contended \cup Critical
Completed == { "delivered", "skipped" }
Outcome == { "none", "thrown", "crashed" } \cup Completed

NoGate == << >>
token(j) == << j, runs[j] >>
GateLive == \E j \in Jobs : gate = token(j) /\ pc[j] \in Critical
SomeDelivered == \E a \in DOMAIN attempts : attempts[a] = "delivered"

Init ==
  /\ delivery = "absent"
  /\ attempts = << >>
  /\ gate = NoGate
  /\ pc = [j \in Jobs |-> "idle"]
  /\ runs = [j \in Jobs |-> 0]
  /\ tries = [j \in Jobs |-> 0]
  /\ seen = [j \in Jobs |-> 0]
  /\ row = [j \in Jobs |-> 0]
  /\ outcome = [j \in Jobs |-> "none"]
  /\ sent = {} /\ waived = {}
  /\ lapsed = {} /\ stranded = FALSE

\* The execution goes on to its next await, or ends and drops its locals.
Goto(j, l) == pc' = [pc EXCEPT ![j] = l] /\ UNCHANGED outcome
Return(j, result) ==
  /\ pc' = [pc EXCEPT ![j] = "idle"]
  /\ outcome' = [outcome EXCEPT ![j] = result]

Start_Uncounted(j) ==
  /\ pc[j] = "idle"
  /\ outcome[j] \notin Completed
  /\ Goto(j, "pre1")
  /\ UNCHANGED << db, gate, runs, local, history >>

\* BullMQ starts an execution: the first, or again after a throw or a crash.
Start(j) ==
  /\ pc[j] = "idle"
  /\ outcome[j] \notin Completed
  /\ runs[j] < MaxRuns
  /\ runs' = [runs EXCEPT ![j] = @ + 1]
  /\ tries' = [tries EXCEPT ![j] = 0]
  /\ seen' = [seen EXCEPT ![j] = 0]
  /\ row' = [row EXCEPT ![j] = 0]
  /\ lapsed' = lapsed \ {j}
  /\ Goto(j, "pre1")
  /\ UNCHANGED << db, gate, sent, waived, stranded >>

(***************************************************************************)
(* alreadyDelivered: the logical row first, whose read error is ignored,   *)
(* the attempt rows second, whose read error is thrown.  It is called      *)
(* before the gate, inside the gate, and by a contended caller.            *)
(***************************************************************************)
\* First check: a delivered key returns 'skipped' without touching the gate.
PreCheckDelivery(j) ==
  /\ pc[j] = "pre1"
  /\ \/ isTerminalDeliveryStatus(delivery) /\ Return(j, "skipped")
     \/ /\ ~isTerminalDeliveryStatus(delivery) \/ "db" \in Faults
        /\ Goto(j, "pre2")
  /\ UNCHANGED << db, gate, runs, local, history >>

PreCheckAttempts(j) ==
  /\ pc[j] = "pre2"
  /\ \/ SomeDelivered /\ Return(j, "skipped")
     \/ ~SomeDelivered /\ Goto(j, "acquire")
     \/ "db" \in Faults /\ Return(j, "thrown")
  /\ UNCHANGED << db, gate, runs, local, history >>

(***************************************************************************)
(* acquireDeliveryGate: SET key token PX ttl NX, up to GateRetry + 1 times *)
(* A throwing Redis counts as an acquired gate, stored or not.             *)
(***************************************************************************)
Acquire_NoNX(j) ==
  /\ pc[j] = "acquire"
  /\ gate' = token(j)
  /\ Goto(j, "in1")
  /\ UNCHANGED << db, runs, local, history >>

Acquire(j) ==
  /\ pc[j] = "acquire"
  /\ gate = NoGate
  /\ gate' = token(j)
  /\ Goto(j, "in1")
  /\ UNCHANGED << db, runs, local, history >>

AcquireContended(j) ==
  /\ pc[j] = "acquire"
  /\ gate # NoGate
  /\ IF tries[j] < GateRetry
       THEN tries' = [tries EXCEPT ![j] = @ + 1] /\ Goto(j, "acquire")
       ELSE Goto(j, "lost1") /\ UNCHANGED tries
  /\ UNCHANGED << db, gate, runs, seen, row, history >>

AcquireFailsOpen(j) ==
  /\ "redis" \in Faults
  /\ pc[j] = "acquire"
  /\ \/ UNCHANGED gate /\ lapsed' = lapsed \cup {j}
     \/ gate = NoGate /\ gate' = token(j) /\ UNCHANGED lapsed
  /\ Goto(j, "in1")
  /\ UNCHANGED << db, runs, local, sent, waived, stranded >>

(* A contended caller looks once more and returns: 'delivered' when the    *)
(* holder has recorded its success, 'skipped' otherwise.  Neither throws,  *)
(* so the job completes.                                                   *)
ContendedReadDelivery(j) ==
  /\ pc[j] = "lost1"
  /\ \/ isTerminalDeliveryStatus(delivery) /\ Return(j, "delivered")
     \/ /\ ~isTerminalDeliveryStatus(delivery) \/ "db" \in Faults
        /\ Goto(j, "lost2")
  /\ UNCHANGED << db, gate, runs, local, history >>

ContendedReadAttempts(j) ==
  /\ pc[j] = "lost2"
  /\ \/ Return(j, IF SomeDelivered THEN "delivered" ELSE "skipped")
     \/ "db" \in Faults /\ Return(j, "thrown")
  /\ UNCHANGED << db, gate, runs, local, history >>

\* Second check, inside the gate.
GatedReadDelivery(j) ==
  /\ pc[j] = "in1"
  /\ \/ isTerminalDeliveryStatus(delivery) /\ Goto(j, "releaseSkip")
     \/ /\ ~isTerminalDeliveryStatus(delivery) \/ "db" \in Faults
        /\ Goto(j, "in2")
  /\ UNCHANGED << db, gate, runs, local, history >>

GatedReadAttempts_NoRecheck(j) ==
  /\ pc[j] = "in2"
  /\ Goto(j, "rec1")
  /\ UNCHANGED << db, gate, runs, local, history >>

GatedReadAttempts(j) ==
  /\ pc[j] = "in2"
  /\ \/ SomeDelivered /\ Goto(j, "releaseSkip")
     \/ ~SomeDelivered /\ Goto(j, "rec1")
     \/ "db" \in Faults /\ Goto(j, "releaseErr")
  /\ UNCHANGED << db, gate, runs, local, history >>

(***************************************************************************)
(* recordDeliveryAttempt: refuse a terminal delivery, count the rows,      *)
(* write the logical row unconditionally, insert the attempt row.          *)
(***************************************************************************)
RecordCheckTerminal(j) ==
  /\ pc[j] = "rec1"
  /\ \/ isTerminalDeliveryStatus(delivery) /\ Goto(j, "releaseErr")
     \/ /\ ~isTerminalDeliveryStatus(delivery) \/ "db" \in Faults
        /\ Goto(j, "rec2")
  /\ UNCHANGED << db, gate, runs, local, history >>

RecordCount(j) ==
  /\ pc[j] = "rec2"
  /\ \/ Goto(j, "rec3") /\ seen' = [seen EXCEPT ![j] = Len(attempts)]
     \/ "db" \in Faults /\ Goto(j, "releaseErr") /\ UNCHANGED seen
  /\ UNCHANGED << db, gate, runs, tries, row, history >>

\* The upsert or update carries no status condition; its errors are swallowed.
RecordInProgress(j) ==
  /\ pc[j] = "rec3"
  /\ \/ delivery' = "in_progress"
     \/ "db" \in Faults /\ UNCHANGED delivery
  /\ Goto(j, "rec4")
  /\ UNCHANGED << attempts, gate, runs, local, history >>

RecordCreate_OffByOne(j) ==
  /\ pc[j] = "rec4"
  /\ seen[j] = Len(attempts)
  /\ attempts' = Append(attempts, "pending")
  /\ row' = [row EXCEPT ![j] = seen[j] + 2]
  /\ Goto(j, "dispatch")
  /\ UNCHANGED << delivery, gate, runs, tries, seen, history >>

\* @@unique([deliveryKey, attempt]): the insert of a stale number throws.
RecordCreate(j) ==
  /\ pc[j] = "rec4"
  /\ \/ /\ seen[j] = Len(attempts)
        /\ attempts' = Append(attempts, "pending")
        /\ row' = [row EXCEPT ![j] = seen[j] + 1]
        /\ \/ Goto(j, "dispatch")
           \/ "db" \in Faults /\ Goto(j, "releaseErr")
     \/ /\ seen[j] # Len(attempts) \/ "db" \in Faults
        /\ Goto(j, "releaseErr")
        /\ UNCHANGED << attempts, row >>
  /\ UNCHANGED << delivery, gate, runs, tries, seen, history >>

(***************************************************************************)
(* dispatch(attemptId).  Email and push throw on a failure; the webhook    *)
(* dispatch (dispatchWebhookAndLog) catches every failure, an open circuit *)
(* or a blocked URL included, writes a WebhookLog row and returns normally.*)
(* sendPaymentReceipt also returns normally, without a request, when the   *)
(* user has switched receipts off (emailEnabled, read by each execution).  *)
(***************************************************************************)
SwallowsErrors == Channel = "webhook"

Dispatch_Swallows(j) ==
  /\ pc[j] = "dispatch"
  /\ \/ sent' = sent \cup {row[j]}
     \/ UNCHANGED sent
  /\ Goto(j, "mark1")
  /\ UNCHANGED << db, gate, runs, local, waived, lapsed, stranded >>

\* The answer of a request that was accepted is read wrongly and throws.
Dispatch_Misread(j) ==
  /\ pc[j] = "dispatch"
  /\ sent' = sent \cup {row[j]}
  /\ Goto(j, "releaseErr")
  /\ UNCHANGED << db, gate, runs, local, waived, lapsed, stranded >>

Dispatch(j) ==
  /\ pc[j] = "dispatch"
  /\ \/ sent' = sent \cup {row[j]} /\ Goto(j, "mark1") /\ UNCHANGED waived
     \/ /\ Goto(j, IF SwallowsErrors THEN "mark1" ELSE "releaseErr")
        /\ \/ UNCHANGED sent
           \/ "lostReply" \in Faults /\ sent' = sent \cup {row[j]}
        /\ UNCHANGED waived
     \/ /\ Channel = "email"
        /\ waived' = waived \cup {row[j]}
        /\ Goto(j, "mark1")
        /\ UNCHANGED sent
  /\ UNCHANGED << db, gate, runs, local, lapsed, stranded >>

\* markDeliveryDelivered: the attempt row, whose error propagates ...
MarkAttempt(j) ==
  /\ pc[j] = "mark1"
  /\ \/ /\ attempts' = [attempts EXCEPT ![row[j]] = "delivered"]
        /\ \/ Goto(j, "mark2")
           \/ "db" \in Faults /\ Goto(j, "releaseErr")
     \/ "db" \in Faults /\ Goto(j, "releaseErr") /\ UNCHANGED attempts
  /\ UNCHANGED << delivery, gate, runs, local, history >>

\* ... then the logical row, whose error is swallowed.
MarkDelivery(j) ==
  /\ pc[j] = "mark2"
  /\ \/ delivery' = (IF delivery = "absent" THEN "absent" ELSE "delivered")
     \/ "db" \in Faults /\ UNCHANGED delivery
  /\ Goto(j, "releaseOk")
  /\ UNCHANGED << attempts, gate, runs, local, history >>

Settled(l) ==
  CASE l = "releaseOk" -> "delivered"
    [] l = "releaseErr" -> "thrown"
    [] l = "releaseSkip" -> "skipped"

\* releaseDeliveryGate: compare-and-delete; a throwing Redis may keep the gate.
Release_Unconditional(j) ==
  /\ pc[j] \in Releasing
  /\ gate' = NoGate
  /\ Return(j, Settled(pc[j]))
  /\ UNCHANGED << db, runs, local, history >>

Release_Never(j) ==
  /\ pc[j] \in Releasing
  /\ Return(j, Settled(pc[j]))
  /\ UNCHANGED << db, gate, runs, local, history >>

Release(j) ==
  /\ pc[j] \in Releasing
  /\ \/ gate' = (IF gate = token(j) THEN NoGate ELSE gate) /\ UNCHANGED stranded
     \/ "redis" \in Faults /\ UNCHANGED gate /\ stranded' = (stranded \/ gate = token(j))
  /\ Return(j, Settled(pc[j]))
  /\ UNCHANGED << db, runs, local, sent, waived, lapsed >>

\* The PX time-to-live removes a gate nobody released; a live holder's gate
\* only when its dispatch outlasts the TTL (adaptive backoff waits up to 5 min).
GateExpire ==
  /\ gate # NoGate
  /\ GateLive => "gateExpiry" \in Faults
  /\ gate' = NoGate
  /\ lapsed' = lapsed \cup { j \in Jobs : gate = token(j) /\ pc[j] \in Critical }
  /\ UNCHANGED << db, pc, runs, local, outcome, sent, waived, stranded >>

\* A gate the dead process had stored stays until its TTL.
Crash(j) ==
  /\ "crash" \in Faults
  /\ pc[j] # "idle"
  /\ Return(j, "crashed")
  /\ stranded' = (stranded \/ gate = token(j))
  /\ UNCHANGED << db, gate, runs, local, sent, waived, lapsed >>

\* Everything one execution does by itself.
Step(j) ==
  \/ PreCheckDelivery(j) \/ PreCheckAttempts(j)
  \/ Acquire(j) \/ AcquireContended(j) \/ AcquireFailsOpen(j)
  \/ ContendedReadDelivery(j) \/ ContendedReadAttempts(j)
  \/ GatedReadDelivery(j) \/ GatedReadAttempts(j)
  \/ RecordCheckTerminal(j) \/ RecordCount(j) \/ RecordInProgress(j) \/ RecordCreate(j)
  \/ Dispatch(j) \/ MarkAttempt(j) \/ MarkDelivery(j) \/ Release(j)

Finished(j) == pc[j] = "idle" /\ (outcome[j] \in Completed \/ runs[j] = MaxRuns)

\* Every job has ended for good and the key is at rest.
Quiescent ==
  /\ \A j \in Jobs : Finished(j)
  /\ gate = NoGate
  /\ UNCHANGED vars

Next ==
  \/ \E j \in Jobs : Start(j) \/ Step(j) \/ Crash(j)
  \/ GateExpire
  \/ Quiescent

\* BullMQ keeps running jobs, an execution's awaits settle, Redis evicts keys
\* whose TTL has passed.  Nothing is assumed of crashes and faults.
Fairness ==
  /\ \A j \in Jobs : WF_vars(Start(j)) /\ WF_vars(Step(j))
  /\ WF_vars(GateExpire)

Spec == Init /\ [][Next]_vars
FairSpec == Spec /\ Fairness

-----------------------------------------------------------------------------
(* Properties.                                                             *)

\* Every variable keeps the shape the database schema and the code give it.
TypeOK ==
  /\ delivery \in DeliveryStatus
  /\ attempts \in Seq({ "pending", "delivered" })
  /\ gate \in {NoGate} \cup (Jobs \X Nat)
  /\ pc \in [Jobs -> PC]
  /\ runs \in [Jobs -> 0..MaxRuns]
  /\ tries \in [Jobs -> 0..GateRetry]
  /\ seen \in [Jobs -> 0..Len(attempts)]
  /\ row \in [Jobs -> 0..Len(attempts)]
  /\ outcome \in [Jobs -> Outcome]
  /\ sent \subseteq 1..Len(attempts) /\ waived \subseteq 1..Len(attempts)
  /\ lapsed \subseteq Jobs /\ stranded \in BOOLEAN

\* While no live gate expires and Redis answers, two executions of the key are
\* never both between the second idempotency check and the recorded success:
\* the gate serialises the provider calls of every worker.
OneDispatcher ==
  \A i, j \in Jobs : pc[i] \in Committed /\ pc[j] \in Committed => i = j

\* A key is recorded as delivered at most once, whatever the retries, replays,
\* crashes and lost replies.
SingleDelivered ==
  \A a, b \in DOMAIN attempts :
    attempts[a] = "delivered" /\ attempts[b] = "delivered" => a = b

\* A request the provider accepted is repeated only when its success was never
\* recorded: of all accepted requests at most one is recorded or being recorded.
Recorded(a) ==
  \/ attempts[a] = "delivered"
  \/ \E j \in Jobs : pc[j] = "mark1" /\ row[j] = a
AcceptedOnce == \A a, b \in sent : Recorded(a) /\ Recorded(b) => a = b

\* An attempt row says `delivered` only of a request the provider accepted or,
\* for email, of a receipt the user had switched off when it was dispatched.
DeliveredMeansSent ==
  \A a \in DOMAIN attempts : attempts[a] = "delivered" => a \in sent \cup waived

\* What DELIVERY_LIFECYCLE.md says of the step to `delivered`: "Provider returned
\* 2xx".  The receipt that is switched off, dispatched all the same, breaks it.
DeliveredMeansAccepted ==
  \A a \in DOMAIN attempts : attempts[a] = "delivered" => a \in sent

\* When every job of the key has completed without an error, the key has been
\* delivered: a job that gives up on a contended gate relies on its holder.  The
\* exception is a gate that outlived its execution, lost to a crash or a failed
\* release: the jobs that meet it complete, and nobody is behind it.
CompletedMeansDelivered ==
  (\A j \in Jobs : pc[j] = "idle" /\ outcome[j] \in Completed) /\ Jobs # {}
    => SomeDelivered \/ stranded

\* Two executions are past the second check together only when one of them went on
\* after its own gate ran out, or was let in by a failing Redis: a late release
\* never takes the gate away from the execution that entered in the meantime.
OverlapNeedsLapse ==
  \A i, j \in Jobs :
    i # j /\ pc[i] \in Committed /\ pc[j] \in Committed => {i, j} \cap lapsed # {}

\* Its inductive form: inside the gate one owns it, or has lost it by a lapse.
HeldOrLapsed == \A j \in Jobs : pc[j] \in Critical => gate = token(j) \/ j \in lapsed

(* Why they hold while gates do not expire under a live holder: the holder *)
(* of the critical section owns the gate (GateOwned), an execution that    *)
(* passed the second check has seen no delivered row (CommittedFresh), the *)
(* logical row never runs ahead of the attempt rows (LogicalFollows).      *)
GateOwned == \A j \in Jobs : pc[j] \in Critical => gate = token(j)
CommittedFresh == \A j \in Jobs : pc[j] \in Committed => ~SomeDelivered
LogicalFollows ==
  /\ isTerminalDeliveryStatus(delivery) => SomeDelivered
  /\ \A j \in Jobs : pc[j] = "mark2" => SomeDelivered

\* The inductive invariant of the gated protocol.
GateInv == GateOwned /\ CommittedFresh /\ LogicalFollows /\ SingleDelivered

(* The refinement of DeliveryAbstract: an attempt is being made while some *)
(* execution is at its dispatch or about to record its success.            *)
Attempting(j) == pc[j] \in { "dispatch", "mark1" }
CurrentAttempt ==
  IF \E j \in Jobs : Attempting(j)
    THEN CHOOSE a \in DOMAIN attempts : \E j \in Jobs : Attempting(j) /\ row[j] = a
    ELSE 0
ConfirmedAttempt ==
  IF SomeDelivered
    THEN CHOOSE a \in DOMAIN attempts : attempts[a] = "delivered"
    ELSE 0
Abstract == INSTANCE DeliveryAbstract WITH
  opened <- Len(attempts), current <- CurrentAttempt,
  accepted <- sent, waived <- waived, confirmed <- ConfirmedAttempt

\* With crashes, lost replies and failing statements, all executions of all jobs
\* of a key together behave like one careful sender.
ImplementsAbstract == Abstract!Spec

\* The logical row never leaves its terminal status, and a delivered attempt
\* row stays delivered.
TerminalIsFinal ==
  [][/\ delivery = "delivered" => delivery' = "delivered"
     /\ \A a \in DOMAIN attempts :
          attempts[a] = "delivered" => attempts'[a] = "delivered"]_vars

\* No request reaches the provider once a success is recorded.
NoSendAfterDelivered == [][SomeDelivered => sent' = sent]_vars

\* Every job ends: it completes, or it has used up its executions.
JobsEnd == \A j \in Jobs : <>[]Finished(j)
=============================================================================
