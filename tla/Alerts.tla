------------------------------- MODULE Alerts -------------------------------
(***************************************************************************)
(* The alerts of ONE payment: BullMQ runs processAlertDispatch for the      *)
(* payment's job (lib/queue.ts), operators run it again from a dead letter  *)
(* (dead-letters.service.ts), the admin API enqueues replay jobs and purges *)
(* (dlq-replay.service.ts), and every process handles the queue's "failed"  *)
(* events (failedJobHandler, lib/dead-letter.ts).  A channel behind         *)
(* deliverWithIdempotency is taken as DeliveryAbstract promises it.         *)
(***************************************************************************)
EXTENDS Naturals, Sequences, FiniteSets

CONSTANTS
  Setups,       \* the cases to look at: records of the four fields below
  Jobs,         \* BullMQ jobs of the payment: its own and slots for replays
  First,        \* the job the outbox enqueues
  Operators,    \* calls of POST /dead-letters/:id/replay
  Processes     \* processes that listen to QueueEvents

FaultKinds ==
  { "lostReply",  \* the provider accepts, its reply is lost
    "db",         \* a statement of a log or a letter, or the queue's add, fails
    "crash" }     \* the worker process of a job dies

VARIABLES
  setup,     \* the case, chosen once
  step,      \* the await each executor is at
  stage,     \* index in route of the channel it is at
  made,      \* attemptsMade of each job
  stalls,    \* how often BullMQ found the job stalled
  target,    \* the letter an executor replays
  gate,      \* who holds delivery:gate of each channel
  record,    \* the success or failure recorded for each channel
  letters,   \* status of the DeadLetter rows, by letter
  events,    \* failed events each process has not handled
  creating,  \* jobs for which a process found no pending letter
  manual,    \* calls of operators and administrators so far
  picked,    \* letters admin replays have read and not yet enqueued, with their force
  marking,   \* letters an admin replay has enqueued and not yet marked
  purging,   \* letters an admin purge has selected
  sends,     \* history: requests a checked channel's provider accepted, up to 2
  overlap,   \* history: channels two executors were sending to at once
  requeued,  \* history: letters an admin replay has enqueued a job for
  twins      \* history: jobs for which two processes created letters at once

vars == << setup, step, stage, made, stalls, target, gate, record, letters,
           events, creating, manual, picked, marking, purging, sends, overlap,
           requeued, twins >>

route == setup.route           \* the user's channels, in dispatch order
faults == setup.faults         \* which of FaultKinds may happen
MaxAttempts == setup.attempts  \* the attempts option of a job
MaxManual == setup.manual      \* calls of operators and administrators

Executors == Jobs \cup Operators
Channels == { "webhook", "telegram", "whatsapp", "discord", "slack", "email", "push" }
Gated == { "webhook", "email", "push" }          \* deliverWithIdempotency
Checked == { "whatsapp", "discord", "slack" }    \* look, send, log
Throwing == { "email", "push" }                  \* errors reach BullMQ
Nobody == "nobody"

\* A dispatch turns to each channel of the user once, and some process listens.
ASSUME AlertsOK ==
  /\ First \in Jobs /\ Jobs \cap Operators = {} /\ Nobody \notin Executors
  /\ Processes # {}
ASSUME SetupsOK ==
  \A s \in Setups :
    /\ s.route \in Seq(Channels) /\ s.attempts \in Nat
    /\ \A a, b \in DOMAIN s.route : s.route[a] = s.route[b] => a = b

Running == { "enter", "send", "log", "fail" }
Steps == Running \cup { "unused", "waiting", "completed", "failed", "verify", "retried", "pending", "ended" }
Channel(e) == route[stage[e]]
Sending(e, c) == step[e] \in { "send", "log" } /\ Channel(e) = c

(* A letter is named by the dispatch or the process that wrote it.         *)
ChannelLetter(e) ==
  [ channel |-> Channel(e), by |-> e, run |-> IF e \in Jobs THEN made[e] + stalls[e] ELSE 0 ]
QueueLetter(p, j) == [ channel |-> "queue", by |-> j, run |-> p ]
NoLetter == [ channel |-> "none", by |-> Nobody, run |-> 0 ]
Create(l) ==
  letters' = [i \in DOMAIN letters \cup {l} |-> IF i = l THEN "pending" ELSE letters[i]]

Init ==
  /\ setup \in Setups
  /\ step = [e \in Executors |-> IF e = First THEN "waiting" ELSE "unused"]
  /\ stage = [e \in Executors |-> 0]
  /\ made = [j \in Jobs |-> 0]
  /\ stalls = [j \in Jobs |-> 0]
  /\ target = [e \in Executors |-> NoLetter]
  /\ gate = [c \in Channels |-> Nobody]
  /\ record = [c \in Channels |-> "none"]
  /\ letters = [i \in {} |-> "pending"]
  /\ events = [p \in Processes |-> {}]
  /\ creating = [p \in Processes |-> {}]
  /\ manual = 0
  /\ picked = {}
  /\ marking = {}
  /\ purging = {}
  /\ sends = [c \in Checked |-> 0]
  /\ overlap = {}
  /\ requeued = {}
  /\ twins = {}

Goto(e, l) == step' = [step EXCEPT ![e] = l]

\* On to the next channel; after the last one the dispatch has succeeded.
Advance(e) ==
  IF stage[e] < Len(route)
    THEN stage' = [stage EXCEPT ![e] = @ + 1] /\ Goto(e, "enter")
    ELSE UNCHANGED stage /\ Goto(e, IF e \in Jobs THEN "completed" ELSE "verify")

\* The job leaves for the failed set: every listening process hears of it.
FailJob(j) ==
  /\ Goto(j, "failed")
  /\ events' = [p \in Processes |-> events[p] \cup {j}]

Throw_Uncounted(e) ==
  /\ UNCHANGED << stage, made, events >>
  /\ Goto(e, IF e \in Jobs THEN "waiting" ELSE "ended")

\* The dispatch throws.  A job is attempted again or fails, a replay is rejected.
Throw(e) ==
  /\ UNCHANGED stage
  /\ IF e \in Jobs
       THEN /\ made' = [made EXCEPT ![e] = @ + 1]
            /\ IF made[e] + 1 < MaxAttempts
                 THEN Goto(e, "waiting") /\ UNCHANGED events
                 ELSE FailJob(e)
       ELSE Goto(e, "ended") /\ UNCHANGED << made, events >>

queueVars == << made, events >>
adminVars == << manual, picked, marking, purging, requeued >>
handlerVars == << creating, twins >>
letterVars == << letters, adminVars, handlerVars >>

(***************************************************************************)
(* processAlertDispatch                                                     *)
(***************************************************************************)
Start(j) ==
  /\ step[j] = "waiting"
  /\ IF route = << >>
       THEN Goto(j, "completed") /\ UNCHANGED stage
       ELSE Goto(j, "enter") /\ stage' = [stage EXCEPT ![j] = 1]
  /\ UNCHANGED << setup, queueVars, stalls, target, gate, record, letterVars, sends, overlap >>

Enter_NoCheck(e) ==
  /\ step[e] = "enter"
  /\ LET c == Channel(e) IN
       /\ Goto(e, "send")
       /\ gate' = (IF c \in Gated THEN [gate EXCEPT ![c] = e] ELSE gate)
       /\ overlap' = (IF \E x \in Executors \ {e} : Sending(x, c) THEN overlap \cup {c} ELSE overlap)
  /\ UNCHANGED << setup, stage, queueVars, stalls, target, record, letterVars, sends >>

\* A success on record skips the channel.  A gate that another execution holds
\* ends deliverWithIdempotency without an error.  Telegram looks at nothing.
Enter(e) ==
  /\ step[e] = "enter"
  /\ LET c == Channel(e)
         known == c # "telegram" /\ record[c] = "sent"
         held == c \in Gated /\ gate[c] # Nobody
     IN \/ (known \/ held) /\ Advance(e) /\ UNCHANGED << gate, overlap >>
        \/ /\ ~known /\ ~held
           /\ Goto(e, "send")
           /\ gate' = (IF c \in Gated THEN [gate EXCEPT ![c] = e] ELSE gate)
           /\ overlap' = (IF \E x \in Executors \ {e} : Sending(x, c)
                            THEN overlap \cup {c} ELSE overlap)
           /\ UNCHANGED stage
  /\ UNCHANGED << setup, queueVars, stalls, target, record, letterVars, sends >>

Count(c) == sends' = (IF c \in Checked /\ sends[c] < 2 THEN [sends EXCEPT ![c] = @ + 1] ELSE sends)
ReleaseGate(e, c) == [gate EXCEPT ![c] = IF @ = e THEN Nobody ELSE @]

\* The provider accepts and answers; or it refuses, or its answer is lost.
\* Webhook and Telegram swallow a failure, the checked channels log it, email
\* and push let go of the gate and report it.
Send(e) ==
  /\ step[e] = "send"
  /\ LET c == Channel(e) IN
       \/ /\ Count(c)
          /\ IF c = "telegram" THEN Advance(e) ELSE Goto(e, "log") /\ UNCHANGED stage
          /\ UNCHANGED << gate, record >>
       \/ /\ \/ UNCHANGED sends
             \/ "lostReply" \in faults /\ Count(c)
          /\ \/ c \in Throwing /\ Goto(e, "fail") /\ gate' = ReleaseGate(e, c)
                /\ UNCHANGED << stage, record >>
             \/ c = "webhook" /\ Goto(e, "log") /\ UNCHANGED << stage, gate, record >>
             \/ c = "telegram" /\ Advance(e) /\ UNCHANGED << gate, record >>
             \/ /\ c \in Checked
                /\ record' = [record EXCEPT ![c] = IF c = "whatsapp" THEN @ ELSE "failed"]
                /\ Advance(e)
                /\ UNCHANGED gate
  /\ UNCHANGED << setup, queueVars, stalls, target, letterVars, overlap >>

\* The success is recorded: in the attempt row, in WhatsAppDeliveryLog, or by
\* the upsert of DeliveryLog.
Log_Forgets(e) ==
  /\ step[e] = "log"
  /\ Advance(e)
  /\ gate' = ReleaseGate(e, Channel(e))
  /\ UNCHANGED << setup, queueVars, stalls, target, record, letterVars, sends, overlap >>

Log(e) ==
  /\ step[e] = "log"
  /\ record' = [record EXCEPT ![Channel(e)] = "sent"]
  /\ gate' = ReleaseGate(e, Channel(e))
  /\ Advance(e)
  /\ UNCHANGED << setup, queueVars, stalls, target, letterVars, sends, overlap >>

\* The statement fails.  Email and push report it.  The catch block of a checked
\* channel writes a failure over the success, or throws as well.
LogFails(e) ==
  /\ "db" \in faults
  /\ step[e] = "log"
  /\ LET c == Channel(e) IN
       /\ gate' = ReleaseGate(e, c)
       /\ \/ c \in Throwing /\ Goto(e, "fail") /\ UNCHANGED << stage, queueVars, record >>
          \/ c = "webhook" /\ Advance(e) /\ UNCHANGED << queueVars, record >>
          \/ /\ c \in Checked
             /\ record' = [record EXCEPT ![c] = IF c = "whatsapp" THEN @ ELSE "failed"]
             /\ Advance(e) /\ UNCHANGED queueVars
          \/ c \in Checked /\ Throw(e) /\ UNCHANGED record
  /\ UNCHANGED << setup, stalls, target, letterVars, sends, overlap >>

\* recordDeadLetter carries no delivery key, so it always creates a row; its own
\* failure is swallowed.  Then a retriable error is thrown again, another is not;
\* a refused push is always retriable.
RecordDeadLetter_Never(e) ==
  /\ step[e] = "fail"
  /\ Advance(e)
  /\ UNCHANGED << setup, queueVars, stalls, target, gate, record, letterVars, sends, overlap >>

RecordDeadLetter(e) ==
  /\ step[e] = "fail"
  /\ \/ Create(ChannelLetter(e))
     \/ "db" \in faults /\ UNCHANGED letters
  /\ \/ Throw(e)
     \/ /\ Channel(e) = "email" \/ "db" \in faults
        /\ Advance(e) /\ UNCHANGED queueVars
  /\ UNCHANGED << setup, stalls, target, gate, record, adminVars, handlerVars, sends, overlap >>

\* The process dies.  BullMQ runs a stalled job once more (maxStalledCount 1) and
\* then fails it without counting an attempt; an operator's request is gone.
Crash(e) ==
  /\ "crash" \in faults
  /\ step[e] \in Running
  /\ IF e \in Jobs
       THEN /\ stalls' = [stalls EXCEPT ![e] = @ + 1]
            /\ IF stalls[e] = 0 THEN Goto(e, "waiting") /\ UNCHANGED events ELSE FailJob(e)
       ELSE Goto(e, "ended") /\ UNCHANGED << stalls, events >>
  /\ UNCHANGED << setup, stage, made, target, gate, record, letterVars, sends, overlap >>

\* The gate's time-to-live frees what a dead execution left behind.
GateExpire(c) ==
  /\ gate[c] # Nobody
  /\ ~ Sending(gate[c], c)
  /\ gate' = [gate EXCEPT ![c] = Nobody]
  /\ UNCHANGED << setup, step, stage, made, stalls, target, record, letterVars, events, sends, overlap >>

(***************************************************************************)
(* failedJobHandler, once per process, and persistDeadLetter of its letter  *)
(***************************************************************************)
dispatchVars == << setup, step, stage, made, stalls, target, gate, record, sends, overlap >>
OfJob(i, j) == i.channel = "queue" /\ i.by = j
Pending(j) == \E i \in DOMAIN letters : OfJob(i, j) /\ letters[i] = "pending"
Handled(p, j) == events' = [events EXCEPT ![p] = @ \ {j}]
StartCreating(p, j) ==
  /\ creating' = [creating EXCEPT ![p] = @ \cup {j}]
  /\ twins' = (IF \E q \in Processes : j \in creating[q] THEN twins \cup {j} ELSE twins)

HandleFailed_NoFind(p, j) ==
  /\ j \in events[p] \ creating[p]
  /\ StartCreating(p, j)
  /\ UNCHANGED << dispatchVars, letters, adminVars, events >>

HandleFailed_OverCap(p, j) ==
  /\ j \in events[p] \ creating[p]
  /\ IF made[j] <= MaxAttempts \/ Pending(j)
       THEN Handled(p, j) /\ UNCHANGED handlerVars
       ELSE StartCreating(p, j) /\ UNCHANGED events
  /\ UNCHANGED << dispatchVars, letters, adminVars >>

\* Below the attempt cap nothing is quarantined; a pending letter of the job is
\* not repeated; otherwise the letter is created by a second statement.
HandleFailed(p, j) ==
  /\ j \in events[p] \ creating[p]
  /\ IF made[j] < MaxAttempts \/ Pending(j)
       THEN Handled(p, j) /\ UNCHANGED handlerVars
       ELSE StartCreating(p, j) /\ UNCHANGED events
  /\ UNCHANGED << dispatchVars, letters, adminVars >>

PersistQueueLetter(p, j) ==
  /\ j \in creating[p]
  /\ \/ Create(QueueLetter(p, j))
     \/ "db" \in faults /\ UNCHANGED letters
  /\ creating' = [creating EXCEPT ![p] = @ \ {j}]
  /\ Handled(p, j)
  /\ UNCHANGED << dispatchVars, adminVars, twins >>

(***************************************************************************)
(* DeadLettersService.replay and suppress                                   *)
(***************************************************************************)
replayVars == << setup, made, stalls, gate, record, picked, marking, purging, requeued,
                 handlerVars, events, sends, overlap >>
ManualCall == manual < MaxManual /\ manual' = manual + 1
SetLetter(i, st) == letters' = [letters EXCEPT ![i] = st]
StartReplay(o, i) ==
  /\ step[o] = "unused"
  /\ ManualCall
  /\ target' = [target EXCEPT ![o] = i]
  /\ IF route = << >>
       THEN Goto(o, "verify") /\ UNCHANGED stage
       ELSE Goto(o, "enter") /\ stage' = [stage EXCEPT ![o] = 1]

Replay_Any(o, i) == StartReplay(o, i) /\ UNCHANGED << replayVars, letters >>

\* Suppressed letters are refused; every letter here has a replayable payload.
Replay(o, i) ==
  /\ letters[i] \notin { "suppressed", "purged" }
  /\ StartReplay(o, i)
  /\ UNCHANGED << replayVars, letters >>

\* deliverySucceeded builds the key from the letter's channel and destination; a
\* queue letter's channel is "queue", a key no attempt row has.
deliverySucceeded(i) == i.channel \in Gated /\ record[i.channel] = "sent"

Verify_Trusts(o) ==
  /\ step[o] = "verify"
  /\ Goto(o, "retried")
  /\ UNCHANGED << replayVars, manual, stage, target, letters >>

Verify(o) ==
  /\ step[o] = "verify"
  /\ Goto(o, IF deliverySucceeded(target[o]) THEN "retried" ELSE "pending")
  /\ UNCHANGED << replayVars, manual, stage, target, letters >>

\* The update has no condition on the status it replaces; on a purged row it throws.
Update(o) ==
  /\ step[o] \in { "retried", "pending" }
  /\ IF letters[target[o]] = "purged"
       THEN UNCHANGED letters
       ELSE SetLetter(target[o], step[o])
  /\ Goto(o, "ended")
  /\ UNCHANGED << replayVars, manual, stage, target >>

Suppress(i) ==
  /\ letters[i] \notin { "suppressed", "purged" }
  /\ ManualCall
  /\ SetLetter(i, "suppressed")
  /\ UNCHANGED << dispatchVars, picked, marking, purging, requeued, handlerVars, events >>

(***************************************************************************)
(* DlqReplayService.replayJobs and purgeJobs                                *)
(***************************************************************************)
AdminSelect_NoStatus(ids, force) ==
  /\ ManualCall
  /\ ids # {}
  /\ picked' = picked \cup { << i, force >> : i \in { l \in ids : letters[l] # "purged" } }
  /\ UNCHANGED << dispatchVars, letters, marking, purging, requeued, handlerVars, events >>

\* The letters are read, without the suppressed ones unless the request says force.
AdminSelect(ids, force) ==
  /\ ManualCall
  /\ ids # {}
  /\ LET found == { i \in ids : letters[i] # "purged" /\ (force \/ letters[i] # "suppressed") } IN
       picked' = picked \cup { << i, force >> : i \in found }
  /\ UNCHANGED << dispatchVars, letters, marking, purging, requeued, handlerVars, events >>

\* Letter by letter the job is added, whatever became of the letter meanwhile ...
AdminReplay(j, i) ==
  /\ step[j] = "unused"
  /\ \E force \in BOOLEAN : << i, force >> \in picked /\ picked' = picked \ { << i, force >> }
  /\ Goto(j, "waiting")
  /\ target' = [target EXCEPT ![j] = i]
  /\ requeued' = requeued \cup {i}
  /\ marking' = marking \cup {i}
  /\ UNCHANGED << setup, stage, made, stalls, gate, record, letters, manual, purging,
                  handlerVars, events, sends, overlap >>

\* ... or the queue refuses it, and the letter stays what it is ...
AdminRefused(i) ==
  /\ "db" \in faults
  /\ \E force \in BOOLEAN : << i, force >> \in picked /\ picked' = picked \ { << i, force >> }
  /\ UNCHANGED << dispatchVars, letters, manual, marking, purging, requeued, handlerVars, events >>

\* ... and the letter marked in a transaction of its own, whatever it is by then.
AdminMark(i) ==
  /\ i \in marking
  /\ \/ letters[i] # "purged" /\ SetLetter(i, "retried")
     \/ /\ letters[i] = "purged" \/ "db" \in faults
        /\ UNCHANGED letters
  /\ marking' = marking \ {i}
  /\ UNCHANGED << dispatchVars, manual, picked, purging, requeued, handlerVars, events >>

\* Letters of one status are selected, then deleted by id.
PurgeSelect(st) ==
  /\ purging = {}
  /\ ManualCall
  /\ purging' = { i \in DOMAIN letters : letters[i] = st }
  /\ purging' # {}
  /\ UNCHANGED << dispatchVars, letters, picked, marking, requeued, handlerVars, events >>

PurgeDelete ==
  /\ purging # {}
  /\ letters' = [i \in DOMAIN letters |->
                   IF i \in purging THEN "purged" ELSE letters[i]]
  /\ purging' = {}
  /\ UNCHANGED << dispatchVars, manual, picked, marking, requeued, handlerVars, events >>

-----------------------------------------------------------------------------
\* Everything an execution of processAlertDispatch does by itself.
Dispatch(e) == Enter(e) \/ Send(e) \/ Log(e) \/ LogFails(e) \/ RecordDeadLetter(e)
Finish(o) == Verify(o) \/ Update(o)
Handle(p) == \E j \in Jobs : HandleFailed(p, j) \/ PersistQueueLetter(p, j)

AtRest(e) == step[e] \in { "unused", "completed", "failed", "ended" }
Quiescent ==
  /\ \A e \in Executors : AtRest(e)
  /\ \A p \in Processes : events[p] = {}
  /\ UNCHANGED vars

Next ==
  \/ \E j \in Jobs : Start(j)
  \/ \E e \in Executors : Dispatch(e) \/ Crash(e)
  \/ \E c \in Channels : GateExpire(c)
  \/ \E p \in Processes : Handle(p)
  \/ \E o \in Operators : Finish(o)
  \/ \E i \in DOMAIN letters :
       \/ \E o \in Operators : Replay(o, i)
       \/ \E j \in Jobs : AdminReplay(j, i)
       \/ Suppress(i) \/ AdminRefused(i) \/ AdminMark(i)
  \/ \E ids \in SUBSET DOMAIN letters, force \in BOOLEAN : AdminSelect(ids, force)
  \/ \E st \in { "pending", "retried", "suppressed" } : PurgeSelect(st)
  \/ PurgeDelete
  \/ Quiescent

Spec == Init /\ [][Next]_vars

\* BullMQ runs waiting jobs, awaits settle, QueueEvents calls its listener.
\* Nothing is assumed of operators, of purges and of faults.
Fairness ==
  /\ \A j \in Jobs : WF_vars(Start(j))
  /\ \A e \in Executors : WF_vars(Dispatch(e))
  /\ \A p \in Processes : WF_vars(Handle(p))
FairSpec == Spec /\ Fairness

-----------------------------------------------------------------------------
(* Properties.                                                             *)

\* No failure is silently lost: when nothing runs any more, an email or push that
\* was not delivered has left a dead letter, its own or that of the failed job.
\* Executions that give up on a held gate rely on the holder to report.
NoSilentLoss ==
  (/\ faults \subseteq { "lostReply" }
   /\ \A e \in Executors : AtRest(e)
   /\ \A p \in Processes : events[p] = {})
  => \A k \in DOMAIN route : route[k] \in Throwing /\ record[route[k]] # "sent"
       => \E i \in DOMAIN letters : i.channel \in { route[k], "queue" }

\* WhatsApp, Discord and Slack send twice only when two executions were between
\* their look at the log and their write to it at the same time.
DuplicateNeedsOverlap ==
  faults = {} => \A c \in Checked \ overlap : sends[c] <= 1

\* One failed job leaves one pending letter, however many processes hear of it,
\* unless they look at the same time or a replay has rewritten one of them.
Untouched(i) ==
  letters[i] = "pending" /\ i \notin requeued /\ \A e \in Executors : target[e] # i
OnePendingLetter ==
  \A j \in Jobs \ twins : \A a, b \in DOMAIN letters :
    OfJob(a, j) /\ OfJob(b, j) /\ Untouched(a) /\ Untouched(b) => a = b

\* A letter is retried only when its channel was delivered or a replay job exists.
RetriedIsBacked ==
  \A i \in DOMAIN letters :
    letters[i] = "retried" => deliverySucceeded(i) \/ i \in requeued

\* Retries, operator replays and admin replays of a payment never turn to the
\* provider of a gated channel again once its success is recorded.
ReplayNeverResends ==
  \A c \in Gated : record[c] = "sent" => \A e \in Executors : ~Sending(e, c)

\* A suppression is undone only by a replay that had read the letter before it was
\* made, or by one that says force: once no replay has the letter in hand, it stays
\* suppressed until it is purged and only a forced admin replay picks it up.
InReplay(i) ==
  \/ \E force \in BOOLEAN : << i, force >> \in picked
  \/ i \in marking
  \/ \E o \in Operators : target[o] = i /\ step[o] # "ended"
SuppressionSticks ==
  [][\A i \in DOMAIN letters : letters[i] = "suppressed" /\ ~InReplay(i)
       => /\ letters'[i] \in { "suppressed", "purged" }
          /\ InReplay(i)' => << i, TRUE >> \in picked']_vars

\* A job that used up its attempts is quarantined: some process writes its letter.
FailedJobsQuarantined ==
  \A j \in Jobs :
    step[j] = "failed" /\ made[j] = MaxAttempts /\ "db" \notin faults
      ~> \E i \in DOMAIN letters : OfJob(i, j)

\* Every job ends, whatever its channels, its gates and the replays do.
AlertJobsEnd == \A j \in Jobs : step[j] = "waiting" ~> step[j] \in { "completed", "failed" }

\* Gated channels never send again after a recorded success, unguarded ones only
\* when executions overlapped.
SendsOnce == DuplicateNeedsOverlap /\ ReplayNeverResends

\* Letters tell the truth: one pending letter for a failed job, and `retried` only
\* of what was delivered or is a job again.
LettersSound == OnePendingLetter /\ RetriedIsBacked

\* Every job ends, and one that ended by using up its attempts has its letter.
AlertJobsSettle == AlertJobsEnd /\ FailedJobsQuarantined
=============================================================================
