------------------------------- MODULE Outbox -------------------------------
(***************************************************************************)
(* The transactional outbox: outboxService.record writes events with the   *)
(* payment (modules/outbox/outbox.service.ts); each watcher process runs a  *)
(* relay loop that claims, relays and settles them                         *)
(* (workers/outbox.worker.ts).  Each database or Redis await is an action. *)
(* An event stands for its idempotency key; its number is its createdAt.   *)
(***************************************************************************)
EXTENDS Naturals, FiniteSets

CONSTANTS
  Events,     \* idempotency keys, as naturals in createdAt order
  Relays,     \* processes that run runOutboxRelay
  BatchSize,  \* BATCH_SIZE
  Faults,     \* which of FaultKinds may happen
  MaxFaults   \* how often, all kinds together

FaultKinds ==
  { "crash",    \* a relay process dies and restarts
    "db",       \* Postgres refuses a statement
    "dbReply",  \* Postgres applies a statement, the reply is lost
    "redis",    \* the queue or the channel refuses, or its reply is lost
    "slow" }    \* a live relay holds a claim for longer than LOCK_TIMEOUT_MS

ASSUME ConstantsOK ==
  /\ Events \subseteq Nat
  /\ BatchSize \in Nat \ {0}
  /\ Faults \subseteq FaultKinds
  /\ MaxFaults \in Nat
ASSUME FiniteRelays == IsFiniteSet(Relays)

VARIABLES
  status,      \* OutboxEvent.status, "absent" before the row exists
  due,         \* availableAt <= now
  stale,       \* lockedAt older than LOCK_TIMEOUT_MS
  candidates,  \* of each relay: rows selected and not yet tried
  claimed,     \* of each relay: rows claimed and not yet settled
  event,       \* of each relay: the row the loop is at
  pc,          \* of each relay: the await it is at
  relayed,     \* history: times each event reached the queue or the channel
  used         \* history: faults so far

vars == << status, due, stale, candidates, claimed, event, pc, relayed, used >>
rows == << status, due, stale >>

Status == { "absent", "pending", "processing", "processed" }
PC == { "idle", "select", "claim", "relay", "mark", "fail" }

Init ==
  /\ status = [e \in Events |-> "absent"]
  /\ due = [e \in Events |-> FALSE]
  /\ stale = [e \in Events |-> FALSE]
  /\ candidates = [r \in Relays |-> {}]
  /\ claimed = [r \in Relays |-> {}]
  /\ event = [r \in Relays |-> 0]
  /\ pc = [r \in Relays |-> "idle"]
  /\ relayed = [e \in Events |-> 0]
  /\ used = 0

Goto(r, l) == pc' = [pc EXCEPT ![r] = l]
Fault(kind) == kind \in Faults /\ used < MaxFaults /\ used' = used + 1
Earliest(e, s) == e \in s /\ \A f \in s : e <= f

\* The poll ends: normally, by an error that runOutboxRelay logs, or by a crash.
\* Rows it had claimed and not settled stay "processing".
EndPoll(r) ==
  /\ Goto(r, "idle")
  /\ candidates' = [candidates EXCEPT ![r] = {}]
  /\ claimed' = [claimed EXCEPT ![r] = {}]
  /\ event' = [event EXCEPT ![r] = 0]

SetRow(e, st, isDue) ==
  /\ status' = [status EXCEPT ![e] = st]
  /\ due' = [due EXCEPT ![e] = isDue]
  /\ stale' = [stale EXCEPT ![e] = FALSE]

\* outboxService.record inside the payment's transaction: createMany with
\* skipDuplicates, so a second write of the same key changes nothing.
Record(e) ==
  /\ status[e] = "absent"
  /\ SetRow(e, "pending", TRUE)
  /\ UNCHANGED << candidates, claimed, event, pc, relayed, used >>

(***************************************************************************)
(* claimBatch                                                              *)
(***************************************************************************)
Reclaim_Never(r) ==
  /\ pc[r] = "idle"
  /\ Goto(r, "select")
  /\ UNCHANGED << rows, candidates, claimed, event, relayed, used >>

Reclaim_NoTimeout(r) ==
  /\ pc[r] = "idle"
  /\ status' = [e \in Events |-> IF status[e] = "processing" THEN "pending" ELSE status[e]]
  /\ stale' = [e \in Events |-> FALSE]
  /\ Goto(r, "select")
  /\ UNCHANGED << due, candidates, claimed, event, relayed, used >>

\* Claims older than LOCK_TIMEOUT_MS become pending again.
Reclaim(r) ==
  /\ pc[r] = "idle"
  /\ \/ /\ status' = [e \in Events |-> IF status[e] = "processing" /\ stale[e]
                                         THEN "pending" ELSE status[e]]
        /\ stale' = [e \in Events |-> FALSE]
        /\ Goto(r, "select")
        /\ UNCHANGED << due, candidates, claimed, event, used >>
     \/ Fault("db") /\ EndPoll(r) /\ UNCHANGED rows
  /\ UNCHANGED relayed

\* The BATCH_SIZE oldest pending rows that are due.
Due == { e \in Events : status[e] = "pending" /\ due[e] }
Oldest(s) == { e \in s : Cardinality({ f \in s : f < e }) < BatchSize }

Select(r) ==
  /\ pc[r] = "select"
  /\ \/ /\ candidates' = [candidates EXCEPT ![r] = Oldest(Due)]
        /\ Goto(r, "claim")
        /\ UNCHANGED << claimed, event, used >>
     \/ Fault("db") /\ EndPoll(r)
  /\ UNCHANGED << rows, relayed >>

Claim_Unconditional(r) ==
  /\ pc[r] = "claim"
  /\ \E e \in candidates[r] :
       /\ Earliest(e, candidates[r])
       /\ SetRow(e, "processing", due[e])
       /\ claimed' = [claimed EXCEPT ![r] = @ \cup {e}]
       /\ candidates' = [candidates EXCEPT ![r] = @ \ {e}]
  /\ UNCHANGED << pc, event, used, relayed >>

\* updateMany({id, status: 'pending'}): one row or none.
Claim(r) ==
  /\ pc[r] = "claim"
  /\ \E e \in candidates[r] :
       /\ Earliest(e, candidates[r])
       /\ \/ /\ status[e] = "pending"
             /\ SetRow(e, "processing", due[e])
             /\ \/ /\ claimed' = [claimed EXCEPT ![r] = @ \cup {e}]
                   /\ candidates' = [candidates EXCEPT ![r] = @ \ {e}]
                   /\ UNCHANGED << pc, event, used >>
                \/ Fault("dbReply") /\ EndPoll(r)
          \/ /\ status[e] # "pending"
             /\ candidates' = [candidates EXCEPT ![r] = @ \ {e}]
             /\ UNCHANGED << rows, claimed, event, pc, used >>
          \/ Fault("db") /\ EndPoll(r) /\ UNCHANGED rows
  /\ UNCHANGED relayed

ClaimDone(r) ==
  /\ pc[r] = "claim"
  /\ candidates[r] = {}
  /\ Goto(r, "relay")
  /\ UNCHANGED << rows, candidates, claimed, event, relayed, used >>

(***************************************************************************)
(* relayOutboxBatch: relayEvent, then 'processed'; on any error of the two *)
(* back to 'pending' with a backoff.  Both updates are unconditional.      *)
(***************************************************************************)
RelayEvent_Swallows(r) ==
  /\ pc[r] = "relay"
  /\ \E e \in claimed[r] :
       /\ Earliest(e, claimed[r])
       /\ event' = [event EXCEPT ![r] = e]
       /\ Goto(r, "mark")
       /\ \/ relayed' = [relayed EXCEPT ![e] = @ + 1] /\ UNCHANGED used
          \/ Fault("redis") /\ UNCHANGED relayed
  /\ UNCHANGED << rows, candidates, claimed >>

\* enqueuePaymentAlertStrict or redis.publish.
RelayEvent(r) ==
  /\ pc[r] = "relay"
  /\ \E e \in claimed[r] :
       /\ Earliest(e, claimed[r])
       /\ event' = [event EXCEPT ![r] = e]
       /\ \/ /\ relayed' = [relayed EXCEPT ![e] = @ + 1]
             /\ \/ Goto(r, "mark") /\ UNCHANGED used
                \/ Fault("redis") /\ Goto(r, "fail")
          \/ Fault("redis") /\ Goto(r, "fail") /\ UNCHANGED relayed
  /\ UNCHANGED << rows, candidates, claimed >>

Settle(r) ==
  /\ claimed' = [claimed EXCEPT ![r] = @ \ {event[r]}]
  /\ event' = [event EXCEPT ![r] = 0]
  /\ Goto(r, "relay")
  /\ UNCHANGED candidates

MarkProcessed(r) ==
  /\ pc[r] = "mark"
  /\ \/ /\ SetRow(event[r], "processed", due[event[r]])
        /\ \/ Settle(r) /\ UNCHANGED used
           \/ Fault("dbReply") /\ Goto(r, "fail") /\ UNCHANGED << candidates, claimed, event >>
     \/ /\ Fault("db")
        /\ Goto(r, "fail")
        /\ UNCHANGED << rows, candidates, claimed, event >>
  /\ UNCHANGED relayed

MarkFailed(r) ==
  /\ pc[r] = "fail"
  /\ \/ /\ SetRow(event[r], "pending", FALSE)
        /\ \/ Settle(r) /\ UNCHANGED used
           \/ Fault("dbReply") /\ EndPoll(r)
     \/ Fault("db") /\ EndPoll(r) /\ UNCHANGED rows
  /\ UNCHANGED relayed

BatchDone(r) ==
  /\ pc[r] = "relay"
  /\ claimed[r] = {}
  /\ EndPoll(r)
  /\ UNCHANGED << rows, relayed, used >>

\* The backoff of nextAttempt (at most 60 s) passes.
BecomeDue(e) ==
  /\ status[e] = "pending"
  /\ ~due[e]
  /\ due' = [due EXCEPT ![e] = TRUE]
  /\ UNCHANGED << status, stale, candidates, claimed, event, pc, relayed, used >>

\* LOCK_TIMEOUT_MS passes for a claim: of a relay that is gone, or of a live
\* one whose batch takes longer than that.
Held(e) == \E r \in Relays : e \in claimed[r]
LockTimeout(e) ==
  /\ status[e] = "processing"
  /\ ~stale[e]
  /\ IF Held(e) THEN Fault("slow") ELSE UNCHANGED used
  /\ stale' = [stale EXCEPT ![e] = TRUE]
  /\ UNCHANGED << status, due, candidates, claimed, event, pc, relayed >>

Crash(r) ==
  /\ pc[r] # "idle"
  /\ Fault("crash")
  /\ EndPoll(r)
  /\ UNCHANGED << rows, relayed >>

Relay(r) ==
  \/ Reclaim(r) \/ Select(r) \/ Claim(r) \/ ClaimDone(r)
  \/ RelayEvent(r) \/ MarkProcessed(r) \/ MarkFailed(r) \/ BatchDone(r)

Next ==
  \/ \E e \in Events : Record(e) \/ BecomeDue(e) \/ LockTimeout(e)
  \/ \E r \in Relays : Relay(r) \/ Crash(r)

\* setInterval keeps polling, awaits settle, time passes.
Fairness ==
  /\ \A r \in Relays : WF_vars(Relay(r))
  /\ \A e \in Events : WF_vars(BecomeDue(e)) /\ WF_vars(LockTimeout(e) /\ ~Held(e))

Spec == Init /\ [][Next]_vars
FairSpec == Spec /\ Fairness

-----------------------------------------------------------------------------
(* Properties.                                                             *)

\* Every variable keeps the shape the schema and the relay loop give it.
TypeOK ==
  /\ status \in [Events -> Status]
  /\ due \in [Events -> BOOLEAN]
  /\ stale \in [Events -> BOOLEAN]
  /\ candidates \in [Relays -> SUBSET Events]
  /\ claimed \in [Relays -> SUBSET Events]
  /\ event \in [Relays -> Events \cup {0}]
  /\ pc \in [Relays -> PC]
  /\ relayed \in [Events -> Nat]
  /\ used \in 0..MaxFaults

\* An event is marked processed only after it reached its queue or channel
\* (the promise of enqueuePaymentAlertStrict), whatever fails in between.
ProcessedMeansRelayed ==
  \A e \in Events : status[e] = "processed" => relayed[e] > 0

\* As long as no live relay outlasts its lock, two processes never hold the
\* same event: the conditional update makes the claim exclusive.
ClaimExclusive ==
  \A r, s \in Relays : r # s => claimed[r] \cap claimed[s] = {}

(* Why: a relay in its loop is at a row it claimed, and holds only rows    *)
(* that are `processing` and whose lock is fresh.                          *)
LoopOK == \A r \in Relays : pc[r] \in { "mark", "fail" } => event[r] \in claimed[r]
HeldIsProcessing ==
  \A r \in Relays : \A e \in claimed[r] : status[e] = "processing" /\ ~stale[e]

\* The inductive invariant of the claims.
ClaimInv == ClaimExclusive /\ LoopOK /\ HeldIsProcessing

\* Every repetition of an event has its own fault: without one, two processes
\* polling the same table relay each event once.
DuplicatesAccounted == \A e \in Events : relayed[e] <= 1 + used

\* A processed event stays processed while locks outlast their batches and
\* no applied statement is reported as failed.
ProcessedFinal ==
  [][\A e \in Events : status[e] = "processed" => status'[e] = "processed"]_vars

\* No row is ever stuck: every recorded event is finally processed, also one
\* whose relay died between claim and settlement.
EventuallyProcessed ==
  \A e \in Events : status[e] # "absent" ~> [](status[e] = "processed")
=============================================================================
