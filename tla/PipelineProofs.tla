--------------------------- MODULE PipelineProofs ---------------------------
(***************************************************************************)
(* Proofs about Pipeline: the composition implements both of its           *)
(* components, and no payment is lost or sent twice between them.  For any *)
(* events, relay processes, job bound, attempts and outbox faults.         *)
(***************************************************************************)
EXTENDS Pipeline, OutboxProofs, FiniteSetTheorems, TLAPS

\* The delivery protocol of the pipeline, with what is proved about it.
P == INSTANCE DeliveryProofs WITH pc <- place, Faults <- {}

\* Jobs are started in order, one at a time: the job BullMQ keeps may run, an
\* earlier one has finished, a later one has not begun.  None of them ever
\* finds the gate taken, and one that completed has been delivered.
QueueInv ==
  /\ added \in 0..Cardinality(Jobs) /\ kept \in 0..added
  /\ \A j \in Jobs : j > added => place[j] = "idle" /\ runs[j] = 0 /\ outcome[j] = "none"
  /\ \A j \in Jobs : j # kept /\ j <= added => P!Finished(j)
  /\ \A j \in Jobs : place[j] \notin P!Contended
  /\ \A j \in Jobs : place[j] = "idle" /\ outcome[j] \in P!Completed => P!SomeDelivered
  /\ relayed[Payment] > 0 => added > 0

PipelineInv ==
  /\ TypeOK /\ RelayedInv
  /\ P!Typed /\ P!GateInv /\ P!HolderAlive /\ P!ReleaseSound /\ P!AllRecorded /\ ~stranded
  /\ QueueInv

-----------------------------------------------------------------------------
(* The two instances of the protocol are the same protocol.                *)

\* The words of the properties.
LEMMA SameWords ==
  /\ D!SomeDelivered <=> P!SomeDelivered
  /\ \A j : D!Finished(j) <=> P!Finished(j)
  /\ D!Completed = P!Completed
  BY DEF D!SomeDelivered, P!SomeDelivered, D!Finished, P!Finished, D!Completed, P!Completed

\* The initial states.
LEMMA SameInit == D!Init <=> P!Init
  BY DEF D!Init, P!Init, D!NoGate, P!NoGate

\* The steps of an execution.
LEMMA SameStep ==
  ASSUME NEW j \in Jobs PROVE (D!Start(j) <=> P!Start(j)) /\ (D!Step(j) <=> P!Step(j))
<1> USE DEF D!Goto, P!Goto, D!Return, P!Return, D!db, P!db, D!local, P!local, D!history, P!history, D!token, P!token,
      D!NoGate, P!NoGate, D!SomeDelivered, P!SomeDelivered, D!isTerminalDeliveryStatus,
      P!isTerminalDeliveryStatus, D!TERMINAL_DELIVERY_STATES, P!TERMINAL_DELIVERY_STATES
<1>1. D!Start(j) <=> P!Start(j)
  BY DEF D!Start, P!Start, D!Completed, P!Completed
<1>2. D!PreCheckDelivery(j) <=> P!PreCheckDelivery(j)
  BY DEF D!PreCheckDelivery, P!PreCheckDelivery
<1>3. D!PreCheckAttempts(j) <=> P!PreCheckAttempts(j)
  BY DEF D!PreCheckAttempts, P!PreCheckAttempts
<1>4. D!Acquire(j) <=> P!Acquire(j)
  BY DEF D!Acquire, P!Acquire
<1>5. D!AcquireContended(j) <=> P!AcquireContended(j)
  BY DEF D!AcquireContended, P!AcquireContended
<1>6. D!AcquireFailsOpen(j) <=> P!AcquireFailsOpen(j)
  BY DEF D!AcquireFailsOpen, P!AcquireFailsOpen
<1>7. D!ContendedReadDelivery(j) <=> P!ContendedReadDelivery(j)
  BY DEF D!ContendedReadDelivery, P!ContendedReadDelivery
<1>8. D!ContendedReadAttempts(j) <=> P!ContendedReadAttempts(j)
  BY DEF D!ContendedReadAttempts, P!ContendedReadAttempts
<1>9. D!GatedReadDelivery(j) <=> P!GatedReadDelivery(j)
  BY DEF D!GatedReadDelivery, P!GatedReadDelivery
<1>10. D!GatedReadAttempts(j) <=> P!GatedReadAttempts(j)
  BY DEF D!GatedReadAttempts, P!GatedReadAttempts
<1>11. D!RecordCheckTerminal(j) <=> P!RecordCheckTerminal(j)
  BY DEF D!RecordCheckTerminal, P!RecordCheckTerminal
<1>12. D!RecordCount(j) <=> P!RecordCount(j)
  BY DEF D!RecordCount, P!RecordCount
<1>13. D!RecordInProgress(j) <=> P!RecordInProgress(j)
  BY DEF D!RecordInProgress, P!RecordInProgress
<1>14. D!RecordCreate(j) <=> P!RecordCreate(j)
  BY DEF D!RecordCreate, P!RecordCreate
<1>15. D!Dispatch(j) <=> P!Dispatch(j)
  BY DEF D!Dispatch, P!Dispatch, D!SwallowsErrors, P!SwallowsErrors
<1>16. D!MarkAttempt(j) <=> P!MarkAttempt(j)
  BY DEF D!MarkAttempt, P!MarkAttempt
<1>17. D!MarkDelivery(j) <=> P!MarkDelivery(j)
  BY DEF D!MarkDelivery, P!MarkDelivery
<1>18. D!Release(j) <=> P!Release(j)
  BY DEF D!Release, P!Release, D!Settled, P!Settled, D!Releasing, P!Releasing
<1> HIDE DEF D!Goto, P!Goto, D!Return, P!Return, D!db, P!db, D!local, P!local, D!history, P!history, D!token, P!token,
      D!NoGate, P!NoGate, D!SomeDelivered, P!SomeDelivered, D!isTerminalDeliveryStatus,
      P!isTerminalDeliveryStatus, D!TERMINAL_DELIVERY_STATES, P!TERMINAL_DELIVERY_STATES
<1> QED
  BY <1>1, <1>2, <1>3, <1>4, <1>5, <1>6, <1>7, <1>8, <1>9, <1>10, <1>11, <1>12, <1>13, <1>14,
     <1>15, <1>16, <1>17, <1>18 DEF D!Step, P!Step

-----------------------------------------------------------------------------
(* The composition.                                                        *)

\* A step of the pipeline is a step of the outbox or none of its steps, and a
\* step of the delivery protocol or none of its steps.
LEMMA ComponentSteps ==
  ASSUME [PipelineNext]_pipelineVars PROVE [Next]_vars /\ [D!Next]_(D!vars)
<1>1. ASSUME NEW e \in Events, Upstream(Record(e) \/ BecomeDue(e) \/ LockTimeout(e))
      PROVE Next /\ UNCHANGED deliveryState
  BY <1>1 DEF Upstream, Next
<1>2. ASSUME NEW r \in Relays, Upstream(Relay(r)) \/ Upstream(Crash(r))
      PROVE Next /\ UNCHANGED deliveryState
  BY <1>2 DEF Upstream, Next
<1>3. ASSUME NEW j \in Jobs, StartJob(j) \/ Downstream(D!Step(j))
      PROVE D!Next /\ UNCHANGED vars
  BY <1>3 DEF StartJob, Downstream, D!Next
<1>4. ASSUME DropJob \/ UNCHANGED pipelineVars PROVE UNCHANGED << vars, deliveryState >>
  BY <1>4 DEF DropJob, pipelineVars
<1>5. UNCHANGED deliveryState <=> UNCHANGED D!vars
  BY DEF deliveryState, D!vars
<1> QED
  BY <1>1, <1>2, <1>3, <1>4, <1>5 DEF PipelineNext

\* The pipeline runs the outbox and the delivery protocol as they are: every
\* behaviour of it is one of each, so all that is proved of them holds in it.
THEOREM PipelineComposes == PipelineSpec => Spec /\ D!Spec
<1>1. PipelineInit => Init /\ D!Init
  BY DEF PipelineInit
<1> QED
  BY <1>1, ComponentSteps, PTL DEF PipelineSpec, Spec, D!Spec

\* The relays' claims stay exclusive with the queue and its jobs behind them,
\* while no lock is outlasted and no applied statement is reported as failed.
THEOREM PipelineClaimsExclusive == ASSUME SoundLocks PROVE PipelineSpec => []ClaimExclusive
  BY PipelineComposes, ClaimsExclusive, PTL

-----------------------------------------------------------------------------
(* The inductive invariant.                                                *)

\* The constants are those the protocol is proved for.
LEMMA DeliveryConstants ==
  /\ MaxRuns \in Nat \ {0} /\ GateRetry \in Nat /\ Channel \in { "webhook", "email", "push" }
  /\ {} \subseteq P!FaultKinds
  /\ P!SafeGate
  BY PipelineOK DEF P!SafeGate

\* Jobs are numbered from one.
LEMMA JobNumbers == Cardinality(Jobs) \in Nat /\ Jobs = 1..Cardinality(Jobs)
  BY PipelineOK, FS_CardinalityType

\* The empty pipeline.
LEMMA PipelineInvInit == PipelineInit => PipelineInv
<1> SUFFICES ASSUME PipelineInit PROVE PipelineInv
  OBVIOUS
<1>1. Init /\ P!Init /\ kept = 0 /\ added = 0
  BY SameInit DEF PipelineInit
<1>2. TypeOK /\ RelayedInv
  BY <1>1, TypeInit DEF Init, RelayedInv, ProcessedMeansRelayed
<1>3. P!Typed /\ P!GateInv /\ P!HandoverInv
  BY <1>1, DeliveryConstants, P!TypedInit, P!GateInvInit, P!HandoverInit
<1>4. P!AllRecorded /\ ~stranded
  BY <1>1 DEF P!Init, P!AllRecorded
<1>5. QueueInv
  <2>1. relayed[Payment] = 0
    BY <1>1, PipelineOK DEF Init
  <2>2. \A j \in Jobs : place[j] = "idle" /\ runs[j] = 0 /\ outcome[j] = "none" /\ ~(j <= added)
    BY <1>1, JobNumbers DEF P!Init
  <2> QED
    BY <1>1, <2>1, <2>2, JobNumbers DEF QueueInv, P!Contended, P!Completed
<1> QED
  BY <1>2, <1>3, <1>4, <1>5 DEF PipelineInv, P!HandoverInv

\* What is proved of the components is kept by every step of the pipeline.
LEMMA ComponentInvStep ==
  ASSUME PipelineInv, [PipelineNext]_pipelineVars
  PROVE  /\ TypeOK' /\ RelayedInv'
         /\ P!Typed' /\ P!GateInv' /\ P!HolderAlive' /\ P!ReleaseSound' /\ P!AllRecorded' /\ ~stranded'
<1>1. [Next]_vars /\ [D!Next]_(D!vars)
  BY ComponentSteps
<1>2. TypeOK' /\ RelayedInv'
  BY <1>1, TypeStep, RelayedStep DEF PipelineInv
<1>3. [P!Next]_(P!vars)
  <2>1. ASSUME NEW j \in Jobs, StartJob(j) \/ Downstream(D!Step(j)) PROVE P!Next
    BY <2>1, SameStep DEF StartJob, Downstream, P!Next
  <2>2. ASSUME UNCHANGED deliveryState PROVE UNCHANGED P!vars
    BY <2>2 DEF deliveryState, P!vars
  <2> QED
    BY <2>1, <2>2 DEF PipelineNext, Upstream, DropJob, pipelineVars
<1>4. P!Typed' /\ P!GateInv'
  BY <1>3, DeliveryConstants, P!TypedStep, P!GateInvStep DEF PipelineInv
<1>5. P!HolderAlive' /\ P!ReleaseSound' /\ P!AllRecorded' /\ ~stranded'
  BY <1>3, DeliveryConstants, P!HolderAliveStep, P!ReleaseSoundStep, P!AllRecordedStep, P!StrandedStep
  DEF PipelineInv, P!GateInv
<1> QED
  BY <1>2, <1>4, <1>5

\* BullMQ runs one job of the id at a time and forgets it only when finished.
LEMMA QueueStep == ASSUME PipelineInv, [PipelineNext]_pipelineVars PROVE QueueInv'
<1> USE JobNumbers
<1>1. \A j \in Jobs : j \in Nat /\ j > 0 /\ j <= Cardinality(Jobs)
  OBVIOUS
<1>2. added \in Nat /\ kept \in Nat /\ added <= Cardinality(Jobs) /\ kept <= added
  BY DEF PipelineInv, QueueInv
<1>3. ASSUME UNCHANGED deliveryState PROVE
             /\ UNCHANGED << place, runs, outcome >>
             /\ UNCHANGED P!SomeDelivered /\ \A j \in Jobs : UNCHANGED P!Finished(j)
  BY <1>3 DEF deliveryState, P!SomeDelivered, P!Finished
<1>4. ASSUME UNCHANGED deliveryState, AddJob \/ UNCHANGED << kept, added >>,
             relayed'[Payment] > 0 => relayed[Payment] > 0 \/ added' > 0
      PROVE QueueInv'
  <2>1. CASE UNCHANGED << kept, added >>
    BY <1>3, <1>4, <2>1 DEF PipelineInv, QueueInv
  <2>2. CASE kept = 0 /\ added < Cardinality(Jobs) /\ added' = added + 1 /\ kept' = added + 1
    <3>1. \A j \in Jobs : j # kept' /\ j <= added' => j # kept /\ j <= added
      BY <1>1, <1>2, <2>2
    <3>2. \A j \in Jobs : j > added' => j > added
      BY <1>1, <1>2, <2>2
    <3>3. added' \in 0..Cardinality(Jobs) /\ kept' \in 0..added' /\ added' > 0
      BY <1>2, <2>2
    <3> QED
      BY <1>3, <1>4, <3>1, <3>2, <3>3 DEF PipelineInv, QueueInv
  <2> QED
    BY <1>4, <2>1, <2>2 DEF AddJob
<1>5. ASSUME NEW A, Upstream(A), [Next]_vars PROVE QueueInv'
  <2>1. AddJob => added' > 0
    BY <1>2 DEF AddJob
  <2>2. relayed'[Payment] > 0 => relayed[Payment] > 0 \/ added' > 0
    BY <1>5, <2>1 DEF Upstream
  <2> QED
    BY <1>4, <1>5, <2>2 DEF Upstream
<1>6. ASSUME NEW j \in Jobs, (P!Start(j) /\ kept = j) \/ P!Step(j), UNCHANGED << vars, kept, added >>
      PROVE QueueInv'
  <2>1. P!Typed /\ P!LogicalFollows /\ P!HolderAlive /\ P!ReleaseSound /\ ~stranded
    BY DEF PipelineInv, P!GateInv
  <2>2. /\ \A i \in Jobs : i # j => place'[i] = place[i] /\ outcome'[i] = outcome[i] /\ runs'[i] = runs[i]
        /\ P!Step(j) => place[j] # "idle"
    BY <1>6, <2>1, DeliveryConstants, P!JobFrame
  <2>3. \A i \in Jobs : place[i] # "idle" => i = kept
    BY <1>1, <1>2 DEF PipelineInv, QueueInv, P!Finished
  <2>4. j = kept
    BY <1>6, <2>2, <2>3
  <2>5. \A i \in Jobs : i # j => place[i] = "idle"
    BY <2>3, <2>4
  <2>6. place'[j] \notin P!Contended
    <3>1. SUFFICES ASSUME place'[j] \in P!Contended PROVE FALSE
      OBVIOUS
    <3>2. place[j] \notin P!Contended
      BY DEF PipelineInv, QueueInv
    <3>3. PICK k \in Jobs : k # j /\ place[k] \in P!Critical
      BY <1>6, <2>1, <3>1, <3>2, DeliveryConstants, P!ResignsToHolder
    <3> QED
      BY <2>5, <3>3 DEF P!Critical, P!Committed, P!Recording, P!Releasing
  <2>7. P!SomeDelivered => P!SomeDelivered'
    <3>1. P!Next
      BY <1>6 DEF P!Next
    <3> QED
      BY <2>1, <3>1, DeliveryConstants, P!RowsStep
  <2>8. place'[j] = "idle" /\ outcome'[j] \in P!Completed => P!SomeDelivered
    <3>1. place[j] \notin P!Contended
      BY DEF PipelineInv, QueueInv
    <3> QED
      BY <1>6, <2>1, <3>1, DeliveryConstants, P!CompletesDelivered
  <2>9. \A i \in Jobs : i # kept => (P!Finished(i)' <=> P!Finished(i))
    BY <2>2, <2>4 DEF P!Finished
  <2>10. relayed' = relayed /\ kept' = kept /\ added' = added /\ kept <= added
    BY <1>2, <1>6 DEF vars
  <2>11. \A i \in Jobs : i > added => i # j
    BY <1>1, <1>2, <2>4
  <2>12. /\ \A i \in Jobs : i > added' => place'[i] = "idle" /\ runs'[i] = 0 /\ outcome'[i] = "none"
         /\ \A i \in Jobs : i # kept' /\ i <= added' => P!Finished(i)'
    BY <2>2, <2>4, <2>9, <2>10, <2>11 DEF PipelineInv, QueueInv
  <2>13. /\ \A i \in Jobs : place'[i] \notin P!Contended
         /\ \A i \in Jobs : place'[i] = "idle" /\ outcome'[i] \in P!Completed => P!SomeDelivered'
    BY <2>2, <2>6, <2>7, <2>8 DEF PipelineInv, QueueInv
  <2> QED
    BY <2>10, <2>12, <2>13 DEF PipelineInv, QueueInv, P!Contended, P!Completed
<1>7. CASE DropJob
  <2>1. \A j \in Jobs : j <= added => P!Finished(j)
    BY <1>7, SameWords DEF DropJob, PipelineInv, QueueInv
  <2>2. UNCHANGED deliveryState /\ kept' = 0 /\ added' = added /\ relayed' = relayed
    BY <1>7 DEF DropJob, vars
  <2> QED
    BY <1>2, <1>3, <2>1, <2>2 DEF PipelineInv, QueueInv
<1>8. CASE UNCHANGED pipelineVars
  BY <1>4, <1>8 DEF pipelineVars, vars
<1>9. [Next]_vars
  BY ComponentSteps
<1> QED
  BY <1>5, <1>6, <1>7, <1>8, <1>9, SameStep DEF PipelineNext, StartJob, Downstream

\* No payment is lost or sent twice between the outbox and its provider: the
\* outbox settles an event only when the payment is settled or a job still
\* runs, and however often the event is relayed and its job id reused, the
\* provider accepts one request.  For every outbox fault, lost replies and
\* outlasted locks included.
THEOREM PipelineIsSafe == PipelineSpec => []PipelineSafe
<1>1. PipelineInv /\ [PipelineNext]_pipelineVars => PipelineInv'
  BY ComponentInvStep, QueueStep DEF PipelineInv
<1>2. ASSUME PipelineInv PROVE NoneInBetween
  <2>1. SUFFICES ASSUME status[Payment] = "processed" PROVE Settled \/ (kept # 0 /\ ~D!Finished(kept))
    BY DEF NoneInBetween
  <2>2. added > 0
    BY <1>2, <2>1, PipelineOK DEF PipelineInv, QueueInv, RelayedInv, ProcessedMeansRelayed
  <2>3. added \in Nat /\ kept \in 0..added /\ added <= Cardinality(Jobs)
    BY <1>2, JobNumbers DEF PipelineInv, QueueInv
  <2>4. ASSUME NEW j \in Jobs, P!Finished(j) PROVE Settled
    BY <1>2, <2>4, SameWords DEF PipelineInv, QueueInv, Settled, Failed, P!Finished
  <2>5. CASE kept # 0
    <3>1. kept \in Jobs
      BY <2>3, <2>5, JobNumbers
    <3> QED
      BY <2>4, <2>5, <3>1, SameWords
  <2>6. CASE kept = 0
    <3>1. 1 \in Jobs /\ 1 <= added /\ 1 # kept
      BY <2>2, <2>3, <2>6, JobNumbers
    <3>2. P!Finished(1)
      BY <1>2, <3>1 DEF PipelineInv, QueueInv
    <3> QED
      BY <2>4, <3>1, <3>2
  <2> QED
    BY <2>5, <2>6
<1>3. ASSUME PipelineInv PROVE AlertedOnce
  <2>1. \A a, b \in sent : a = b
    BY <1>3, DeliveryConstants, P!OneRecorded DEF PipelineInv, P!AllRecorded, P!AcceptedOnce
  <2>2. CASE sent = {}
    BY <2>2, FS_EmptySet DEF AlertedOnce
  <2>3. CASE sent # {}
    <3>1. PICK a \in sent : TRUE
      BY <2>3
    <3>2. sent = {a}
      BY <2>1, <3>1
    <3> QED
      BY <3>2, FS_Singleton DEF AlertedOnce
  <2> QED
    BY <2>2, <2>3
<1>4. PipelineInv => PipelineSafe
  BY <1>2, <1>3 DEF PipelineSafe
<1> QED
  BY <1>1, <1>4, PipelineInvInit, PTL DEF PipelineSpec
=============================================================================
