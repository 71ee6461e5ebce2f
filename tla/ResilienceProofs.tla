-------------------------- MODULE ResilienceProofs --------------------------
(***************************************************************************)
(* Proofs about the services that keep work going through failures: the     *)
(* supervision and shutdown of workers, the slots of a wallet, batches,     *)
(* circuit breakers and the failover of the database.  A service moves only *)
(* by its own steps, so each invariant is proved over those.                *)
(***************************************************************************)
EXTENDS MCServices, FiniteSetTheorems, SequenceTheorems, TLAPS

(***************************************************************************)
(* Supervision and shutdown                                                *)
(***************************************************************************)
LEMMA SupervisionMoves == [Next]_vars => Su!SupervisionNext \/ UNCHANGED supervisionState
  BY DEF Next, Frame, vars

\* A respawn is pending only for a child that is gone, and a process that was
\* stopped has no listener that would schedule one.
SupervisorInv ==
  /\ child \in { "none", "up", "frozen", "dead", "unborn" }
  /\ respawns \in {0, 1} /\ (respawns = 1 => child = "none")
  /\ stopped /\ ~midSpawn => ~forked /\ respawns = 0

\* Who waits or cleans up is draining, so that no task begins meanwhile.
DrainInv ==
  /\ draining \in { "no", "waiting", "cleanup" }
  /\ draining # "no" => lifecycle = "DRAINING"
  /\ draining = "cleanup" /\ ~gaveUp => inFlight = {}

SupervisionInv == SupervisorInv /\ DrainInv

LEMMA SupervisionFirst == Init => SupervisionInv
  BY DEF Init, Su!SupervisionInit, SupervisionInv, SupervisorInv, DrainInv

LEMMA SupervisionStep == SupervisionInv /\ [Next]_vars => SupervisionInv'
<1> SUFFICES ASSUME SupervisionInv, [Next]_vars PROVE SupervisionInv'
  OBVIOUS
<1> USE DEF Su!supervisorVars, Su!workerVars
<1>1. CASE UNCHANGED supervisionState
  BY <1>1 DEF SupervisionInv, SupervisorInv, DrainInv, supervisionState
<1>2. CASE Su!Spawn \/ Su!SpawnFails
  BY <1>2 DEF SupervisionInv, SupervisorInv, DrainInv, Su!Spawn, Su!SpawnFails
<1>3. CASE Su!Ping \/ Su!Pong \/ Su!PongTimeout \/ Su!ChildFaults
  BY <1>3 DEF SupervisionInv, SupervisorInv, DrainInv, Su!Ping, Su!Pong, Su!PongTimeout, Su!ChildFaults
<1>4. CASE Su!ExitEvent
  BY <1>4 DEF SupervisionInv, SupervisorInv, DrainInv, Su!ExitEvent
<1>5. CASE Su!StopAll
  <2>1. midSpawn' = (respawns > 0)
    BY <1>5 DEF Su!StopAll
  <2>2. ~midSpawn' => ~(respawns > 0)
    BY <2>1, Zenon
  <2>3. ~midSpawn' => respawns = 0
    BY <2>2 DEF SupervisionInv, SupervisorInv
  <2>4. ~forked' /\ UNCHANGED << child, respawns, lifecycle, inFlight, draining, gaveUp >>
    BY <1>5 DEF Su!StopAll
  <2> QED
    BY <2>3, <2>4 DEF SupervisionInv, SupervisorInv, DrainInv
<1>6. CASE Su!Sigterm \/ Su!Drained \/ Su!CleanedUp
  BY <1>6 DEF SupervisionInv, SupervisorInv, DrainInv, Su!Sigterm, Su!Drained, Su!CleanedUp
<1>7. ASSUME NEW t \in Tasks, Su!RunTask(t) \/ Su!EndTask(t) PROVE SupervisionInv'
  BY <1>7 DEF SupervisionInv, SupervisorInv, DrainInv, Su!RunTask, Su!EndTask
<1> QED
  BY <1>1, <1>2, <1>3, <1>4, <1>5, <1>6, <1>7, SupervisionMoves DEF Su!SupervisionNext

\* A worker has one process at most, is not forked anew after stopAll, and closes
\* resources under a task only when the drain timed out, in every order of pings,
\* kills, exits and signals (WorkerSupervisor and WorkerLifecycleManager).
THEOREM SupervisionIsSafe == Spec => []SupervisionSafe
<1>1. SupervisionInv => SupervisionSafe
  BY DEF SupervisionInv, SupervisorInv, DrainInv, SupervisionSafe, Su!OneProcess, Su!StopsForGood, Su!CleanupAfterTasks
<1> QED
  BY <1>1, SupervisionFirst, SupervisionStep, PTL DEF Spec

(***************************************************************************)
(* The slots of a wallet                                                   *)
(***************************************************************************)
LEMMA SlotsMove == [Next]_vars => Sl!SlotsNext \/ UNCHANGED slotsState
  BY DEF Next, Frame, vars

Inside == { d \in Dispatches : dispatch[d] \in { "slot", "forced" } }
SlotsInv ==
  /\ DOMAIN dispatch = Dispatches
  /\ active = Cardinality(Inside)

LEMMA InsideFinite == IsFiniteSet(Inside) /\ Cardinality(Inside) \in Nat
<1>1. IsFiniteSet(Dispatches) /\ Inside \subseteq Dispatches
  BY ResilienceOK DEF Inside
<1> QED
  BY <1>1, FS_Subset, FS_CardinalityType

LEMMA SlotsFirst == Init => SlotsInv
<1> SUFFICES ASSUME Sl!SlotsInit PROVE SlotsInv
  BY DEF Init
<1>1. Inside = {}
  BY DEF Inside, Sl!SlotsInit
<1>2. Cardinality(Inside) = 0
  BY <1>1, FS_EmptySet
<1> QED
  BY <1>2 DEF SlotsInv, Sl!SlotsInit

LEMMA SlotsStep == SlotsInv /\ [Next]_vars => SlotsInv'
<1> SUFFICES ASSUME SlotsInv, [Next]_vars PROVE SlotsInv'
  OBVIOUS
<1>a. ASSUME Inside' = Inside, active' = active, DOMAIN dispatch' = Dispatches PROVE SlotsInv'
  BY <1>a DEF SlotsInv
<1>b. ASSUME NEW d \in Dispatches, d \notin Inside, Inside' = Inside \cup {d}, active' = active + 1, DOMAIN dispatch' = Dispatches
      PROVE  SlotsInv'
  <2>1. Cardinality(Inside') = Cardinality(Inside) + 1
    BY <1>b, InsideFinite, FS_AddElement
  <2> QED
    BY <1>b, <2>1 DEF SlotsInv
<1>1. CASE UNCHANGED slotsState
  BY <1>1, <1>a DEF SlotsInv, Inside, slotsState
<1>2. ASSUME NEW d \in Dispatches, Sl!Arrive(d) PROVE SlotsInv'
  <2>1. Inside' = Inside
    BY <1>2 DEF SlotsInv, Inside, Sl!Arrive
  <2> QED
    BY <1>2, <1>a, <2>1 DEF SlotsInv, Sl!Arrive
<1>3. ASSUME NEW d \in Dispatches, Sl!TrySlot(d) PROVE SlotsInv'
  <2>1. CASE active' = active + 1 /\ dispatch' = [dispatch EXCEPT ![d] = "slot"] /\ dispatch[d] = "waiting"
    <3>1. d \notin Inside /\ Inside' = Inside \cup {d}
      BY <2>1 DEF SlotsInv, Inside
    <3> QED
      BY <1>b, <2>1, <3>1 DEF SlotsInv
  <2>2. CASE UNCHANGED << active, dispatch >>
    BY <1>a, <2>2 DEF SlotsInv, Inside
  <2> QED
    BY <1>3, <2>1, <2>2 DEF Sl!TrySlot
<1>4. ASSUME NEW d \in Dispatches, Sl!ForceEntry(d) PROVE SlotsInv'
  <2>1. d \notin Inside /\ Inside' = Inside \cup {d}
    BY <1>4 DEF SlotsInv, Inside, Sl!ForceEntry
  <2> QED
    BY <1>4, <1>b, <2>1 DEF SlotsInv, Sl!ForceEntry
<1>5. ASSUME NEW d \in Dispatches, Sl!Release(d) PROVE SlotsInv'
  <2>1. d \in Inside /\ Inside' = Inside \ {d}
    BY <1>5 DEF SlotsInv, Inside, Sl!Release
  <2>2. Cardinality(Inside') = Cardinality(Inside) - 1
    BY <2>1, InsideFinite, FS_RemoveElement
  <2>3. Cardinality(Inside) # 0
    BY <2>1, InsideFinite, FS_EmptySet
  <2>4. active' = active - 1
    BY <1>5, <2>3, InsideFinite DEF SlotsInv, Sl!Release
  <2> QED
    BY <1>5, <2>2, <2>4 DEF SlotsInv, Sl!Release
<1>6. CASE Sl!WindowOver
  BY <1>6, <1>a DEF SlotsInv, Inside, Sl!WindowOver
<1> QED
  BY <1>1, <1>2, <1>3, <1>4, <1>5, <1>6, SlotsMove DEF Sl!SlotsNext

(***************************************************************************)
(* Batches                                                                 *)
(***************************************************************************)
LEMMA BatchingMoves == [Next]_vars => Ba!BatchingNext \/ UNCHANGED batchingState
  BY DEF Next, Frame, vars

\* While the worker stops, what is pending came after the signal, and what is being
\* posted is what stop() waits for or was being posted already.
StoppingInv ==
  /\ \A i \in DOMAIN pending : pending[i] > stopAt
  /\ \A b \in posting : b = awaited \/ Ba!Range(b) \subseteq atStop

\* An event is in one place: the buffer, one post, or what has ended.
PlaceInv ==
  /\ \A e \in Ba!Range(pending) : e <= enqueued /\ e \notin reported \cup lost /\ \A b \in posting : e \notin Ba!Range(b)
  /\ \A b \in posting : \A e \in Ba!Range(b) :
       e \in Nat /\ e <= enqueued /\ e \notin reported \cup lost /\ \A c \in posting : e \in Ba!Range(c) => c = b
  /\ \A e \in reported \cup lost : e \in Nat /\ e <= enqueued
  /\ lost \cap reported = {}

BatchingInv ==
  /\ enqueued \in Nat /\ stopAt \in Nat /\ stopAt <= enqueued
  /\ pending \in Seq(Nat)
  /\ batcher \in { "running", "stopping", "exited" }
  /\ batcher = "running" => lost = {}
  /\ batcher = "stopping" => StoppingInv
  /\ PlaceInv
  /\ Ba!OnlyOverlapLost

LEMMA BatchingFirst == Init => BatchingInv
  BY DEF Init, Ba!BatchingInit, BatchingInv, PlaceInv, Ba!Range, Ba!OnlyOverlapLost

\* The end of the process: all that was under way or in the buffer is lost.
LEMMA BatchingEnds ==
  ASSUME BatchingInv, batcher = "stopping", Ba!Ended, hurried => hurried',
         awaited \in posting => hurried'
  PROVE  BatchingInv'
<1> USE DEF Ba!Ended
<1>1. pending' = << >> /\ pending' \in Seq(Nat) /\ posting' = {} /\ Ba!Range(<< >>) = {}
  BY DEF Ba!Range
<1>2. \A e \in Ba!Range(pending) : e > stopAt /\ e \in Nat
  BY DEF BatchingInv, StoppingInv, Ba!Range
<1>3. \A b \in posting : (hurried' /\ b = awaited) \/ Ba!Range(b) \subseteq atStop
  BY DEF BatchingInv, StoppingInv
<1>4. Ba!OnlyOverlapLost'
  <2>1. lost' \cap reported' = {}
    BY DEF BatchingInv, PlaceInv
  <2>2. ASSUME NEW e \in lost' PROVE e \in atStop \/ e > stopAt \/ (hurried' /\ e \in Ba!Range(awaited))
    <3>1. CASE e \in lost
      BY <3>1 DEF BatchingInv, Ba!OnlyOverlapLost
    <3>2. CASE e \in Ba!Range(pending)
      BY <1>2, <3>2
    <3>3. CASE \E b \in posting : e \in Ba!Range(b)
      BY <1>3, <3>3
    <3> QED
      BY <2>2, <3>1, <3>2, <3>3
  <2> QED
    BY <2>1, <2>2 DEF Ba!OnlyOverlapLost
<1>5. PlaceInv'
  BY <1>1, <1>2, <1>4 DEF BatchingInv, PlaceInv, Ba!OnlyOverlapLost
<1> QED
  BY <1>1, <1>4, <1>5 DEF BatchingInv

LEMMA BatchingStep == BatchingInv /\ [Next]_vars => BatchingInv'
<1> SUFFICES ASSUME BatchingInv, [Next]_vars PROVE BatchingInv'
  OBVIOUS
<1> USE DEF Ba!stopVars
<1>e. Ba!Range(<< >>) = {}
  BY DEF Ba!Range
<1>1. CASE UNCHANGED batchingState
  BY <1>1 DEF BatchingInv, StoppingInv, PlaceInv, Ba!OnlyOverlapLost, batchingState
<1>a. ASSUME NEW events \in Seq(Nat), batcher = "stopping" => \A i \in DOMAIN events : events[i] > stopAt,
             \A e \in Ba!Range(events) : e <= enqueued' /\ e \notin reported \cup lost /\ \A b \in posting : e \notin Ba!Range(b),
             Ba!Flush(events), batcher # "exited", enqueued' \in Nat, enqueued <= enqueued',
             UNCHANGED << awaited, reported, batcher, atStop, stopAt, hurried >>
      PROVE  BatchingInv'
  <2>0. enqueued \in Nat /\ stopAt \in Nat /\ stopAt <= enqueued' /\ PlaceInv /\ Ba!OnlyOverlapLost
    BY <1>a DEF BatchingInv
  <2>1. pending' = << >> /\ pending' \in Seq(Nat) /\ Ba!Range(pending') = {}
    BY <1>a, <1>e DEF Ba!Flush
  <2>2. \A e \in Ba!Range(events) : e \in Nat
    BY <1>a DEF Ba!Range
  <2>3. CASE batcher = "running"
    <3>1. posting' = posting \cup {events} /\ lost' = lost
      BY <1>a, <2>3 DEF Ba!Flush
    <3>2. PlaceInv'
      BY <1>a, <2>0, <2>1, <2>2, <3>1 DEF PlaceInv
    <3> QED
      BY <1>a, <2>0, <2>1, <2>3, <3>1, <3>2 DEF BatchingInv, Ba!OnlyOverlapLost
  <2>4. CASE batcher = "stopping"
    <3>1. lost' = lost \cup Ba!Range(events) /\ posting' = posting
      BY <1>a, <2>4 DEF Ba!Flush
    <3>2. \A e \in Ba!Range(events) : e > stopAt
      BY <1>a, <2>4 DEF Ba!Range
    <3>3. StoppingInv'
      BY <1>a, <2>1, <2>4, <3>1 DEF BatchingInv, StoppingInv
    <3>4. PlaceInv'
      BY <1>a, <2>0, <2>1, <2>2, <3>1 DEF PlaceInv
    <3>5. Ba!OnlyOverlapLost'
      BY <1>a, <2>0, <3>1, <3>2, <3>4 DEF PlaceInv, Ba!OnlyOverlapLost
    <3> QED
      BY <1>a, <2>0, <2>1, <2>4, <3>3, <3>4, <3>5 DEF BatchingInv
  <2> QED
    BY <1>a, <2>3, <2>4 DEF BatchingInv
<1>2. CASE Ba!Enqueue
  <2> DEFINE events == Append(pending, enqueued + 1)
  <2>0. /\ events \in Seq(Nat) /\ enqueued' \in Nat /\ enqueued' = enqueued + 1 /\ enqueued <= enqueued'
        /\ batcher # "exited" /\ UNCHANGED << awaited, reported, batcher, atStop, stopAt, hurried >>
        /\ batcher = "stopping" => \A i \in DOMAIN events : events[i] > stopAt
    BY <1>2 DEF BatchingInv, StoppingInv, Ba!Enqueue
  <2>1. Ba!Range(events) = Ba!Range(pending) \cup {enqueued + 1}
    <3>1. /\ Len(events) = Len(pending) + 1 /\ events[Len(pending) + 1] = enqueued + 1 /\ pending \in Seq(Nat)
          /\ events \in Seq(Nat) /\ \A i \in 1..Len(pending) : events[i] = pending[i]
      BY <2>0, AppendProperties DEF BatchingInv
    <3> HIDE DEF events
    <3>2. DOMAIN events = 1..(Len(pending) + 1) /\ DOMAIN pending = 1..Len(pending) /\ Len(pending) \in Nat
      BY <3>1
    <3>3. \A i \in DOMAIN events : (i \in DOMAIN pending /\ events[i] = pending[i]) \/ events[i] = enqueued + 1
      BY <3>1, <3>2
    <3>4. \A i \in DOMAIN pending : i \in DOMAIN events /\ events[i] = pending[i]
      BY <3>1, <3>2
    <3>5. \E i \in DOMAIN events : events[i] = enqueued + 1
      BY <3>1, <3>2
    <3>6. \A x : x \in Ba!Range(events) <=> x \in Ba!Range(pending) \/ x = enqueued + 1
      BY <3>3, <3>4, <3>5 DEF Ba!Range
    <3> QED
      BY <3>6
  <2>2. /\ enqueued + 1 \notin reported \cup lost
        /\ \A b \in posting : enqueued + 1 \notin Ba!Range(b)
    <3>1. enqueued \in Nat /\ PlaceInv
      BY DEF BatchingInv
    <3> QED
      BY <3>1 DEF PlaceInv
  <2> HIDE DEF events
  <2>3. \A e \in Ba!Range(events) : e <= enqueued' /\ e \notin reported \cup lost /\ \A b \in posting : e \notin Ba!Range(b)
    <3>1. enqueued \in Nat /\ PlaceInv /\ \A e \in Ba!Range(pending) : e \in Nat
      BY DEF BatchingInv, Ba!Range
    <3> QED
      BY <2>0, <2>1, <2>2, <3>1 DEF PlaceInv
  <2>4. CASE Ba!Flush(events)
    BY <1>a, <2>0, <2>3, <2>4
  <2>5. CASE pending' = events /\ UNCHANGED << posting, lost >>
    <3>1. batcher' = "stopping" => StoppingInv'
      BY <2>0, <2>5 DEF BatchingInv, StoppingInv
    <3>2. PlaceInv'
      <4>1. enqueued \in Nat /\ PlaceInv
        BY DEF BatchingInv
      <4> QED
        BY <2>0, <2>3, <2>5, <4>1 DEF PlaceInv
    <3> QED
      BY <2>0, <2>5, <3>1, <3>2 DEF BatchingInv, Ba!OnlyOverlapLost
  <2> QED
    BY <1>2, <2>4, <2>5 DEF Ba!Enqueue, events
<1>3. CASE Ba!WindowCloses
  <2>1. /\ \A e \in Ba!Range(pending) : e <= enqueued' /\ e \notin reported \cup lost /\ \A b \in posting : e \notin Ba!Range(b)
        /\ batcher = "stopping" => \A i \in DOMAIN pending : pending[i] > stopAt
        /\ pending \in Seq(Nat) /\ enqueued \in Nat
    BY <1>3 DEF BatchingInv, PlaceInv, StoppingInv, Ba!WindowCloses
  <2>2. /\ Ba!Flush(pending) /\ batcher # "exited" /\ enqueued' \in Nat /\ enqueued <= enqueued'
        /\ UNCHANGED << awaited, reported, batcher, atStop, stopAt, hurried >>
    BY <1>3, <2>1 DEF Ba!WindowCloses
  <2> QED
    BY <1>a, <2>1, <2>2
<1>4. ASSUME NEW b \in posting, Ba!DeliverBatch(b) PROVE BatchingInv'
  <2> USE <1>4 DEF Ba!DeliverBatch
  <2>1. /\ posting' = posting \ {b} /\ reported' = reported \cup Ba!Range(b)
        /\ UNCHANGED << enqueued, pending, awaited, lost, batcher, atStop, stopAt, hurried >>
    OBVIOUS
  <2>2. PlaceInv'
    BY <2>1 DEF BatchingInv, PlaceInv
  <2>3. Ba!OnlyOverlapLost'
    BY <2>1, <2>2 DEF BatchingInv, PlaceInv, Ba!OnlyOverlapLost
  <2> QED
    BY <2>1, <2>2, <2>3 DEF BatchingInv, StoppingInv
<1>5. CASE Ba!Stop
  <2> USE <1>5 DEF Ba!Stop
  <2>1. pending' = << >> /\ pending' \in Seq(Nat) /\ Ba!Range(pending') = {}
    BY <1>e
  <2>2. StoppingInv'
    BY <2>1 DEF StoppingInv
  <2>3. Ba!OnlyOverlapLost'
    BY DEF BatchingInv, Ba!OnlyOverlapLost
  <2>4. \A e \in Ba!Range(pending) : e \in Nat
    BY DEF BatchingInv, Ba!Range
  <2>5. PlaceInv'
    BY <2>1, <2>4 DEF BatchingInv, PlaceInv
  <2> QED
    BY <2>1, <2>2, <2>3, <2>5 DEF BatchingInv
<1>6. CASE Ba!Exit
  BY <1>6, BatchingEnds DEF Ba!Exit
<1>7. CASE Ba!SecondSignal
  BY <1>7, BatchingEnds DEF Ba!SecondSignal
<1> QED
  BY <1>1, <1>2, <1>3, <1>4, <1>5, <1>6, <1>7, BatchingMoves DEF Ba!BatchingNext

\* The slot counter is the number of dispatches inside, for any number of them, and
\* a batch worker that stops loses only posts that were under way, events that came
\* after the signal, and the post it waits for if a second signal cuts it
\* (rate-budget.ts and batch-dispatcher.worker.ts).
THEOREM DispatchIsSafe == Spec => []DispatchSafe
<1>1. SlotsInv => Sl!SlotsBalance
  BY DEF SlotsInv, Inside, Sl!SlotsBalance, Sl!Cardinality, Cardinality
<1>2. SlotsInv /\ BatchingInv => DispatchSafe
  BY <1>1 DEF BatchingInv, DispatchSafe
<1> QED
  BY <1>2, SlotsFirst, SlotsStep, BatchingFirst, BatchingStep, PTL DEF Spec

(***************************************************************************)
(* Circuit breakers                                                        *)
(***************************************************************************)
LEMMA BreakerMoves == [Next]_vars => Br!BreakerNext \/ UNCHANGED breakerState
  BY DEF Next, Frame, vars

\* What an execution may have left to send, while it closes or trips the breaker.
ClosingRest == { << "DEL failures", "DEL opened_at" >>, << "DEL opened_at" >> }
Unsent ==
  { << >>, Br!Closing, << "DEL failures" >>, Br!Tripping, << "SET opened_at" >> } \cup ClosingRest

\* An execution that changes the state, of which there is one unless two crossed.
Major(e) == writes[e] \notin { << >>, << "DEL failures" >> }

\* Commands that keep the failures counted from closing the breaker for good.
Mending == { Br!Closing, Br!Tripping, << "DEL failures" >>, << "DEL failures", "DEL opened_at" >> }

ClockInv ==
  /\ \A e, x \in Executions : Major(e) /\ Major(x) => e = x
  /\ \A e \in Executions : writes[e] \in ClosingRest => state # "OPEN"
  /\ state = "OPEN" /\ openedAt = "none" => \E e \in Executions : writes[e] = << "SET opened_at" >>

BreakerInv ==
  /\ failed \in Nat
  /\ crossed \in BOOLEAN /\ lossy \in BOOLEAN
  /\ DOMAIN step = Executions /\ writes \in [Executions -> Unsent]
  /\ \A e \in Executions : step[e] # "write" <=> writes[e] = << >>
  /\ ~lossy /\ failed >= Threshold => state # "CLOSED" \/ \E e \in Executions : writes[e] \in Mending
  /\ ~lossy /\ ~crossed => ClockInv

LEMMA BreakerFirst == Init => BreakerInv
<1> SUFFICES ASSUME Br!BreakerInit PROVE BreakerInv
  BY DEF Init
<1>1. ClockInv
  BY DEF Br!BreakerInit, ClockInv, Major, ClosingRest
<1>2. writes \in [Executions -> Unsent] /\ ~(failed >= Threshold)
  BY ResilienceOK DEF Br!BreakerInit, Unsent
<1> QED
  BY <1>1, <1>2 DEF Br!BreakerInit, BreakerInv

\* What is sent first of each list, and what is left then.
LEMMA FirstSent ==
  /\ Head(Br!Closing) = "SET CLOSED" /\ Tail(Br!Closing) = << "DEL failures", "DEL opened_at" >> /\ Len(Br!Closing) = 3
  /\ Head(<< "DEL failures", "DEL opened_at" >>) = "DEL failures" /\ Len(<< "DEL failures", "DEL opened_at" >>) = 2
  /\ Tail(<< "DEL failures", "DEL opened_at" >>) = << "DEL opened_at" >>
  /\ Head(Br!Tripping) = "SET OPEN" /\ Tail(Br!Tripping) = << "SET opened_at" >> /\ Len(Br!Tripping) = 2
  /\ \A v : Head(<< v >>) = v /\ Tail(<< v >>) = << >> /\ Len(<< v >>) = 1
<1>1. \A v : Head(<< v >>) = v /\ Tail(<< v >>) = << >> /\ Len(<< v >>) = 1
  OBVIOUS
<1>2. ASSUME NEW v, NEW w PROVE Head(<< v, w >>) = v /\ Tail(<< v, w >>) = << w >> /\ Len(<< v, w >>) = 2
  <2>1. << v, w >> \in Seq({v, w}) /\ << w >> \in Seq({v, w}) /\ << v, w >> # << >>
    OBVIOUS
  <2>2. Tail(<< v, w >>) \in Seq({v, w}) /\ Len(Tail(<< v, w >>)) = 1 /\ Tail(<< v, w >>)[1] = w
    BY <2>1, HeadTailProperties
  <2>3. Tail(<< v, w >>) = << w >>
    BY <2>1, <2>2, SeqEqual
  <2> QED
    BY <2>3
<1>3. ASSUME NEW u, NEW v, NEW w PROVE Head(<< u, v, w >>) = u /\ Tail(<< u, v, w >>) = << v, w >> /\ Len(<< u, v, w >>) = 3
  <2>1. << u, v, w >> \in Seq({u, v, w}) /\ << v, w >> \in Seq({u, v, w}) /\ << u, v, w >> # << >>
    OBVIOUS
  <2>2. /\ Tail(<< u, v, w >>) \in Seq({u, v, w}) /\ Len(Tail(<< u, v, w >>)) = 2
        /\ Tail(<< u, v, w >>)[1] = v /\ Tail(<< u, v, w >>)[2] = w
    BY <2>1, HeadTailProperties
  <2>3. Tail(<< u, v, w >>) = << v, w >>
    <3>1. \A i \in 1..Len(Tail(<< u, v, w >>)) : Tail(<< u, v, w >>)[i] = << v, w >>[i]
      BY <2>2
    <3> QED
      BY <2>1, <2>2, <3>1, SeqEqual
  <2> QED
    BY <2>3
<1>4. Head(Br!Closing) = "SET CLOSED" /\ Tail(Br!Closing) = << "DEL failures", "DEL opened_at" >> /\ Len(Br!Closing) = 3
  BY <1>3 DEF Br!Closing
<1>5. Head(Br!Tripping) = "SET OPEN" /\ Tail(Br!Tripping) = << "SET opened_at" >> /\ Len(Br!Tripping) = 2
  BY <1>2 DEF Br!Tripping
<1> QED
  BY <1>1, <1>2, <1>4, <1>5

LEMMA UnsentCases ==
  ASSUME NEW s \in Unsent, s # << >>
  PROVE  \/ s = Br!Closing \/ s = << "DEL failures" >> \/ s = Br!Tripping \/ s = << "SET opened_at" >>
         \/ s = << "DEL failures", "DEL opened_at" >> \/ s = << "DEL opened_at" >>
  BY Zenon DEF Unsent, ClosingRest

\* The lists are different lists.
LEMMA Distinct ==
  /\ << >> \notin Mending \cup ClosingRest /\ << >> # << "SET opened_at" >>
  /\ Br!Closing \notin ClosingRest /\ Br!Tripping \notin ClosingRest /\ << "DEL failures" >> \notin ClosingRest
  /\ << "SET opened_at" >> \notin ClosingRest \cup Mending
  /\ Br!Closing # << >> /\ Br!Tripping # << >> /\ Br!Closing # << "DEL failures" >> /\ Br!Tripping # << "DEL failures" >>
  /\ << "DEL opened_at" >> # << "DEL failures" >> /\ << "SET opened_at" >> # << "DEL failures" >>
  /\ << "DEL failures", "DEL opened_at" >> # << "DEL failures" >>
  /\ << "DEL opened_at" >> \notin Mending
  BY DEF Mending, ClosingRest, Br!Closing, Br!Tripping

\* An execution that does not write goes on to another command, or sends a list.
Starts == { Br!Closing, << "DEL failures" >>, Br!Tripping }
Onward(e) == /\ \E l : l # "write" /\ step' = [step EXCEPT ![e] = l]
             /\ UNCHANGED << writes, crossed >>
LEMMA Answers ==
  ASSUME NEW e \in Executions, NEW s, Br!Answer(e, s)
  PROVE  Onward(e) \/ \E cmds \in Starts : Br!SendAll(e, cmds)
<1>1. CASE UNCHANGED << writes, crossed >>
  <2>1. \/ step' = [step EXCEPT ![e] = IF s = "OPEN" THEN "idle" ELSE "call"]
        \/ step' = [step EXCEPT ![e] = "idle"] \/ step' = [step EXCEPT ![e] = "INCR"]
        \/ \E cmds \in Starts : Br!SendAll(e, cmds)
    BY DEF Br!Answer, Br!At, Starts
  <2> QED
    BY <1>1, <2>1 DEF Onward
<1>2. CASE ~UNCHANGED << writes, crossed >>
  BY <1>2 DEF Br!Answer, Starts
<1> QED
  BY <1>1, <1>2

\* A step onwards keeps the invariant.
LEMMA OnwardKeeps ==
  ASSUME BreakerInv, NEW e \in Executions, Onward(e), step[e] # "write", lossy' \in BOOLEAN, ~lossy' => ~lossy,
         state' \in {state, "HALF_OPEN"}, openedAt' = openedAt, failed' = failed \/ (failed' \in Nat /\ failed' < Threshold)
  PROVE  BreakerInv'
<1>1. UNCHANGED << writes, crossed >> /\ DOMAIN step' = Executions /\ \A x \in Executions : step'[x] # "write" <=> writes[x] = << >>
  BY DEF BreakerInv, Onward
<1>2. ~lossy' /\ ~crossed' => ClockInv'
  <2> SUFFICES ASSUME ~lossy', ~crossed' PROVE ClockInv'
    OBVIOUS
  <2>1. ClockInv
    BY <1>1 DEF BreakerInv
  <2> QED
    BY <1>1, <2>1 DEF ClockInv, Major
<1>3. failed' \in Nat /\ (failed' >= Threshold => failed >= Threshold)
  BY ResilienceOK DEF BreakerInv
<1>4. crossed' \in BOOLEAN /\ writes' \in [Executions -> Unsent]
  BY <1>1 DEF BreakerInv
<1>5. ~lossy' /\ failed' >= Threshold => state' # "CLOSED" \/ \E x \in Executions : writes'[x] \in Mending
  BY <1>1, <1>3 DEF BreakerInv
<1> QED
  BY <1>1, <1>2, <1>3, <1>4, <1>5 DEF BreakerInv

\* A list sent by an execution that was not writing keeps it; the failures reach the
\* threshold only with a list that trips.
LEMMA SendAllKeeps ==
  ASSUME BreakerInv, NEW e \in Executions, NEW cmds \in Starts, Br!SendAll(e, cmds), step[e] # "write",
         lossy' \in BOOLEAN, ~lossy' => ~lossy,
         state' \in {state, "HALF_OPEN"}, openedAt' = openedAt, failed' \in Nat
  PROVE  BreakerInv'
<1>1. writes[e] = << >> /\ writes' = [writes EXCEPT ![e] = cmds] /\ step' = [step EXCEPT ![e] = "write"]
  BY DEF BreakerInv, Br!SendAll, Br!At
<1>2. cmds \in Unsent /\ cmds \in Mending /\ cmds \notin ClosingRest /\ cmds # << >>
  BY Distinct DEF Starts, Unsent, Mending
<1>3. /\ DOMAIN step' = Executions /\ writes' \in [Executions -> Unsent]
      /\ \A x \in Executions : step'[x] # "write" <=> writes'[x] = << >>
      /\ writes'[e] = cmds /\ \A x \in Executions \ {e} : writes'[x] = writes[x]
  BY <1>1, <1>2 DEF BreakerInv
<1>4. crossed' \in BOOLEAN /\ (~crossed' => ~crossed /\ \A x \in Executions \ {e} : ~Major(x))
  BY DEF BreakerInv, Br!SendAll, Major
<1>5. ~lossy' /\ ~crossed' => ClockInv'
  <2> SUFFICES ASSUME ~lossy', ~crossed' PROVE ClockInv'
    OBVIOUS
  <2>1. ClockInv
    BY <1>4 DEF BreakerInv
  <2>2. \A x \in Executions : Major(x)' => x = e
    BY <1>3, <1>4 DEF Major
  <2>3. \A x \in Executions : writes'[x] \in ClosingRest => state' # "OPEN"
    BY <1>2, <1>3, <2>1 DEF ClockInv
  <2>4. state' = "OPEN" /\ openedAt' = "none" => \E x \in Executions : writes'[x] = << "SET opened_at" >>
    BY <1>1, <1>3, <2>1, Distinct DEF ClockInv
  <2> QED
    BY <2>2, <2>3, <2>4 DEF ClockInv
<1> QED
  BY <1>2, <1>3, <1>4, <1>5 DEF BreakerInv

\* One command of a list is sent.
LEMMA WriteKeeps ==
  ASSUME BreakerInv, NEW e \in Executions, Br!Write(e)
  PROVE  BreakerInv'
<1> DEFINE s == writes[e]
           w == Head(s)
<1>0. /\ step[e] = "write" /\ UNCHANGED << crossed, lossy >>
      /\ state' = (CASE w = "SET CLOSED" -> "CLOSED" [] w = "SET OPEN" -> "OPEN" [] OTHER -> state)
      /\ failed' = (IF w = "DEL failures" THEN 0 ELSE failed)
      /\ openedAt' = (CASE w = "SET opened_at" -> "recent" [] w = "DEL opened_at" -> "none" [] OTHER -> openedAt)
      /\ writes' = [writes EXCEPT ![e] = Tail(s)]
      /\ step' = [step EXCEPT ![e] = IF Len(s) = 1 THEN "idle" ELSE "write"]
  BY DEF Br!Write, Br!At
<1>1. s \in Unsent /\ s # << >>
  BY <1>0 DEF BreakerInv
<1>a. ASSUME NEW t \in Unsent, Tail(s) = t, (Len(s) = 1) <=> (t = << >>)
      PROVE  /\ DOMAIN step' = Executions /\ writes' \in [Executions -> Unsent]
             /\ \A x \in Executions : step'[x] # "write" <=> writes'[x] = << >>
             /\ writes'[e] = t /\ \A x \in Executions \ {e} : writes'[x] = writes[x]
  BY <1>0, <1>a DEF BreakerInv
<1>b. ASSUME NEW t \in Unsent, Tail(s) = t, (Len(s) = 1) <=> (t = << >>), failed' \in Nat,
             ~lossy /\ failed' >= Threshold => state' # "CLOSED" \/ \E x \in Executions : writes'[x] \in Mending,
             ~lossy /\ ~crossed => ClockInv'
      PROVE  BreakerInv'
  <2>1. crossed' \in BOOLEAN /\ lossy' \in BOOLEAN
    BY <1>0 DEF BreakerInv
  <2> HIDE DEF s, w
  <2> QED
    BY <1>0, <1>a, <1>b, <2>1 DEF BreakerInv
<1>c. s = writes[e] /\ failed \in Nat /\ (~lossy /\ ~crossed => ClockInv) /\ Threshold \in Nat \ {0}
  BY ResilienceOK DEF BreakerInv
<1>d. ~lossy /\ failed >= Threshold => state # "CLOSED" \/ \E x \in Executions : writes[x] \in Mending
  BY DEF BreakerInv
<1> HIDE DEF s, w
<1>e. << "DEL failures", "DEL opened_at" >> \in Unsent /\ << "DEL opened_at" >> \in Unsent /\ << >> \in Unsent /\ << "SET opened_at" >> \in Unsent
  BY DEF Unsent, ClosingRest
<1>f. << "DEL failures", "DEL opened_at" >> # << >> /\ << "DEL opened_at" >> # << >> /\ << "SET opened_at" >> # << >>
  OBVIOUS
<1>2. CASE s = Br!Closing
  <2>0. w = "SET CLOSED"
    BY <1>2, FirstSent DEF w
  <2>a. Tail(s) = << "DEL failures", "DEL opened_at" >> /\ Len(s) # 1
    <3>1. Tail(s) = << "DEL failures", "DEL opened_at" >>
      BY <1>2, FirstSent
    <3>2. Len(s) = 3
      BY <1>2, FirstSent
    <3>3. 3 # 1
      OBVIOUS
    <3> QED
      BY <3>1, <3>2, <3>3, Zenon
  <2>b. state' = "CLOSED" /\ UNCHANGED << failed, openedAt >>
    BY <1>0, <2>0
  <2>1. /\ state' = "CLOSED" /\ UNCHANGED << failed, openedAt >>
        /\ Tail(s) = << "DEL failures", "DEL opened_at" >> /\ Len(s) # 1
    BY <2>a, <2>b
  <2>2. writes'[e] = << "DEL failures", "DEL opened_at" >> /\ \A x \in Executions \ {e} : writes'[x] = writes[x]
    BY <1>a, <1>e, <1>f, <2>1
  <2>3. ~lossy /\ ~crossed => ClockInv'
    BY <1>2, <1>c, <2>1, <2>2, Distinct DEF ClockInv, Major
  <2>4. writes'[e] \in Mending
    BY <2>2 DEF Mending
  <2> QED
    BY <1>b, <1>c, <1>e, <1>f, <2>1, <2>3, <2>4
<1>3. CASE s = << "DEL failures", "DEL opened_at" >>
  <2>0. w = "DEL failures"
    BY <1>3, FirstSent DEF w
  <2>a. Tail(s) = << "DEL opened_at" >> /\ Len(s) # 1
    <3>1. Tail(s) = << "DEL opened_at" >>
      BY <1>3, FirstSent
    <3>2. Len(s) = 2
      BY <1>3, FirstSent
    <3>3. 2 # 1
      OBVIOUS
    <3> QED
      BY <3>1, <3>2, <3>3, Zenon
  <2>b. state' = state /\ failed' = 0 /\ openedAt' = openedAt
    BY <1>0, <2>0
  <2>1. /\ state' = state /\ failed' = 0 /\ openedAt' = openedAt
        /\ Tail(s) = << "DEL opened_at" >> /\ Len(s) # 1
    BY <2>a, <2>b
  <2>2. writes'[e] = << "DEL opened_at" >> /\ \A x \in Executions \ {e} : writes'[x] = writes[x]
    BY <1>a, <1>e, <1>f, <2>1
  <2>3. writes[e] \in ClosingRest
    BY <1>3, <1>c DEF ClosingRest
  <2>4. ~lossy /\ ~crossed => ClockInv'
    BY <1>3, <1>c, <2>1, <2>2, <2>3, Distinct DEF ClockInv, Major
  <2> QED
    <3>1. failed' \in Nat /\ ~(failed' >= Threshold)
      BY <2>b, ResilienceOK
    <3> QED
      BY <1>b, <1>e, <1>f, <2>1, <2>4, <3>1
<1>4. CASE s = << "DEL opened_at" >>
  <2>0. w = "DEL opened_at"
    BY <1>4, FirstSent DEF w
  <2>a. Tail(s) = << >> /\ Len(s) = 1
    BY <1>4, FirstSent
  <2>b. state' = state /\ failed' = failed
    BY <1>0, <2>0
  <2>1. /\ state' = state /\ failed' = failed
        /\ Tail(s) = << >> /\ Len(s) = 1
    BY <2>a, <2>b
  <2>2. writes'[e] = << >> /\ \A x \in Executions \ {e} : writes'[x] = writes[x]
    BY <1>a, <1>e, <2>1
  <2>3. writes[e] \in ClosingRest /\ writes[e] \notin Mending
    BY <1>4, <1>c, Distinct DEF ClosingRest
  <2>4. ~lossy /\ ~crossed => ClockInv'
    BY <1>4, <1>c, <2>1, <2>2, <2>3, Distinct DEF ClockInv, Major
  <2>5. ~lossy /\ failed' >= Threshold => state' # "CLOSED" \/ \E x \in Executions : writes'[x] \in Mending
    BY <1>d, <2>1, <2>2, <2>3
  <2> QED
    BY <1>b, <1>c, <1>e, <2>1, <2>4, <2>5
<1>5. CASE s = << "DEL failures" >>
  <2>0. w = "DEL failures"
    BY <1>5, FirstSent DEF w
  <2>a. Tail(s) = << >> /\ Len(s) = 1
    BY <1>5, FirstSent
  <2>b. state' = state /\ failed' = 0 /\ openedAt' = openedAt
    BY <1>0, <2>0
  <2>1. /\ state' = state /\ failed' = 0 /\ openedAt' = openedAt
        /\ Tail(s) = << >> /\ Len(s) = 1
    BY <2>a, <2>b
  <2>2. writes'[e] = << >> /\ \A x \in Executions \ {e} : writes'[x] = writes[x]
    BY <1>a, <1>e, <2>1
  <2>3. ~lossy /\ ~crossed => ClockInv'
    BY <1>5, <1>c, <2>1, <2>2, Distinct DEF ClockInv, Major
  <2> QED
    <3>1. failed' \in Nat /\ ~(failed' >= Threshold)
      BY <2>b, ResilienceOK
    <3> QED
      BY <1>b, <1>e, <2>1, <2>3, <3>1
<1>6. CASE s = Br!Tripping
  <2>0. w = "SET OPEN"
    BY <1>6, FirstSent DEF w
  <2>a. Tail(s) = << "SET opened_at" >> /\ Len(s) # 1
    <3>1. Tail(s) = << "SET opened_at" >>
      BY <1>6, FirstSent
    <3>2. Len(s) = 2
      BY <1>6, FirstSent
    <3>3. 2 # 1
      OBVIOUS
    <3> QED
      BY <3>1, <3>2, <3>3, Zenon
  <2>b. state' = "OPEN" /\ failed' = failed /\ openedAt' = openedAt
    BY <1>0, <2>0
  <2>1. /\ state' = "OPEN" /\ failed' = failed /\ openedAt' = openedAt
        /\ Tail(s) = << "SET opened_at" >> /\ Len(s) # 1
    BY <2>a, <2>b
  <2>2. writes'[e] = << "SET opened_at" >> /\ \A x \in Executions \ {e} : writes'[x] = writes[x]
    BY <1>a, <1>e, <1>f, <2>1
  <2>3. ASSUME ~lossy, ~crossed PROVE ClockInv'
    <3>1. Major(e) /\ \A x \in Executions : Major(x)' => Major(x)
      BY <1>6, <1>c, <2>2, Distinct DEF Major
    <3>2. \A x \in Executions : writes'[x] \notin ClosingRest
      <4> SUFFICES ASSUME NEW x \in Executions, writes'[x] \in ClosingRest PROVE FALSE
        OBVIOUS
      <4>1. x # e
        BY <2>2, Distinct
      <4>2. Major(x)
        BY <2>2, <4>1, Distinct DEF Major
      <4> QED
        BY <1>c, <2>3, <3>1, <4>1, <4>2 DEF ClockInv
    <3> QED
      BY <1>c, <2>2, <2>3, <3>1, <3>2 DEF ClockInv
  <2> QED
    BY <1>b, <1>c, <1>e, <1>f, <2>1, <2>3
<1>7. CASE s = << "SET opened_at" >>
  <2>0. w = "SET opened_at"
    BY <1>7, FirstSent DEF w
  <2>a. Tail(s) = << >> /\ Len(s) = 1
    BY <1>7, FirstSent
  <2>b. state' = state /\ failed' = failed /\ openedAt' = "recent"
    BY <1>0, <2>0
  <2>1. /\ state' = state /\ failed' = failed /\ openedAt' = "recent"
        /\ Tail(s) = << >> /\ Len(s) = 1
    BY <2>a, <2>b
  <2>2. writes'[e] = << >> /\ \A x \in Executions \ {e} : writes'[x] = writes[x]
    BY <1>a, <1>e, <2>1
  <2>3. ~lossy /\ ~crossed => ClockInv'
    BY <1>7, <1>c, <2>1, <2>2, Distinct DEF ClockInv, Major
  <2>4. ~lossy /\ failed' >= Threshold => state' # "CLOSED" \/ \E x \in Executions : writes'[x] \in Mending
    BY <1>7, <1>c, <1>d, <2>1, <2>2, Distinct
  <2> QED
    BY <1>b, <1>c, <1>e, <2>1, <2>3, <2>4
<1> QED
  BY <1>1, <1>2, <1>3, <1>4, <1>5, <1>6, <1>7, UnsentCases

LEMMA BreakerStep == BreakerInv /\ [Next]_vars => BreakerInv'
<1> SUFFICES ASSUME BreakerInv, [Next]_vars PROVE BreakerInv'
  OBVIOUS
<1> USE DEF Br!breakerKeys
<1>0. failed \in Nat /\ Threshold \in Nat \ {0} /\ lossy \in BOOLEAN /\ crossed \in BOOLEAN
  BY ResilienceOK DEF BreakerInv
<1>1. CASE UNCHANGED breakerState
  BY <1>1 DEF BreakerInv, ClockInv, Major, breakerState
<1>2. ASSUME NEW e \in Executions, Br!Execute(e) \/ Br!Call(e) PROVE BreakerInv'
  <2>1. Onward(e)
    BY <1>2 DEF Onward, Br!Execute, Br!Call, Br!At
  <2> QED
    BY <1>0, <1>2, <2>1, OnwardKeeps DEF Br!Execute, Br!Call
<1>3. ASSUME NEW e \in Executions, Br!GetState(e) \/ Br!GetOpenedAt(e) PROVE BreakerInv'
  <2>0. step[e] # "write" /\ UNCHANGED << state, failed, openedAt, lossy >>
    BY <1>3 DEF Br!GetState, Br!GetOpenedAt
  <2>1. Onward(e) \/ \E s : Br!Answer(e, s)
    BY <1>3 DEF Onward, Br!GetState, Br!GetOpenedAt, Br!At
  <2>2. Onward(e) \/ \E cmds \in Starts : Br!SendAll(e, cmds)
    BY <2>1, Answers
  <2> QED
    BY <1>0, <2>0, <2>2, OnwardKeeps, SendAllKeeps
<1>4. ASSUME NEW e \in Executions, Br!SetHalfOpen(e) PROVE BreakerInv'
  <2>0. step[e] # "write" /\ state' = "HALF_OPEN" /\ UNCHANGED << failed, openedAt, lossy >>
    BY <1>4 DEF Br!SetHalfOpen
  <2>1. Onward(e) \/ \E cmds \in Starts : Br!SendAll(e, cmds)
    BY <1>4, Answers DEF Br!SetHalfOpen
  <2> QED
    BY <1>0, <2>0, <2>1, OnwardKeeps, SendAllKeeps
<1>5. ASSUME NEW e \in Executions, Br!Incr(e) PROVE BreakerInv'
  <2>0. step[e] # "write" /\ failed' \in Nat /\ UNCHANGED << state, openedAt, lossy >>
    BY <1>0, <1>5 DEF Br!Incr
  <2>1. CASE Br!SendAll(e, Br!Tripping)
    BY <1>0, <2>0, <2>1, SendAllKeeps DEF Starts
  <2>2. CASE ~(failed + 1 >= Threshold)
    <3>1. Onward(e) /\ failed' < Threshold
      BY <1>0, <1>5, <2>2 DEF Br!Incr, Onward, Br!At
    <3> QED
      BY <1>0, <2>0, <3>1, OnwardKeeps
  <2> QED
    BY <1>5, <2>1, <2>2 DEF Br!Incr
<1>6. ASSUME NEW e \in Executions, Br!Write(e) PROVE BreakerInv'
  BY <1>6, WriteKeeps
<1>7. ASSUME NEW e \in Executions, Br!Manual(e) PROVE BreakerInv'
  BY <1>0, <1>7, SendAllKeeps DEF Br!Manual, Starts
<1>8. ASSUME NEW e \in Executions, Br!BreakerRedisFails(e) PROVE BreakerInv'
  <2>0. lossy' = TRUE /\ UNCHANGED << state, failed, openedAt >>
    BY <1>8 DEF Br!BreakerRedisFails
  <2>1. CASE step[e] # "write" /\ Br!Answer(e, "CLOSED")
    <3>1. Onward(e) \/ \E cmds \in Starts : Br!SendAll(e, cmds)
      BY <2>1, Answers
    <3> QED
      BY <1>0, <2>0, <2>1, <3>1, OnwardKeeps, SendAllKeeps
  <2>2. CASE writes' = [writes EXCEPT ![e] = << >>] /\ Br!At(e, "idle") /\ UNCHANGED crossed
    <3>1. << >> \in Unsent
      BY DEF Unsent
    <3>2. /\ DOMAIN step' = Executions /\ writes' \in [Executions -> Unsent]
          /\ \A x \in Executions : step'[x] # "write" <=> writes'[x] = << >>
      BY <2>2, <3>1 DEF BreakerInv, Br!At
    <3> QED
      BY <1>0, <2>0, <2>2, <3>2 DEF BreakerInv
  <2> QED
    BY <1>8, <2>1, <2>2 DEF Br!BreakerRedisFails
<1>9. CASE Br!TimePasses
  <2>1. ClockInv => ClockInv'
    BY <1>9 DEF ClockInv, Major, Br!TimePasses
  <2>2. failed' \in {0, failed}
    BY <1>9 DEF Br!TimePasses
  <2> QED
    BY <1>0, <1>9, <2>1, <2>2 DEF BreakerInv, Br!TimePasses
<1> QED
  BY <1>1, <1>2, <1>3, <1>4, <1>5, <1>6, <1>7, <1>8, <1>9, BreakerMoves DEF Br!BreakerNext, Br!Go

\* A breaker that reached its threshold is not left closed, and an open one has the
\* time its cooldown is counted from, but for crossed lists and a Redis that failed,
\* for any number of executions (recordSuccess, recordFailure, trip and reset).
THEOREM BreakerIsSafe == Spec => []BreakerSafe
<1>1. BreakerInv => BreakerSafe
  <2> SUFFICES ASSUME BreakerInv PROVE BreakerSafe
    OBVIOUS
  <2>1. Br!OpenHasClock
    BY Distinct DEF BreakerInv, ClockInv, Br!OpenHasClock, Br!Settled
  <2>2. Br!ClosedBelowThreshold
    <3>1. Br!Settled => \A e \in Executions : writes[e] \notin Mending
      BY Distinct DEF Br!Settled
    <3>2. failed \in Nat /\ Threshold \in Nat
      BY ResilienceOK DEF BreakerInv
    <3> QED
      BY <3>1, <3>2 DEF BreakerInv, Br!ClosedBelowThreshold
  <2> QED
    BY <2>1, <2>2 DEF BreakerSafe
<1> QED
  BY <1>1, BreakerFirst, BreakerStep, PTL DEF Spec

(***************************************************************************)
(* Failover of the database                                                *)
(***************************************************************************)
LEMMA FailoverMoves == [Next]_vars => Fo!FailoverNext \/ UNCHANGED failoverState
  BY DEF Next, Frame, vars

\* One mutation may stand before another in the order of the replay.
Before(m, n, r) == m < n \/ (m = n /\ m \in r)
Increasing(s, r) == \A i, j \in DOMAIN s : i < j => Before(s[i], s[j], r)
Below(s, t, r) == \A i \in DOMAIN s : \A j \in DOMAIN t : Before(s[i], t[j], r)

\* An element more, at either end of an increasing sequence of numbers.
LEMMA Lengthened ==
  ASSUME NEW s \in Seq(Nat), NEW n \in Nat, NEW r
  PROVE  /\ Append(s, n) \in Seq(Nat) /\ Range(Append(s, n)) = Range(s) \cup {n}
         /\ Increasing(s, r) /\ (\A i \in DOMAIN s : Before(s[i], n, r)) => Increasing(Append(s, n), r)
         /\ << n >> \o s \in Seq(Nat) /\ Range(<< n >> \o s) = Range(s) \cup {n}
         /\ Increasing(s, r) /\ (\A i \in DOMAIN s : Before(n, s[i], r)) => Increasing(<< n >> \o s, r)
<1>1. Append(s, n) \in Seq(Nat) /\ Range(Append(s, n)) = Range(s) \cup {n}
  <2>1. /\ Append(s, n) \in Seq(Nat) /\ Len(Append(s, n)) = Len(s) + 1 /\ Append(s, n)[Len(s) + 1] = n
        /\ \A i \in 1..Len(s) : Append(s, n)[i] = s[i]
    BY AppendProperties
  <2>2. \A x : x \in Range(Append(s, n)) <=> x \in Range(s) \/ x = n
    BY <2>1 DEF Range
  <2> QED
    BY <2>1, <2>2
<1>2. ASSUME Increasing(s, r), \A i \in DOMAIN s : Before(s[i], n, r) PROVE Increasing(Append(s, n), r)
  BY <1>2, AppendProperties DEF Increasing
<1>3. /\ << n >> \o s \in Seq(Nat) /\ Len(<< n >> \o s) = Len(s) + 1 /\ (<< n >> \o s)[1] = n
      /\ \A i \in 2..(Len(s) + 1) : (<< n >> \o s)[i] = s[i - 1]
  <2>1. << n >> \in Seq(Nat) /\ Len(<< n >>) = 1 /\ << n >>[1] = n
    OBVIOUS
  <2> QED
    BY <2>1, ConcatProperties
<1>4. Range(<< n >> \o s) = Range(s) \cup {n}
  <2> DEFINE t == << n >> \o s
  <2>1. DOMAIN t = 1..(Len(s) + 1) /\ DOMAIN s = 1..Len(s) /\ Len(s) \in Nat
    BY <1>3
  <2>2. t[1] = n /\ 1 \in DOMAIN t
    BY <1>3, <2>1
  <2>3. \A i \in DOMAIN t : i = 1 \/ (i - 1 \in DOMAIN s /\ t[i] = s[i - 1])
    BY <1>3, <2>1
  <2>4. \A i \in DOMAIN s : i + 1 \in DOMAIN t /\ t[i + 1] = s[i]
    BY <1>3, <2>1
  <2> HIDE DEF t
  <2>5. \A x : x \in Range(t) <=> x \in Range(s) \/ x = n
    BY <2>2, <2>3, <2>4 DEF Range
  <2> QED
    BY <2>5 DEF t
<1>5. ASSUME Increasing(s, r), \A i \in DOMAIN s : Before(n, s[i], r) PROVE Increasing(<< n >> \o s, r)
  <2> DEFINE t == << n >> \o s
  <2>1. t \in Seq(Nat) /\ Len(t) = Len(s) + 1 /\ t[1] = n /\ \A i \in 2..Len(t) : i - 1 \in DOMAIN s /\ t[i] = s[i - 1]
    BY <1>3
  <2> HIDE DEF t
  <2>2. ASSUME NEW i \in DOMAIN t, NEW j \in DOMAIN t, i < j PROVE Before(t[i], t[j], r)
    <3>1. DOMAIN t = 1..Len(t) /\ Len(t) \in Nat /\ j \in 2..Len(t) /\ j - 1 \in DOMAIN s /\ t[j] = s[j - 1]
      BY <2>1, <2>2
    <3>2. CASE i = 1
      BY <1>5, <2>1, <3>1, <3>2
    <3>3. CASE i # 1
      <4>0. i \in 2..Len(t) /\ i - 1 < j - 1
        BY <2>2, <3>1, <3>3
      <4>1. i - 1 \in DOMAIN s /\ t[i] = s[i - 1] /\ i - 1 < j - 1
        BY <2>1, <4>0
      <4> QED
        BY <1>5, <3>1, <4>1 DEF Increasing
    <3> QED
      BY <3>2, <3>3
  <2>3. Increasing(t, r)
    BY <2>2 DEF Increasing
  <2> QED
    BY <2>3 DEF t
<1> QED
  BY <1>1, <1>2, <1>3, <1>4, <1>5

\* The first element less.
LEMMA Shortened ==
  ASSUME NEW s \in Seq(Nat), s # << >>, NEW r
  PROVE  /\ Tail(s) \in Seq(Nat) /\ Head(s) \in Nat /\ Range(s) = Range(Tail(s)) \cup {Head(s)}
         /\ Increasing(s, r) => Increasing(Tail(s), r) /\ \A i \in DOMAIN Tail(s) : Before(Head(s), Tail(s)[i], r)
<1>1. /\ Tail(s) \in Seq(Nat) /\ Head(s) \in Nat /\ Head(s) = s[1] /\ Len(s) \in Nat \ {0} /\ Len(Tail(s)) = Len(s) - 1
      /\ \A i \in 1..Len(Tail(s)) : Tail(s)[i] = s[i + 1]
  BY HeadTailProperties
<1>2. \A i \in 1..Len(s) : i = 1 \/ (i - 1 \in 1..Len(Tail(s)) /\ s[i] = Tail(s)[i - 1])
  BY <1>1
<1> DEFINE t == Tail(s)
<1>a. DOMAIN t = 1..Len(t) /\ DOMAIN s = 1..Len(s) /\ Len(t) = Len(s) - 1 /\ Len(s) \in Nat \ {0}
  BY <1>1
<1>b. \A i \in DOMAIN t : i + 1 \in DOMAIN s /\ t[i] = s[i + 1]
  BY <1>1, <1>a
<1>c. \A i \in DOMAIN s : i = 1 \/ (i - 1 \in DOMAIN t /\ s[i] = t[i - 1])
  BY <1>2, <1>a
<1>d. 1 \in DOMAIN s /\ Head(s) = s[1]
  BY <1>1, <1>a
<1> HIDE DEF t
<1>3. \A x : x \in Range(s) <=> x \in Range(t) \/ x = Head(s)
  BY <1>b, <1>c, <1>d DEF Range
<1>4. ASSUME Increasing(s, r) PROVE Increasing(t, r) /\ \A i \in DOMAIN t : Before(Head(s), t[i], r)
  <2>1. \A i, j \in DOMAIN t : i < j => i + 1 < j + 1
    BY <1>a
  <2>2. \A i \in DOMAIN t : 1 < i + 1
    BY <1>a
  <2>3. Increasing(t, r)
    BY <1>4, <1>b, <2>1 DEF Increasing
  <2> QED
    BY <1>4, <1>b, <1>d, <2>2, <2>3 DEF Increasing
<1> QED
  BY <1>1, <1>3, <1>4 DEF t

\* Increasing sequences one below the other are increasing together.
LEMMA Joined ==
  ASSUME NEW s \in Seq(Nat), NEW t \in Seq(Nat), NEW r, Increasing(s, r), Increasing(t, r), Below(s, t, r)
  PROVE  s \o t \in Seq(Nat) /\ Increasing(s \o t, r)
<1>1. /\ s \o t \in Seq(Nat) /\ Len(s \o t) = Len(s) + Len(t)
      /\ \A i \in 1..Len(s) : (s \o t)[i] = s[i]
      /\ \A i \in (Len(s) + 1)..(Len(s) + Len(t)) : i - Len(s) \in DOMAIN t /\ (s \o t)[i] = t[i - Len(s)]
  BY ConcatProperties
<1> DEFINE c == s \o t
<1>2. DOMAIN c = 1..(Len(s) + Len(t)) /\ DOMAIN s = 1..Len(s) /\ Len(s) \in Nat /\ Len(t) \in Nat
  BY <1>1
<1> HIDE DEF c
<1>3. ASSUME NEW i \in DOMAIN c, NEW j \in DOMAIN c, i < j PROVE Before(c[i], c[j], r)
  <2>1. CASE j <= Len(s)
    BY <1>1, <1>2, <1>3, <2>1 DEF c, Increasing
  <2>2. CASE i <= Len(s) /\ ~(j <= Len(s))
    BY <1>1, <1>2, <1>3, <2>2 DEF c, Below
  <2>3. CASE ~(i <= Len(s))
    BY <1>1, <1>2, <1>3, <2>3 DEF c, Increasing
  <2> QED
    BY <1>2, <1>3, <2>1, <2>2, <2>3
<1>4. Increasing(c, r)
  BY <1>3 DEF Increasing
<1> QED
  BY <1>1, <1>4 DEF c

\* What was applied (a) comes before the mutation in hand (h, 0 if none) and that
\* before the list (b), but for repetitions (r).
Ordered(a, h, b, r) ==
  /\ Increasing(a, r) /\ Increasing(b, r) /\ Below(a, b, r)
  /\ h # 0 => (\A i \in DOMAIN a : Before(a[i], h, r)) /\ (\A j \in DOMAIN b : Before(h, b[j], r))

\* Each step of a replay, and a push, keeps the order.
LEMMA OrderTaken ==
  ASSUME NEW a \in Seq(Nat), NEW b \in Seq(Nat), NEW r, Ordered(a, 0, b, r), b # << >>
  PROVE  Ordered(a, Head(b), Tail(b), r)
<1>1. Increasing(Tail(b), r) /\ \A i \in DOMAIN Tail(b) : Before(Head(b), Tail(b)[i], r)
  BY Shortened DEF Ordered
<1>2. Head(b) = b[1] /\ 1 \in DOMAIN b /\ \A j \in DOMAIN Tail(b) : j + 1 \in DOMAIN b /\ Tail(b)[j] = b[j + 1]
  BY HeadTailProperties
<1>3. Below(a, Tail(b), r) /\ \A i \in DOMAIN a : Before(a[i], Head(b), r)
  BY <1>2 DEF Ordered, Below
<1> QED
  BY <1>1, <1>3 DEF Ordered

LEMMA OrderApplied ==
  ASSUME NEW a \in Seq(Nat), NEW b \in Seq(Nat), NEW h \in Nat \ {0}, NEW r, Ordered(a, h, b, r)
  PROVE  Ordered(Append(a, h), 0, b, r)
<1>1. Increasing(Append(a, h), r)
  BY Lengthened DEF Ordered
<1>2. \A i \in DOMAIN Append(a, h) : (i \in DOMAIN a /\ Append(a, h)[i] = a[i]) \/ Append(a, h)[i] = h
  BY AppendProperties
<1>3. Below(Append(a, h), b, r)
  BY <1>2 DEF Ordered, Below
<1> QED
  BY <1>1, <1>3 DEF Ordered

LEMMA OrderReturned ==
  ASSUME NEW a \in Seq(Nat), NEW b \in Seq(Nat), NEW h \in Nat \ {0}, NEW r, Ordered(a, h, b, r)
  PROVE  Ordered(a, 0, << h >> \o b, r)
<1>1. Increasing(<< h >> \o b, r) /\ Range(<< h >> \o b) = Range(b) \cup {h}
  BY Lengthened DEF Ordered
<1>2. \A i \in DOMAIN a : \A x \in Range(<< h >> \o b) : Before(a[i], x, r)
  BY <1>1 DEF Ordered, Below, Range
<1>3. Below(a, << h >> \o b, r)
  BY <1>2 DEF Below, Range
<1> QED
  BY <1>1, <1>3 DEF Ordered

LEMMA OrderRepeated ==
  ASSUME NEW a \in Seq(Nat), NEW b \in Seq(Nat), NEW h \in Nat \ {0}, NEW r, Ordered(a, h, b, r)
  PROVE  Ordered(Append(a, h), 0, << h >> \o b, r \cup {h})
<1> DEFINE q == r \cup {h}
<1>0. Before(h, h, q) /\ \A m, n : Before(m, n, r) => Before(m, n, q)
  BY DEF Before
<1> HIDE DEF q
<1>1. Ordered(a, h, b, q)
  BY <1>0 DEF Ordered, Increasing, Below
<1>2. Ordered(Append(a, h), 0, b, q) /\ Ordered(a, 0, << h >> \o b, q)
  BY <1>1, OrderApplied, OrderReturned
<1>3. \A i \in DOMAIN Append(a, h) : (i \in DOMAIN a /\ Append(a, h)[i] = a[i]) \/ Append(a, h)[i] = h
  BY AppendProperties
<1>4. Range(<< h >> \o b) = Range(b) \cup {h}
  BY Lengthened
<1>5. \A i \in DOMAIN Append(a, h) : \A x \in Range(<< h >> \o b) : Before(Append(a, h)[i], x, q)
  BY <1>0, <1>1, <1>3, <1>4 DEF Ordered, Below, Range
<1>6. Below(Append(a, h), << h >> \o b, q)
  BY <1>5 DEF Below, Range
<1> QED
  BY <1>2, <1>6 DEF Ordered, q

LEMMA OrderPushed ==
  ASSUME NEW a \in Seq(Nat), NEW b \in Seq(Nat), NEW h \in Nat, NEW r, NEW n \in Nat, Ordered(a, h, b, r),
         \A x \in Range(a) \cup Range(b) \cup {h} : x < n
  PROVE  Ordered(a, h, Append(b, n), r)
<1>0. (\A i \in DOMAIN a : Before(a[i], n, r)) /\ (\A j \in DOMAIN b : Before(b[j], n, r)) /\ Before(h, n, r)
  BY DEF Range, Before
<1>1. Increasing(Append(b, n), r)
  BY <1>0, Lengthened DEF Ordered
<1>2. \A j \in DOMAIN Append(b, n) : (j \in DOMAIN b /\ Append(b, n)[j] = b[j]) \/ Append(b, n)[j] = n
  BY AppendProperties
<1>3. Below(a, Append(b, n), r)
  BY <1>0, <1>2 DEF Ordered, Below
<1>4. h # 0 => \A j \in DOMAIN Append(b, n) : Before(h, Append(b, n)[j], r)
  BY <1>0, <1>2 DEF Ordered
<1> QED
  BY <1>1, <1>3, <1>4 DEF Ordered

\* Nothing pushed is lost, whoever replays; unless two processes did so at once, at
\* most one mutation is in hand and all are in line.
Hands == { hand, otherHand } \ {0}
KeptInv == Range(applied) \cup Range(buffer) \cup Hands \cup dropped = 1..pushed
LineInv ==
  ~twoReplays => (hand = 0 \/ otherHand = 0) /\ Ordered(applied, Fo!InHand, buffer, repeated)
ListInv ==
  /\ pushed \in Nat /\ hand \in Nat /\ otherHand \in Nat /\ applied \in Seq(Nat) /\ buffer \in Seq(Nat)
  /\ KeptInv /\ LineInv

\* A mutation is replayed only while the API is read-only.
FailoverInv ==
  /\ ListInv
  /\ hand # 0 => replaying
  /\ replaying => mode # "HEALTHY"
  /\ mode = "HEALTHY" => Range(buffer) \subseteq lateMutations

LEMMA FailoverFirst == Init => FailoverInv
<1> SUFFICES ASSUME Fo!FailoverInit PROVE FailoverInv
  BY DEF Init
<1> USE DEF Fo!FailoverInit
<1>1. KeptInv
  BY DEF KeptInv, Hands, Range
<1>2. LineInv
  BY DEF LineInv, Fo!InHand, Ordered, Increasing, Below
<1> QED
  BY <1>1, <1>2 DEF FailoverInv, ListInv, Range

\* A handler that returns, or is missing, takes the mutation out of the hand,
LEMMA HandledMoves ==
  ASSUME applied \in Seq(Nat), buffer \in Seq(Nat), NEW m \in Nat \ {0}, Fo!Handled(m)
  PROVE  /\ applied' \in Seq(Nat) /\ Range(applied') \cup dropped' = Range(applied) \cup dropped \cup {m}
         /\ Ordered(applied, m, buffer, repeated) => Ordered(applied', 0, buffer, repeated)
<1>1. CASE dropped' = dropped \cup {m} /\ UNCHANGED applied
  BY <1>1 DEF Ordered
<1>2. CASE applied' = Append(applied, m) /\ UNCHANGED dropped
  <2>1. applied' \in Seq(Nat) /\ Range(applied') = Range(applied) \cup {m}
    BY <1>2, Lengthened
  <2>2. Ordered(applied, m, buffer, repeated) => Ordered(applied', 0, buffer, repeated)
    BY <1>2, OrderApplied
  <2> QED
    BY <1>2, <2>1, <2>2
<1> QED
  BY <1>1, <1>2 DEF Fo!Handled

\* and one that throws puts it back to the head of the list.
LEMMA ThrownMoves ==
  ASSUME applied \in Seq(Nat), buffer \in Seq(Nat), NEW m \in Nat \ {0}, Fo!Thrown(m)
  PROVE  /\ applied' \in Seq(Nat) /\ buffer' \in Seq(Nat) /\ Range(buffer') = Range(buffer) \cup {m}
         /\ Range(applied') \cup Range(buffer') = Range(applied) \cup Range(buffer) \cup {m}
         /\ Ordered(applied, m, buffer, repeated) => Ordered(applied', 0, buffer', repeated')
<1>0. buffer' = << m >> \o buffer
  BY DEF Fo!Thrown
<1>1. buffer' \in Seq(Nat) /\ Range(buffer') = Range(buffer) \cup {m}
  BY <1>0, Lengthened
<1>2. CASE UNCHANGED << applied, repeated >>
  <2>1. Ordered(applied, m, buffer, repeated) => Ordered(applied', 0, buffer', repeated')
    BY <1>0, <1>2, OrderReturned
  <2> QED
    BY <1>1, <1>2, <2>1
<1>3. CASE applied' = Append(applied, m) /\ repeated' = repeated \cup {m}
  <2>1. applied' \in Seq(Nat) /\ Range(applied') = Range(applied) \cup {m}
    BY <1>3, Lengthened
  <2>2. Ordered(applied, m, buffer, repeated) => Ordered(applied', 0, buffer', repeated')
    BY <1>0, <1>3, OrderRepeated
  <2> QED
    BY <1>1, <2>1, <2>2
<1> QED
  BY <1>2, <1>3 DEF Fo!Thrown

\* Taking the first of the list, by this process or another.
LEMMA TakenMoves ==
  ASSUME ListInv, buffer # << >>, buffer' = Tail(buffer)
  PROVE  /\ Head(buffer) \in Nat \ {0} /\ buffer' \in Seq(Nat) /\ Range(buffer) = Range(buffer') \cup {Head(buffer)}
         /\ Ordered(applied, 0, buffer, repeated) => Ordered(applied, Head(buffer), buffer', repeated)
<1>0. applied \in Seq(Nat) /\ buffer \in Seq(Nat) /\ pushed \in Nat /\ KeptInv
  BY DEF ListInv
<1>1. Head(buffer) \in Nat /\ buffer' \in Seq(Nat) /\ Range(buffer) = Range(buffer') \cup {Head(buffer)}
  BY <1>0, Shortened
<1>2. Head(buffer) # 0
  BY <1>0, <1>1 DEF KeptInv
<1>3. Ordered(applied, 0, buffer, repeated) => Ordered(applied, Head(buffer), buffer', repeated)
  BY <1>0, OrderTaken
<1> QED
  BY <1>1, <1>2, <1>3

\* A mutation more at the end of the list, by this process or another.
LEMMA PushedMoves ==
  ASSUME ListInv, pushed' = pushed + 1, buffer' = Append(buffer, pushed + 1),
         UNCHANGED << hand, applied, dropped, otherHand, twoReplays, repeated >>
  PROVE  ListInv' /\ Range(buffer') = Range(buffer) \cup {pushed + 1}
<1>0. /\ applied \in Seq(Nat) /\ buffer \in Seq(Nat) /\ pushed \in Nat /\ hand \in Nat /\ otherHand \in Nat
      /\ KeptInv /\ LineInv
  BY DEF ListInv
<1>1. pushed + 1 \in Nat /\ buffer' \in Seq(Nat) /\ Range(buffer') = Range(buffer) \cup {pushed + 1}
  <2>1. pushed + 1 \in Nat
    BY <1>0
  <2> QED
    BY <1>0, <2>1, Lengthened
<1>2. KeptInv'
  <2>1. 1..pushed' = (1..pushed) \cup {pushed + 1}
    BY <1>0
  <2> QED
    BY <1>0, <1>1, <2>1 DEF KeptInv, Hands
<1>3. LineInv'
  <2> SUFFICES ASSUME ~twoReplays PROVE (hand = 0 \/ otherHand = 0) /\ Ordered(applied, Fo!InHand, buffer', repeated)
    BY DEF LineInv, Fo!InHand
  <2>1. \A x \in Range(applied) \cup Range(buffer) \cup {Fo!InHand} : x < pushed + 1
    BY <1>0 DEF KeptInv, Hands, Fo!InHand
  <2>2. Fo!InHand \in Nat
    BY <1>0 DEF Fo!InHand
  <2>3. (hand = 0 \/ otherHand = 0) /\ Ordered(applied, Fo!InHand, buffer, repeated)
    BY <1>0 DEF LineInv
  <2>4. Ordered(applied, Fo!InHand, Append(buffer, pushed + 1), repeated)
    BY <1>0, <1>1, <2>1, <2>2, <2>3, OrderPushed
  <2> QED
    BY <2>3, <2>4
<1> QED
  BY <1>0, <1>1, <1>2, <1>3 DEF ListInv

\* Dropping what this process has in hand, if anything, from the line.
LEMMA LetGoMoves ==
  ASSUME ListInv, hand' = 0, dropped' = (IF hand = 0 THEN dropped ELSE dropped \cup {hand}),
         UNCHANGED << buffer, applied, pushed, otherHand, twoReplays, repeated >>
  PROVE  ListInv'
<1>1. KeptInv'
  BY DEF ListInv, KeptInv, Hands
<1>2. LineInv'
  <2> SUFFICES ASSUME ~twoReplays PROVE Ordered(applied, otherHand, buffer, repeated)
    BY DEF LineInv, Fo!InHand
  <2>1. (hand = 0 \/ otherHand = 0) /\ Ordered(applied, Fo!InHand, buffer, repeated)
    BY DEF ListInv, LineInv
  <2>2. CASE hand = 0
    BY <2>1, <2>2 DEF Fo!InHand
  <2>3. CASE hand # 0
    BY <2>1, <2>3 DEF Ordered
  <2> QED
    BY <2>2, <2>3
<1> QED
  BY <1>1, <1>2 DEF ListInv

LEMMA FailoverStep == FailoverInv /\ [Next]_vars => FailoverInv'
<1> SUFFICES ASSUME FailoverInv, [Next]_vars PROVE FailoverInv'
  OBVIOUS
<1> USE DEF Fo!dbVars, Fo!controlVars, Fo!lagVars, Fo!replayVars, Fo!otherVars, Fo!pushVars
<1>0. /\ pushed \in Nat /\ hand \in Nat /\ otherHand \in Nat /\ applied \in Seq(Nat) /\ buffer \in Seq(Nat)
      /\ ListInv /\ KeptInv /\ LineInv
  BY DEF FailoverInv, ListInv
<1>a. ASSUME UNCHANGED << buffer, hand, applied, dropped, pushed, otherHand, twoReplays, repeated >> PROVE ListInv'
  BY <1>0, <1>a DEF ListInv, KeptInv, Hands, LineInv, Fo!InHand
<1>1. CASE UNCHANGED failoverState
  BY <1>1, <1>a DEF FailoverInv, failoverState
<1>2. CASE Fo!DatabasesMove \/ Fo!CheckLag \/ Fo!BufferMutation
  BY <1>2, <1>a DEF FailoverInv, Fo!DatabasesMove, Fo!CheckLag, Fo!BufferMutation
<1>3. CASE Fo!CheckPrimary
  <2>1. /\ UNCHANGED << buffer, hand, applied, dropped, pushed, otherHand, twoReplays, repeated, lateMutations >>
        /\ mode' = mode \/ mode' # "HEALTHY"
    BY <1>3 DEF Fo!CheckPrimary, Fo!ProbeFailed
  <2>2. (replaying => replaying') /\ (replaying' => replaying \/ mode # "HEALTHY")
    <3> DEFINE begins == mode # "HEALTHY" /\ successes + 1 >= RecoveryThreshold
    <3>1. replaying' = (replaying \/ begins) \/ replaying' = replaying
      BY <1>3 DEF Fo!CheckPrimary
    <3>2. begins => mode # "HEALTHY"
      OBVIOUS
    <3> HIDE DEF begins
    <3>3. CASE replaying' = replaying
      BY <3>3
    <3>4. CASE replaying' = (replaying \/ begins)
      BY <3>2, <3>4, Zenon
    <3> QED
      BY <3>1, <3>3, <3>4
  <2> QED
    BY <1>a, <2>1, <2>2 DEF FailoverInv
<1>4. CASE Fo!Shift
  <2> USE <1>4 DEF Fo!Shift
  <2>1. CASE buffer = << >>
    BY <1>a, <2>1 DEF FailoverInv, Range
  <2>2. CASE buffer # << >>
    <3>0. /\ hand = 0 /\ hand' = Head(buffer) /\ buffer' = Tail(buffer) /\ twoReplays' = (twoReplays \/ otherHand # 0)
          /\ UNCHANGED << replaying, mode, applied, dropped, pushed, otherHand, repeated, lateMutations >>
      BY <2>2
    <3>1. /\ hand' \in Nat \ {0} /\ buffer' \in Seq(Nat) /\ Range(buffer) = Range(buffer') \cup {hand'}
          /\ Ordered(applied, 0, buffer, repeated) => Ordered(applied, hand', buffer', repeated)
      BY <1>0, <2>2, <3>0, TakenMoves
    <3>2. KeptInv'
      BY <1>0, <3>0, <3>1 DEF KeptInv, Hands
    <3>3. LineInv'
      <4> SUFFICES ASSUME ~twoReplays' PROVE otherHand = 0 /\ Ordered(applied, hand', buffer', repeated)
        BY <3>0, <3>1 DEF LineInv, Fo!InHand
      <4>1. ~twoReplays /\ otherHand = 0
        BY <3>0, Zenon
      <4>2. Ordered(applied, 0, buffer, repeated)
        BY <1>0, <3>0, <4>1 DEF LineInv, Fo!InHand
      <4> QED
        BY <3>1, <4>1, <4>2
    <3>4. replaying /\ mode # "HEALTHY"
      BY DEF FailoverInv
    <3> QED
      BY <1>0, <3>0, <3>1, <3>2, <3>3, <3>4 DEF FailoverInv, ListInv
  <2> QED
    BY <2>1, <2>2
<1>5. CASE Fo!Apply
  <2>0. hand # 0 /\ hand' = 0 /\ Fo!Handled(hand) /\ UNCHANGED << buffer, pushed, replaying, mode, lateMutations, otherHand, twoReplays, repeated >>
    BY <1>5 DEF Fo!Apply
  <2>1. /\ applied' \in Seq(Nat) /\ Range(applied') \cup dropped' = Range(applied) \cup dropped \cup {hand}
        /\ Ordered(applied, hand, buffer, repeated) => Ordered(applied', 0, buffer, repeated)
    BY <1>0, <2>0, HandledMoves
  <2>2. KeptInv'
    BY <1>0, <2>0, <2>1 DEF KeptInv, Hands
  <2>3. LineInv'
    BY <1>0, <2>0, <2>1 DEF LineInv, Fo!InHand
  <2> QED
    BY <1>0, <2>0, <2>1, <2>2, <2>3 DEF FailoverInv, ListInv
<1>6. CASE Fo!PutBack
  <2>0. /\ hand # 0 /\ hand' = 0 /\ Fo!Thrown(hand) /\ replaying' = FALSE
        /\ UNCHANGED << dropped, pushed, mode, lateMutations, otherHand, twoReplays >>
    BY <1>6 DEF Fo!PutBack
  <2>1. /\ applied' \in Seq(Nat) /\ buffer' \in Seq(Nat)
        /\ Range(applied') \cup Range(buffer') = Range(applied) \cup Range(buffer) \cup {hand}
        /\ Ordered(applied, hand, buffer, repeated) => Ordered(applied', 0, buffer', repeated')
    BY <1>0, <2>0, ThrownMoves
  <2>2. KeptInv'
    BY <1>0, <2>0, <2>1 DEF KeptInv, Hands
  <2>3. LineInv'
    BY <1>0, <2>0, <2>1 DEF LineInv, Fo!InHand
  <2>4. mode # "HEALTHY"
    BY <2>0 DEF FailoverInv
  <2> QED
    BY <1>0, <2>0, <2>1, <2>2, <2>3, <2>4 DEF FailoverInv, ListInv
<1>7. CASE Fo!RedisFails
  <2>0. /\ hand' = 0 /\ dropped' = (IF hand = 0 THEN dropped ELSE dropped \cup {hand}) /\ replaying' = FALSE
        /\ UNCHANGED << buffer, applied, pushed, lateMutations, otherHand, twoReplays, repeated >>
        /\ mode' = "HEALTHY" => mode = "HEALTHY"
    BY <1>7 DEF Fo!RedisFails, Fo!ProbeFailed
  <2>1. ListInv'
    BY <1>0, <2>0, LetGoMoves
  <2> QED
    BY <2>0, <2>1 DEF FailoverInv
<1>8. CASE Fo!Push \/ Fo!OtherPushes
  <2>0. /\ pushed' = pushed + 1 /\ buffer' = Append(buffer, pushed + 1)
        /\ lateMutations' = (IF mode = "HEALTHY" THEN lateMutations \cup {pushed + 1} ELSE lateMutations)
        /\ UNCHANGED << replaying, hand, applied, dropped, mode, otherHand, twoReplays, repeated >>
    BY <1>8 DEF Fo!Push, Fo!OtherPushes, Fo!Late
  <2>1. ListInv' /\ Range(buffer') = Range(buffer) \cup {pushed + 1}
    BY <1>0, <2>0, PushedMoves
  <2>2. mode' = "HEALTHY" => Range(buffer') \subseteq lateMutations'
    BY <2>0, <2>1 DEF FailoverInv
  <2> QED
    BY <2>0, <2>1, <2>2 DEF FailoverInv
<1>9. CASE Fo!Restart
  <2>0. /\ hand' = 0 /\ dropped' = (IF hand = 0 THEN dropped ELSE dropped \cup {hand}) /\ replaying' = FALSE
        /\ lateMutations' = lateMutations \cup Fo!Range(buffer)
        /\ UNCHANGED << buffer, applied, pushed, otherHand, twoReplays, repeated >>
    BY <1>9 DEF Fo!Restart
  <2>1. ListInv'
    BY <1>0, <2>0, LetGoMoves
  <2>2. Range(buffer') \subseteq lateMutations'
    BY <2>0 DEF Fo!Range, Range
  <2> QED
    BY <2>0, <2>1, <2>2 DEF FailoverInv
<1>10. CASE Fo!OtherTakes
  <2>0. /\ otherHand = 0 /\ otherHand' = Head(buffer) /\ buffer # << >> /\ buffer' = Tail(buffer)
        /\ twoReplays' = (twoReplays \/ hand # 0)
        /\ UNCHANGED << replaying, mode, hand, applied, dropped, pushed, repeated, lateMutations >>
    BY <1>10 DEF Fo!OtherTakes
  <2>1. /\ otherHand' \in Nat \ {0} /\ buffer' \in Seq(Nat) /\ Range(buffer) = Range(buffer') \cup {otherHand'}
        /\ Ordered(applied, 0, buffer, repeated) => Ordered(applied, otherHand', buffer', repeated)
    BY <1>0, <2>0, TakenMoves
  <2>2. KeptInv'
    BY <1>0, <2>0, <2>1 DEF KeptInv, Hands
  <2>3. LineInv'
    <3> SUFFICES ASSUME ~twoReplays' PROVE hand = 0 /\ Ordered(applied, otherHand', buffer', repeated)
      BY <2>0, <2>1 DEF LineInv, Fo!InHand
    <3>1. ~twoReplays /\ hand = 0
      BY <2>0, Zenon
    <3>2. Ordered(applied, 0, buffer, repeated)
      BY <1>0, <2>0, <3>1 DEF LineInv, Fo!InHand
    <3> QED
      BY <2>1, <3>1, <3>2
  <2> QED
    BY <1>0, <2>0, <2>1, <2>2, <2>3 DEF FailoverInv, ListInv
<1>11. CASE Fo!OtherEnds
  <2>0. otherHand \in Nat \ {0} /\ otherHand' = 0 /\ UNCHANGED << replaying, mode, hand, pushed, twoReplays >>
    BY <1>0, <1>11 DEF Fo!OtherEnds
  <2>1. CASE Fo!Handled(otherHand) /\ UNCHANGED << buffer, repeated, lateMutations >>
    <3>1. /\ applied' \in Seq(Nat) /\ Range(applied') \cup dropped' = Range(applied) \cup dropped \cup {otherHand}
          /\ Ordered(applied, otherHand, buffer, repeated) => Ordered(applied', 0, buffer, repeated)
      BY <1>0, <2>0, <2>1, HandledMoves
    <3>2. KeptInv'
      BY <1>0, <2>0, <2>1, <3>1 DEF KeptInv, Hands
    <3>3. LineInv'
      BY <1>0, <2>0, <2>1, <3>1 DEF LineInv, Fo!InHand
    <3> QED
      BY <1>0, <2>0, <2>1, <3>1, <3>2, <3>3 DEF FailoverInv, ListInv
  <2>2. CASE Fo!Thrown(otherHand) /\ Fo!Late(otherHand) /\ UNCHANGED dropped
    <3>1. /\ applied' \in Seq(Nat) /\ buffer' \in Seq(Nat) /\ Range(buffer') = Range(buffer) \cup {otherHand}
          /\ Range(applied') \cup Range(buffer') = Range(applied) \cup Range(buffer) \cup {otherHand}
          /\ Ordered(applied, otherHand, buffer, repeated) => Ordered(applied', 0, buffer', repeated')
      BY <1>0, <2>0, <2>2, ThrownMoves
    <3>2. KeptInv'
      BY <1>0, <2>0, <2>2, <3>1 DEF KeptInv, Hands
    <3>3. LineInv'
      BY <1>0, <2>0, <2>2, <3>1 DEF LineInv, Fo!InHand
    <3>4. mode' = "HEALTHY" => Range(buffer') \subseteq lateMutations'
      BY <2>0, <2>2, <3>1 DEF FailoverInv, Fo!Late
    <3> QED
      BY <1>0, <2>0, <2>2, <3>1, <3>2, <3>3, <3>4 DEF FailoverInv, ListInv
  <2>3. CASE dropped' = dropped \cup {otherHand} /\ UNCHANGED << applied, buffer, repeated, lateMutations >>
    <3>1. KeptInv'
      BY <1>0, <2>0, <2>3 DEF KeptInv, Hands
    <3>2. LineInv'
      BY <1>0, <2>0, <2>3 DEF LineInv, Fo!InHand, Ordered
    <3> QED
      BY <1>0, <2>0, <2>3, <3>1, <3>2 DEF FailoverInv, ListInv
  <2> QED
    BY <1>11, <2>1, <2>2, <2>3 DEF Fo!OtherEnds
<1> QED
  BY <1>1, <1>2, <1>3, <1>4, <1>5, <1>6, <1>7, <1>8, <1>9, <1>10, <1>11, FailoverMoves DEF Fo!FailoverNext, Fo!Recover

\* The mutations on the shared list are applied in their order, unless two processes
\* replay it at once; none disappears but those a dying replay had in hand; and writes
\* are accepted again only over an empty list, or one that was left to a restarted
\* process or filled too late (DbFailoverController.replayBuffered).
THEOREM FailoverIsSafe == Spec => []FailoverSafe
<1>0. \A s : Fo!Range(s) = Range(s)
  BY DEF Fo!Range, Range
<1>1. FailoverInv => Fo!HealthyDrained /\ Fo!NoMutationLost
  BY <1>0 DEF FailoverInv, ListInv, KeptInv, Hands, Fo!HealthyDrained, Fo!NoMutationLost
<1>2. FailoverInv => Fo!ReplayedInOrder
  <2> SUFFICES ASSUME FailoverInv, ~twoReplays PROVE Fo!ReplayedInOrder
    BY DEF Fo!ReplayedInOrder
  <2>0. /\ Fo!InHand \in Nat /\ applied \in Seq(Nat) /\ buffer \in Seq(Nat)
        /\ Ordered(applied, Fo!InHand, buffer, repeated)
    BY DEF FailoverInv, ListInv, LineInv, Fo!InHand
  <2> DEFINE h == IF Fo!InHand = 0 THEN << >> ELSE << Fo!InHand >>
             front == applied \o h
  <2>1. front \in Seq(Nat) /\ Increasing(front, repeated) /\ Below(front, buffer, repeated)
    <3>1. CASE Fo!InHand = 0
      <4>1. front = applied
        BY <2>0, <3>1, ConcatEmptySeq
      <4> QED
        BY <2>0, <4>1 DEF Ordered
    <3>2. CASE Fo!InHand # 0
      <4>1. front = Append(applied, Fo!InHand)
        BY <2>0, <3>2, AppendIsConcat
      <4>2. Ordered(Append(applied, Fo!InHand), 0, buffer, repeated) /\ Append(applied, Fo!InHand) \in Seq(Nat)
        BY <2>0, <3>2, OrderApplied
      <4> QED
        BY <4>1, <4>2 DEF Ordered
    <3> QED
      BY <3>1, <3>2
  <2> HIDE DEF front
  <2>2. Increasing(front \o buffer, repeated)
    BY <2>0, <2>1, Joined DEF Ordered
  <2>3. \A m, n : Before(m, n, repeated) = Fo!Precedes(m, n)
    BY DEF Before, Fo!Precedes
  <2> QED
    BY <2>2, <2>3 DEF Fo!ReplayedInOrder, Increasing, front
<1> QED
  BY <1>1, <1>2, FailoverFirst, FailoverStep, PTL DEF Spec, FailoverSafe
=============================================================================
