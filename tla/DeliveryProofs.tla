--------------------------- MODULE DeliveryProofs ---------------------------
(***************************************************************************)
(* Proofs about Delivery, for every set of jobs, every retry bound and, as *)
(* each theorem says, every set of faults.                                 *)
(***************************************************************************)
EXTENDS Delivery, SequenceTheorems, TLAPS

\* A dispatch has an attempt row: recordDeliveryAttempt returned its id.
RowOK == \A j \in Jobs : pc[j] \in { "dispatch", "mark1" } => row[j] \in 1..Len(attempts)

Typed == TypeOK /\ RowOK

\* Marking a row delivered keeps the number and the type of the rows.
LEMMA MarkRow ==
  ASSUME NEW s \in Seq({ "pending", "delivered" }), NEW r \in 1..Len(s)
  PROVE  /\ [s EXCEPT ![r] = "delivered"] \in Seq({ "pending", "delivered" })
         /\ Len([s EXCEPT ![r] = "delivered"]) = Len(s)
         /\ \A a \in 1..Len(s) :
              [s EXCEPT ![r] = "delivered"][a] = IF a = r THEN "delivered" ELSE s[a]
<1> "delivered" \in { "pending", "delivered" }
  OBVIOUS
<1> QED
  BY ExceptSeq

\* The initial database and idle jobs have their types.
LEMMA TypedInit == Init => Typed
<1> USE ConstantsOK
<1> SUFFICES ASSUME Init PROVE Typed
  OBVIOUS
<1>1. TypeOK
  <2>1. << >> \in Seq({ "pending", "delivered" }) /\ Len(<< >>) = 0
    OBVIOUS
  <2>2. delivery \in DeliveryStatus /\ gate \in {NoGate} \cup (Jobs \X Nat)
    BY DEF Init, DeliveryStatus
  <2>3. pc \in [Jobs -> PC] /\ outcome \in [Jobs -> Outcome]
    BY DEF Init, PC, Outcome
  <2>4. lapsed \subseteq Jobs /\ stranded \in BOOLEAN /\ sent = {} /\ waived = {}
    BY DEF Init
  <2>5. /\ runs \in [Jobs -> 0..MaxRuns] /\ tries \in [Jobs -> 0..GateRetry]
        /\ seen \in [Jobs -> 0..0] /\ row \in [Jobs -> 0..0]
    BY DEF Init
  <2>6. attempts = << >>
    BY DEF Init
  <2> QED
    BY <2>1, <2>2, <2>3, <2>4, <2>5, <2>6 DEF TypeOK
<1> QED
  BY <1>1 DEF Init, Typed, RowOK

\* Every step of the protocol keeps the types, under every fault.
LEMMA TypedStep == Typed /\ [Next]_vars => Typed'
<1> SUFFICES ASSUME Typed, [Next]_vars PROVE Typed'
  OBVIOUS
<1> USE ConstantsOK DEF Typed, TypeOK, RowOK, db, local, history, Goto, Return
<1>1. ASSUME NEW j \in Jobs, Start(j) PROVE Typed'
  BY <1>1 DEF Start, PC, Checking
<1>2. ASSUME NEW j \in Jobs, PreCheckDelivery(j) \/ PreCheckAttempts(j) PROVE Typed'
  <2>1. pc' \in [Jobs -> PC] /\ outcome' \in [Jobs -> Outcome]
    BY <1>2 DEF PreCheckDelivery, PreCheckAttempts, PC, Checking, Outcome, Completed
  <2> QED
    BY <1>2, <2>1 DEF PreCheckDelivery, PreCheckAttempts
<1>3. ASSUME NEW j \in Jobs, Acquire(j) \/ AcquireFailsOpen(j) PROVE Typed'
  <2>1. pc' \in [Jobs -> PC] /\ outcome' \in [Jobs -> Outcome]
    BY <1>3 DEF Acquire, AcquireFailsOpen, PC, Critical, Outcome, Completed
  <2>2. gate' \in {NoGate} \cup (Jobs \X Nat)
    <3>1. runs[j] \in Nat
      OBVIOUS
    <3>2. token(j) \in Jobs \X Nat
      BY <3>1 DEF token
    <3> QED
      BY <1>3, <3>2 DEF Acquire, AcquireFailsOpen
  <2> QED
    BY <1>3, <2>1, <2>2 DEF Acquire, AcquireFailsOpen
<1>4. ASSUME NEW j \in Jobs, AcquireContended(j) PROVE Typed'
  <2>1. pc' \in [Jobs -> PC] /\ outcome' \in [Jobs -> Outcome]
    BY <1>4 DEF AcquireContended, PC, Contended, Outcome, Completed
  <2>2. tries' \in [Jobs -> 0..GateRetry]
    <3>1. tries[j] \in 0..GateRetry
      OBVIOUS
    <3>2. tries[j] < GateRetry => tries[j] + 1 \in 0..GateRetry
      BY <3>1
    <3> QED
      BY <1>4, <3>2 DEF AcquireContended
  <2> QED
    BY <1>4, <2>1, <2>2 DEF AcquireContended
<1>5. ASSUME NEW j \in Jobs, ContendedReadDelivery(j) \/ ContendedReadAttempts(j) PROVE Typed'
  <2>1. pc' \in [Jobs -> PC] /\ outcome' \in [Jobs -> Outcome]
    BY <1>5 DEF ContendedReadDelivery, ContendedReadAttempts, PC, Contended, Outcome, Completed
  <2> QED
    BY <1>5, <2>1 DEF ContendedReadDelivery, ContendedReadAttempts
<1>6. ASSUME NEW j \in Jobs, GatedReadDelivery(j) \/ GatedReadAttempts(j) \/ RecordCheckTerminal(j) PROVE Typed'
  <2>1. pc' \in [Jobs -> PC] /\ outcome' \in [Jobs -> Outcome]
    BY <1>6 DEF GatedReadDelivery, GatedReadAttempts, RecordCheckTerminal, PC, Critical, Committed, Recording, Releasing, Outcome, Completed
  <2> QED
    BY <1>6, <2>1 DEF GatedReadDelivery, GatedReadAttempts, RecordCheckTerminal
<1>7. ASSUME NEW j \in Jobs, RecordCount(j) PROVE Typed'
  <2>1. pc' \in [Jobs -> PC] /\ outcome' \in [Jobs -> Outcome]
    BY <1>7 DEF RecordCount, PC, Critical, Committed, Recording, Releasing, Outcome, Completed
  <2>2. Len(attempts) \in 0..Len(attempts)
    OBVIOUS
  <2>3. seen' \in [Jobs -> 0..Len(attempts)]
    BY <1>7, <2>2 DEF RecordCount
  <2> QED
    BY <1>7, <2>1, <2>3 DEF RecordCount
<1>8. ASSUME NEW j \in Jobs, RecordInProgress(j) PROVE Typed'
  <2>1. pc' \in [Jobs -> PC] /\ outcome' \in [Jobs -> Outcome]
    BY <1>8 DEF RecordInProgress, PC, Critical, Committed, Recording, Outcome, Completed
  <2>2. delivery' \in DeliveryStatus
    BY <1>8 DEF RecordInProgress, DeliveryStatus
  <2> QED
    BY <1>8, <2>1, <2>2 DEF RecordInProgress
<1>9. ASSUME NEW j \in Jobs, RecordCreate(j) PROVE Typed'
  <2>1. pc' \in [Jobs -> PC] /\ outcome' \in [Jobs -> Outcome]
    BY <1>9 DEF RecordCreate, PC, Critical, Committed, Releasing, Outcome, Completed
  <2>2. CASE UNCHANGED << attempts, row >>
    BY <1>9, <2>1, <2>2 DEF RecordCreate
  <2>3. CASE /\ attempts' = Append(attempts, "pending")
             /\ seen[j] = Len(attempts)
             /\ row' = [row EXCEPT ![j] = seen[j] + 1]
    <3>1. /\ attempts' \in Seq({ "pending", "delivered" })
          /\ Len(attempts') = Len(attempts) + 1
      BY <2>3
    <3>2. /\ 0..Len(attempts) \subseteq 0..Len(attempts')
          /\ 1..Len(attempts) \subseteq 1..Len(attempts')
          /\ seen[j] + 1 \in 1..Len(attempts')
          /\ seen[j] + 1 \in 0..Len(attempts')
      BY <2>3, <3>1
    <3>3. row' \in [Jobs -> 0..Len(attempts')] /\ seen' \in [Jobs -> 0..Len(attempts')]
      BY <1>9, <2>3, <3>2 DEF RecordCreate
    <3>4. RowOK'
      BY <1>9, <2>3, <3>2 DEF RecordCreate
    <3> QED
      BY <1>9, <2>1, <3>1, <3>2, <3>3, <3>4 DEF RecordCreate
  <2> QED
    BY <1>9, <2>2, <2>3 DEF RecordCreate
<1>10. ASSUME NEW j \in Jobs, Dispatch(j) PROVE Typed'
  <2>1. pc' \in [Jobs -> PC] /\ outcome' \in [Jobs -> Outcome]
    BY <1>10 DEF Dispatch, PC, Critical, Committed, Releasing, Outcome, Completed
  <2>2. row[j] \in 1..Len(attempts)
    BY <1>10 DEF Dispatch
  <2> QED
    BY <1>10, <2>1, <2>2 DEF Dispatch
<1>11. ASSUME NEW j \in Jobs, MarkAttempt(j) PROVE Typed'
  <2>1. pc' \in [Jobs -> PC] /\ outcome' \in [Jobs -> Outcome]
    BY <1>11 DEF MarkAttempt, PC, Critical, Committed, Releasing, Outcome, Completed
  <2>2. /\ attempts' \in Seq({ "pending", "delivered" })
        /\ Len(attempts') = Len(attempts)
    <3>1. row[j] \in 1..Len(attempts)
      BY <1>11 DEF MarkAttempt
    <3>2. attempts' = attempts \/ attempts' = [attempts EXCEPT ![row[j]] = "delivered"]
      BY <1>11 DEF MarkAttempt
    <3>3. attempts \in Seq({ "pending", "delivered" })
      OBVIOUS
    <3> HIDE DEF Typed, TypeOK, RowOK
    <3> QED
      BY <3>1, <3>2, <3>3, MarkRow
  <2> QED
    BY <1>11, <2>1, <2>2 DEF MarkAttempt
<1>12. ASSUME NEW j \in Jobs, MarkDelivery(j) PROVE Typed'
  <2>1. pc' \in [Jobs -> PC] /\ outcome' \in [Jobs -> Outcome]
    BY <1>12 DEF MarkDelivery, PC, Critical, Committed, Releasing, Outcome, Completed
  <2>2. delivery' \in DeliveryStatus
    BY <1>12 DEF MarkDelivery, DeliveryStatus, TERMINAL_DELIVERY_STATES
  <2> QED
    BY <1>12, <2>1, <2>2 DEF MarkDelivery
<1>13. ASSUME NEW j \in Jobs, Release(j) PROVE Typed'
  <2>1. pc' \in [Jobs -> PC] /\ outcome' \in [Jobs -> Outcome]
    BY <1>13 DEF Release, PC, Releasing, Settled, Outcome, Completed
  <2>2. gate' \in {NoGate} \cup (Jobs \X Nat)
    BY <1>13 DEF Release
  <2> QED
    BY <1>13, <2>1, <2>2 DEF Release
<1>14. ASSUME NEW j \in Jobs, Crash(j) PROVE Typed'
  <2>1. pc' \in [Jobs -> PC] /\ outcome' \in [Jobs -> Outcome]
    BY <1>14 DEF Crash, PC, Checking, Outcome, Completed
  <2> QED
    BY <1>14, <2>1 DEF Crash
<1>15. CASE GateExpire
  BY <1>15 DEF GateExpire
<1>16. CASE UNCHANGED vars
  BY <1>16 DEF vars
<1> QED
  BY <1>1, <1>2, <1>3, <1>4, <1>5, <1>6, <1>7, <1>8, <1>9, <1>10, <1>11, <1>12, <1>13, <1>14,
     <1>15, <1>16 DEF Next, Step, Quiescent

\* Type correctness of the protocol, for every set of jobs and every fault.
THEOREM TypeCorrect == Spec => []TypeOK
<1>1. Typed => TypeOK
  BY DEF Typed
<1> QED
  BY <1>1, TypedInit, TypedStep, PTL DEF Spec

-----------------------------------------------------------------------------
(* Mutual exclusion and finality, while no gate expires under its holder   *)
(* and Redis answers; crashes, lost replies and Postgres errors allowed.   *)

SafeGate == "gateExpiry" \notin Faults /\ "redis" \notin Faults

\* Who owns the same token is the same job.
LEMMA TokenUnique == \A i, j \in Jobs : token(i) = token(j) => i = j
  BY DEF token

\* Two executions are never both between acquire and release.
LEMMA Exclusive ==
  GateOwned => \A i, j \in Jobs : pc[i] \in Critical /\ pc[j] \in Critical => i = j
  BY TokenUnique DEF GateOwned

\* No job is critical and no row exists at the start.
LEMMA GateInvInit == Init => GateInv
<1> SUFFICES ASSUME Init PROVE GateInv
  OBVIOUS
<1>1. \A j \in Jobs : pc[j] = "idle"
  BY DEF Init
<1>2. DOMAIN attempts = {} /\ ~SomeDelivered
  BY DEF Init, SomeDelivered
<1> QED
  BY <1>1, <1>2 DEF Init, GateInv, GateOwned, CommittedFresh, LogicalFollows, SingleDelivered,
     Critical, Committed, Recording, Releasing, isTerminalDeliveryStatus, TERMINAL_DELIVERY_STATES

\* A job's critical section is entered only through a free gate and left
\* only by its own release or crash.
LEMMA GateOwnedStep ==
  ASSUME SafeGate, Typed, GateOwned, [Next]_vars PROVE GateOwned'
<1> USE DEF Typed, TypeOK, GateOwned, db, local, history, Goto, Return, token, Critical, Committed,
      Recording, Releasing
<1>1. ASSUME NEW j \in Jobs, Start(j) PROVE GateOwned'
  BY <1>1 DEF Start
<1>2. ASSUME NEW j \in Jobs, \/ PreCheckDelivery(j) \/ PreCheckAttempts(j)
                             \/ AcquireContended(j) \/ ContendedReadDelivery(j)
                             \/ ContendedReadAttempts(j)
      PROVE GateOwned'
  BY <1>2 DEF PreCheckDelivery, PreCheckAttempts, AcquireContended, ContendedReadDelivery,
     ContendedReadAttempts
<1>3. ASSUME NEW j \in Jobs, Acquire(j) PROVE GateOwned'
  <2>1. gate = NoGate
    BY <1>3 DEF Acquire
  <2>2. \A i \in Jobs : pc[i] \notin Critical
    BY <2>1 DEF NoGate
  <2> QED
    BY <1>3, <2>2 DEF Acquire
<1>4. ASSUME NEW j \in Jobs, AcquireFailsOpen(j) PROVE FALSE
  BY <1>4 DEF AcquireFailsOpen, SafeGate
<1>5. ASSUME NEW j \in Jobs, GatedReadDelivery(j) \/ GatedReadAttempts(j) PROVE GateOwned'
  BY <1>5 DEF GatedReadDelivery, GatedReadAttempts
<1>6. ASSUME NEW j \in Jobs, RecordCheckTerminal(j) \/ RecordCount(j) \/ RecordInProgress(j)
      PROVE GateOwned'
  BY <1>6 DEF RecordCheckTerminal, RecordCount, RecordInProgress
<1>7. ASSUME NEW j \in Jobs, RecordCreate(j) PROVE GateOwned'
  BY <1>7 DEF RecordCreate
<1>8. ASSUME NEW j \in Jobs, Dispatch(j) PROVE GateOwned'
  BY <1>8 DEF Dispatch
<1>9. ASSUME NEW j \in Jobs, MarkAttempt(j) \/ MarkDelivery(j) PROVE GateOwned'
  BY <1>9 DEF MarkAttempt, MarkDelivery
<1>10. ASSUME NEW j \in Jobs, Release(j) PROVE GateOwned'
  <2>1. \A i \in Jobs : pc[i] \in Critical => i = j
    BY <1>10, Exclusive DEF Release
  <2> QED
    BY <1>10, <2>1 DEF Release
<1>11. ASSUME NEW j \in Jobs, Crash(j) PROVE GateOwned'
  BY <1>11 DEF Crash
<1>12. CASE GateExpire
  <2>1. \A i \in Jobs : pc[i] \notin Critical
    BY <1>12 DEF GateExpire, GateLive, SafeGate
  <2> QED
    BY <1>12, <2>1 DEF GateExpire
<1>13. CASE UNCHANGED vars
  BY <1>13 DEF vars
<1> QED
  BY <1>1, <1>2, <1>3, <1>4, <1>5, <1>6, <1>7, <1>8, <1>9, <1>10, <1>11, <1>12, <1>13
  DEF Next, Step, Quiescent

\* A row becomes delivered only by MarkAttempt, and no row is unmarked.
LEMMA RowsStep ==
  ASSUME Typed, [Next]_vars
  PROVE  \/ /\ UNCHANGED SomeDelivered
            /\ SingleDelivered => SingleDelivered'
            /\ \A a \in DOMAIN attempts : attempts[a] = "delivered" => attempts'[a] = "delivered"
         \/ \E j \in Jobs :
              /\ pc[j] = "mark1"
              /\ pc' = [pc EXCEPT ![j] = "mark2"] \/ pc' = [pc EXCEPT ![j] = "releaseErr"]
              /\ UNCHANGED delivery
              /\ SomeDelivered'
              /\ ~SomeDelivered => SingleDelivered'
              /\ \A a \in DOMAIN attempts : attempts[a] = "delivered" => attempts'[a] = "delivered"
<1> DEFINE Kept == /\ UNCHANGED SomeDelivered
                   /\ SingleDelivered => SingleDelivered'
                   /\ \A a \in DOMAIN attempts :
                        attempts[a] = "delivered" => attempts'[a] = "delivered"
<1>1. CASE UNCHANGED attempts
  BY <1>1 DEF SomeDelivered, SingleDelivered
<1>2. CASE attempts' = Append(attempts, "pending")
  <2>1. /\ attempts \in Seq({ "pending", "delivered" })
        /\ DOMAIN attempts = 1..Len(attempts)
        /\ DOMAIN attempts' = 1..(Len(attempts) + 1)
        /\ \A a \in 1..Len(attempts) : attempts'[a] = attempts[a]
        /\ attempts'[Len(attempts) + 1] = "pending"
    BY <1>2 DEF Typed, TypeOK
  <2>2. \A a \in DOMAIN attempts' :
          attempts'[a] = "delivered" => a \in DOMAIN attempts /\ attempts[a] = "delivered"
    BY <2>1
  <2>3. \A a \in DOMAIN attempts : a \in DOMAIN attempts' /\ attempts'[a] = attempts[a]
    BY <2>1
  <2> QED
    BY <2>2, <2>3 DEF SomeDelivered, SingleDelivered
<1>3. ASSUME NEW j \in Jobs, MarkAttempt(j), attempts' = [attempts EXCEPT ![row[j]] = "delivered"]
      PROVE  /\ pc[j] = "mark1"
             /\ pc' = [pc EXCEPT ![j] = "mark2"] \/ pc' = [pc EXCEPT ![j] = "releaseErr"]
             /\ UNCHANGED delivery
             /\ SomeDelivered'
             /\ ~SomeDelivered => SingleDelivered'
             /\ \A a \in DOMAIN attempts : attempts[a] = "delivered" => attempts'[a] = "delivered"
  <2>1. attempts \in Seq({ "pending", "delivered" }) /\ row[j] \in 1..Len(attempts)
    BY <1>3 DEF MarkAttempt, Typed, TypeOK, RowOK
  <2>2. /\ DOMAIN attempts = 1..Len(attempts)
        /\ DOMAIN attempts' = 1..Len(attempts)
        /\ \A a \in 1..Len(attempts) :
             attempts'[a] = IF a = row[j] THEN "delivered" ELSE attempts[a]
    BY <1>3, <2>1, MarkRow
  <2>3. SomeDelivered'
    BY <2>1, <2>2 DEF SomeDelivered
  <2>4. ~SomeDelivered => SingleDelivered'
    BY <2>1, <2>2 DEF SomeDelivered, SingleDelivered
  <2>5. \A a \in DOMAIN attempts : attempts[a] = "delivered" => attempts'[a] = "delivered"
    BY <2>1, <2>2
  <2> QED
    BY <1>3, <2>3, <2>4, <2>5 DEF MarkAttempt, Goto
<1>4. ASSUME NEW j \in Jobs, MarkAttempt(j)
      PROVE UNCHANGED attempts \/ attempts' = [attempts EXCEPT ![row[j]] = "delivered"]
  BY <1>4 DEF MarkAttempt
<1>5. ASSUME NEW j \in Jobs, RecordCreate(j)
      PROVE UNCHANGED attempts \/ attempts' = Append(attempts, "pending")
  BY <1>5 DEF RecordCreate
<1>6. \/ UNCHANGED attempts
      \/ \E j \in Jobs : MarkAttempt(j) \/ RecordCreate(j)
  BY DEF Next, Step, Quiescent, vars, db, local, history, Start, PreCheckDelivery, PreCheckAttempts,
     Acquire, AcquireContended, AcquireFailsOpen, ContendedReadDelivery, ContendedReadAttempts,
     GatedReadDelivery, GatedReadAttempts, RecordCheckTerminal, RecordCount, RecordInProgress,
     Dispatch, MarkDelivery, Release, GateExpire, Crash
<1> QED
  BY <1>1, <1>2, <1>3, <1>4, <1>5, <1>6

\* The logical row never runs ahead of the attempt rows, under every fault.
LEMMA LogicalStep == ASSUME Typed, LogicalFollows, [Next]_vars PROVE LogicalFollows'
<1>1. SomeDelivered => SomeDelivered'
  BY RowsStep
<1>2. ASSUME NEW j \in Jobs, MarkAttempt(j), pc'[j] = "mark2" PROVE SomeDelivered'
  <2>1. attempts' = [attempts EXCEPT ![row[j]] = "delivered"]
    BY <1>2 DEF MarkAttempt, Goto, Typed, TypeOK
  <2>2. attempts \in Seq({ "pending", "delivered" }) /\ row[j] \in 1..Len(attempts)
    BY <1>2 DEF MarkAttempt, Typed, TypeOK, RowOK
  <2> QED
    BY <2>1, <2>2 DEF SomeDelivered
<1>3. ASSUME NEW j \in Jobs, MarkAttempt(j) PROVE LogicalFollows'
  <2>1. UNCHANGED delivery /\ \A i \in Jobs : i # j => pc'[i] = pc[i]
    BY <1>3 DEF MarkAttempt, Goto, Typed, TypeOK
  <2> QED
    BY <1>1, <1>2, <1>3, <2>1 DEF LogicalFollows
<1>4. ASSUME NEW j \in Jobs, MarkDelivery(j) PROVE LogicalFollows'
  <2>1. SomeDelivered
    BY <1>4 DEF MarkDelivery, LogicalFollows
  <2> QED
    BY <1>1, <2>1 DEF LogicalFollows
<1>5. ASSUME NEW j \in Jobs, RecordInProgress(j) PROVE LogicalFollows'
  <2>1. /\ delivery' = "in_progress" \/ delivery' = delivery
        /\ \A i \in Jobs : pc'[i] = "mark2" => pc[i] = "mark2"
    BY <1>5 DEF RecordInProgress, Goto, Typed, TypeOK
  <2> QED
    BY <1>1, <2>1 DEF LogicalFollows, isTerminalDeliveryStatus, TERMINAL_DELIVERY_STATES
<1>6. ASSUME UNCHANGED delivery, \A i \in Jobs : pc'[i] = "mark2" => pc[i] = "mark2"
      PROVE LogicalFollows'
  BY <1>1, <1>6 DEF LogicalFollows
<1>7. ASSUME NEW j \in Jobs,
             \/ Start(j) \/ PreCheckDelivery(j) \/ PreCheckAttempts(j)
             \/ Acquire(j) \/ AcquireContended(j) \/ AcquireFailsOpen(j)
             \/ ContendedReadDelivery(j) \/ ContendedReadAttempts(j)
             \/ GatedReadDelivery(j) \/ GatedReadAttempts(j)
             \/ RecordCheckTerminal(j) \/ RecordCount(j) \/ RecordCreate(j)
             \/ Dispatch(j) \/ Release(j) \/ Crash(j)
      PROVE UNCHANGED delivery /\ \A i \in Jobs : pc'[i] = "mark2" => pc[i] = "mark2"
  BY <1>7 DEF Typed, TypeOK, Goto, Return, db, Start, PreCheckDelivery, PreCheckAttempts, Acquire,
     AcquireContended, AcquireFailsOpen, ContendedReadDelivery, ContendedReadAttempts,
     GatedReadDelivery, GatedReadAttempts, RecordCheckTerminal, RecordCount, RecordCreate,
     Dispatch, Release, Crash
<1>8. CASE UNCHANGED << delivery, pc >>
  BY <1>6, <1>8
<1> QED
  BY <1>3, <1>4, <1>5, <1>6, <1>7, <1>8 DEF Next, Step, Quiescent, GateExpire, vars, db

\* Every step of the gated protocol keeps GateInv.
LEMMA GateInvStep ==
  ASSUME SafeGate, Typed, GateInv, [Next]_vars PROVE GateInv'
<1>1. GateOwned'
  BY GateOwnedStep DEF GateInv
<1>2. \A j \in Jobs : pc'[j] \in Committed => pc[j] \in Committed \/ ~SomeDelivered
  <2> USE DEF Typed, TypeOK, Goto, Return, Committed, Recording
  <2>1. ASSUME NEW i \in Jobs, GatedReadAttempts(i), NEW j \in Jobs, pc'[j] \in Committed
        PROVE pc[j] \in Committed \/ ~SomeDelivered
    BY <2>1 DEF GatedReadAttempts
  <2>2. ASSUME NEW i \in Jobs, RecordCheckTerminal(i) \/ RecordCount(i) \/ RecordInProgress(i)
                               \/ RecordCreate(i) \/ Dispatch(i),
               NEW j \in Jobs, pc'[j] \in Committed
        PROVE pc[j] \in Committed
    BY <2>2 DEF RecordCheckTerminal, RecordCount, RecordInProgress, RecordCreate, Dispatch
  <2>3. ASSUME NEW i \in Jobs, Start(i) \/ PreCheckDelivery(i) \/ PreCheckAttempts(i)
                               \/ Acquire(i) \/ AcquireContended(i) \/ AcquireFailsOpen(i)
                               \/ ContendedReadDelivery(i) \/ ContendedReadAttempts(i)
                               \/ GatedReadDelivery(i) \/ MarkAttempt(i) \/ MarkDelivery(i)
                               \/ Release(i) \/ Crash(i),
               NEW j \in Jobs, pc'[j] \in Committed
        PROVE pc[j] \in Committed
    BY <2>3 DEF Start, PreCheckDelivery, PreCheckAttempts, Acquire, AcquireContended,
       AcquireFailsOpen, ContendedReadDelivery, ContendedReadAttempts, GatedReadDelivery,
       MarkAttempt, MarkDelivery, Release, Crash
  <2>4. CASE UNCHANGED pc
    BY <2>4
  <2> HIDE DEF Typed, TypeOK, Goto, Return, Committed, Recording
  <2> QED
    BY <2>1, <2>2, <2>3, <2>4 DEF Next, Step, Quiescent, GateExpire, vars
<1>3. CommittedFresh'
  <2>1. ASSUME UNCHANGED SomeDelivered PROVE CommittedFresh'
    BY <1>2, <2>1 DEF GateInv, CommittedFresh
  <2>2. ASSUME NEW j \in Jobs, pc[j] = "mark1",
               pc' = [pc EXCEPT ![j] = "mark2"] \/ pc' = [pc EXCEPT ![j] = "releaseErr"]
        PROVE CommittedFresh'
    <3>1. \A i \in Jobs : pc[i] \in Critical => i = j
      BY <2>2, Exclusive DEF GateInv, Critical, Committed
    <3>2. \A i \in Jobs : pc'[i] \notin Committed
      BY <2>2, <3>1 DEF Typed, TypeOK, Critical, Committed, Recording
    <3> QED
      BY <3>2 DEF CommittedFresh
  <2> QED
    BY <2>1, <2>2, RowsStep
<1>4. SingleDelivered'
  <2>1. ASSUME NEW j \in Jobs, pc[j] = "mark1" PROVE ~SomeDelivered
    BY <2>1 DEF GateInv, CommittedFresh, Committed
  <2> QED
    BY <2>1, RowsStep DEF GateInv
<1>5. LogicalFollows'
  BY LogicalStep DEF GateInv
<1> QED
  BY <1>1, <1>3, <1>4, <1>5 DEF GateInv

\* The inductive invariant holds in every reachable state: the critical
\* section is exclusive and a recorded success is seen by every later check.
THEOREM GateInvHolds == ASSUME SafeGate PROVE Spec => []GateInv
<1>1. Typed /\ GateInv /\ [Next]_vars => (Typed /\ GateInv)'
  BY TypedStep, GateInvStep
<1> QED
  BY <1>1, TypedInit, GateInvInit, PTL DEF Spec

\* The gate serialises the provider calls: no two executions of the key are
\* between the second check and the recorded success.
THEOREM DispatchExclusive == ASSUME SafeGate PROVE Spec => []OneDispatcher
<1>1. GateInv => OneDispatcher
  BY Exclusive DEF GateInv, OneDispatcher, Critical
<1> QED
  BY <1>1, GateInvHolds, PTL

\* A key is recorded as delivered at most once.
THEOREM DeliveredOnce == ASSUME SafeGate PROVE Spec => []SingleDelivered
<1>1. GateInv => SingleDelivered
  BY DEF GateInv
<1> QED
  BY <1>1, GateInvHolds, PTL

\* At most one accepted request is recorded or about to be.
LEMMA OneRecorded == Typed /\ GateInv => AcceptedOnce
<1> SUFFICES ASSUME GateInv, Typed PROVE AcceptedOnce
  OBVIOUS
<1>1. \A i, j \in Jobs : pc[i] = "mark1" /\ pc[j] = "mark1" => i = j
  BY Exclusive DEF GateInv, Critical, Committed
<1>2. \A j \in Jobs : pc[j] = "mark1" => ~SomeDelivered
  BY DEF GateInv, CommittedFresh, Committed
<1>3. sent \subseteq DOMAIN attempts
  BY DEF Typed, TypeOK
<1> QED
  BY <1>1, <1>2, <1>3 DEF GateInv, AcceptedOnce, Recorded, SomeDelivered, SingleDelivered

\* Of the requests the provider accepted, at most one is recorded or about
\* to be: a repetition is always of a request whose success was lost.
THEOREM AcceptedRecordedOnce == ASSUME SafeGate PROVE Spec => []AcceptedOnce
<1>1. Typed /\ GateInv /\ [Next]_vars => (Typed /\ GateInv)'
  BY TypedStep, GateInvStep
<1> QED
  BY <1>1, OneRecorded, TypedInit, GateInvInit, PTL DEF Spec

\* A terminal logical row and a delivered attempt row are never rewritten.
THEOREM TerminalFinal == ASSUME SafeGate PROVE Spec => TerminalIsFinal
<1>1. ASSUME Typed, GateInv, [Next]_vars
      PROVE [/\ delivery = "delivered" => delivery' = "delivered"
             /\ \A a \in DOMAIN attempts :
                  attempts[a] = "delivered" => attempts'[a] = "delivered"]_vars
  <2>1. \A a \in DOMAIN attempts : attempts[a] = "delivered" => attempts'[a] = "delivered"
    BY <1>1, RowsStep
  <2>2. ASSUME NEW j \in Jobs, RecordInProgress(j), delivery = "delivered" PROVE FALSE
    BY <1>1, <2>2 DEF RecordInProgress, GateInv, CommittedFresh, LogicalFollows, Committed, Recording,
       isTerminalDeliveryStatus, TERMINAL_DELIVERY_STATES
  <2>3. ASSUME NEW j \in Jobs, MarkDelivery(j), delivery = "delivered" PROVE delivery' = "delivered"
    BY <2>3 DEF MarkDelivery
  <2>4. \/ UNCHANGED delivery
        \/ \E j \in Jobs : RecordInProgress(j) \/ MarkDelivery(j)
    BY <1>1 DEF Next, Step, Quiescent, vars, db, Start, PreCheckDelivery, PreCheckAttempts,
       Acquire, AcquireContended, AcquireFailsOpen, ContendedReadDelivery, ContendedReadAttempts,
       GatedReadDelivery, GatedReadAttempts, RecordCheckTerminal, RecordCount, RecordCreate,
       Dispatch, MarkAttempt, Release, GateExpire, Crash
  <2> QED
    BY <2>1, <2>2, <2>3, <2>4
<1>2. Typed /\ GateInv /\ [Next]_vars => (Typed /\ GateInv)'
  BY TypedStep, GateInvStep
<1> QED
  BY <1>1, <1>2, TypedInit, GateInvInit, PTL DEF Spec, TerminalIsFinal

\* Once a success is recorded the provider never sees another request.
THEOREM NothingSentAfterDelivered == ASSUME SafeGate PROVE Spec => NoSendAfterDelivered
<1>1. ASSUME GateInv, [Next]_vars PROVE [SomeDelivered => sent' = sent]_vars
  <2>1. ASSUME NEW j \in Jobs, Dispatch(j) PROVE ~SomeDelivered
    BY <1>1, <2>1 DEF Dispatch, GateInv, CommittedFresh, Committed
  <2>2. UNCHANGED sent \/ \E j \in Jobs : Dispatch(j)
    BY <1>1 DEF Next, Step, Quiescent, vars, history, Start, PreCheckDelivery, PreCheckAttempts,
       Acquire, AcquireContended, AcquireFailsOpen, ContendedReadDelivery, ContendedReadAttempts,
       GatedReadDelivery, GatedReadAttempts, RecordCheckTerminal, RecordCount, RecordCreate,
       RecordInProgress, MarkAttempt, MarkDelivery, Release, GateExpire, Crash
  <2> QED
    BY <2>1, <2>2
<1> QED
  BY <1>1, GateInvHolds, PTL DEF Spec, NoSendAfterDelivered

-----------------------------------------------------------------------------
(* Two properties that need no assumption about the gate.                  *)

\* Inside the gate an execution owns it or has lapsed, whatever expires, fails
\* or crashes: the compare-and-delete keeps a late release from another's gate.
LEMMA HeldStep == ASSUME Typed, HeldOrLapsed, [Next]_vars PROVE HeldOrLapsed'
<1> USE DEF Typed, TypeOK, HeldOrLapsed, db, local, history, Goto, Return, token, Critical,
      Committed, Recording, Releasing
<1>1. ASSUME NEW j \in Jobs, Start(j) PROVE HeldOrLapsed'
  BY <1>1 DEF Start
<1>2. ASSUME NEW j \in Jobs, \/ PreCheckDelivery(j) \/ PreCheckAttempts(j)
                             \/ AcquireContended(j) \/ ContendedReadDelivery(j)
                             \/ ContendedReadAttempts(j)
      PROVE HeldOrLapsed'
  BY <1>2 DEF PreCheckDelivery, PreCheckAttempts, AcquireContended, ContendedReadDelivery,
     ContendedReadAttempts
<1>3. ASSUME NEW j \in Jobs, Acquire(j) \/ AcquireFailsOpen(j) PROVE HeldOrLapsed'
  <2>1. /\ \A i \in Jobs : i # j => pc'[i] = pc[i]
        /\ UNCHANGED runs /\ lapsed \subseteq lapsed'
        /\ (UNCHANGED gate /\ j \in lapsed') \/ (gate = NoGate /\ gate' = token(j))
    BY <1>3 DEF Acquire, AcquireFailsOpen
  <2>2. gate = NoGate => \A i \in Jobs : pc[i] \in Critical => i \in lapsed
    BY DEF NoGate
  <2> QED
    BY <2>1, <2>2
<1>4. ASSUME NEW j \in Jobs, GatedReadDelivery(j) \/ GatedReadAttempts(j) PROVE HeldOrLapsed'
  BY <1>4 DEF GatedReadDelivery, GatedReadAttempts
<1>5. ASSUME NEW j \in Jobs, RecordCheckTerminal(j) \/ RecordCount(j) \/ RecordInProgress(j)
      PROVE HeldOrLapsed'
  BY <1>5 DEF RecordCheckTerminal, RecordCount, RecordInProgress
<1>6. ASSUME NEW j \in Jobs, RecordCreate(j) PROVE HeldOrLapsed'
  BY <1>6 DEF RecordCreate
<1>7. ASSUME NEW j \in Jobs, Dispatch(j) PROVE HeldOrLapsed'
  BY <1>7 DEF Dispatch
<1>8. ASSUME NEW j \in Jobs, MarkAttempt(j) \/ MarkDelivery(j) PROVE HeldOrLapsed'
  BY <1>8 DEF MarkAttempt, MarkDelivery
<1>9. ASSUME NEW j \in Jobs, Release(j) PROVE HeldOrLapsed'
  <2>1. pc' = [pc EXCEPT ![j] = "idle"] /\ UNCHANGED << runs, lapsed >>
    BY <1>9 DEF Release
  <2>2. gate' = gate \/ gate = token(j)
    BY <1>9 DEF Release
  <2> QED
    BY <2>1, <2>2
<1>10. ASSUME NEW j \in Jobs, Crash(j) PROVE HeldOrLapsed'
  BY <1>10 DEF Crash
<1>11. CASE GateExpire
  <2>1. \A j \in Jobs : pc[j] \in Critical => j \in lapsed'
    BY <1>11 DEF GateExpire
  <2> QED
    BY <1>11, <2>1 DEF GateExpire
<1>12. CASE UNCHANGED vars
  BY <1>12 DEF vars
<1> QED
  BY <1>1, <1>2, <1>3, <1>4, <1>5, <1>6, <1>7, <1>8, <1>9, <1>10, <1>11, <1>12
  DEF Next, Step, Quiescent

\* Two executions are past the second check together only after a lapse of one
\* of them, for every set of jobs and under every fault.
THEOREM OverlapsNeedLapse == Spec => []OverlapNeedsLapse
<1>1. Init => HeldOrLapsed
  BY DEF Init, HeldOrLapsed, Critical, Committed, Recording, Releasing
<1>2. HeldOrLapsed => OverlapNeedsLapse
  BY TokenUnique DEF HeldOrLapsed, OverlapNeedsLapse, Critical
<1> QED
  BY <1>1, <1>2, HeldStep, TypedInit, TypedStep, PTL DEF Spec

\* On a channel whose dispatch throws its failures, an execution that is
\* about to record a success has had its request accepted or waived.
MarkedSent ==
  /\ DeliveredMeansSent
  /\ \A j \in Jobs : pc[j] = "mark1" => row[j] \in sent \cup waived

\* The initial database records no success.
LEMMA MarkedSentInit == Init => MarkedSent
<1> SUFFICES ASSUME Init PROVE MarkedSent
  OBVIOUS
<1>1. \A j \in Jobs : pc[j] = "idle"
  BY DEF Init
<1>2. DOMAIN attempts = {}
  BY DEF Init
<1> QED
  BY <1>1, <1>2 DEF MarkedSent, DeliveredMeansSent

\* Only an accepted dispatch leads to the recording of a success.
LEMMA MarkedSentStep ==
  ASSUME ~SwallowsErrors, Typed, MarkedSent, [Next]_vars PROVE MarkedSent'
<1> USE DEF Goto, Return, db, local, history
<1>1. sent \cup waived \subseteq sent' \cup waived'
  BY DEF history, Next, Step, Quiescent, vars, Start, PreCheckDelivery, PreCheckAttempts,
     Acquire, AcquireContended, AcquireFailsOpen, ContendedReadDelivery, ContendedReadAttempts,
     GatedReadDelivery, GatedReadAttempts, RecordCheckTerminal, RecordCount, RecordCreate,
     RecordInProgress, Dispatch, MarkAttempt, MarkDelivery, Release, GateExpire, Crash
<1>2. \A j \in Jobs : pc'[j] = "mark1" => row'[j] \in sent' \cup waived'
  <2> USE DEF Typed, TypeOK
  <2>1. ASSUME NEW i \in Jobs, Dispatch(i), NEW j \in Jobs, pc'[j] = "mark1"
        PROVE row'[j] \in sent' \cup waived'
    BY <1>1, <2>1 DEF Dispatch, MarkedSent
  <2>2. ASSUME NEW i \in Jobs, RecordCreate(i) \/ Start(i), NEW j \in Jobs, pc'[j] = "mark1"
        PROVE row'[j] \in sent' \cup waived'
    BY <1>1, <2>2 DEF RecordCreate, Start, MarkedSent
  <2>3. ASSUME NEW i \in Jobs,
               \/ PreCheckDelivery(i) \/ PreCheckAttempts(i)
               \/ Acquire(i) \/ AcquireContended(i) \/ AcquireFailsOpen(i)
               \/ ContendedReadDelivery(i) \/ ContendedReadAttempts(i)
               \/ GatedReadDelivery(i) \/ GatedReadAttempts(i)
               \/ RecordCheckTerminal(i) \/ RecordCount(i) \/ RecordInProgress(i)
               \/ MarkAttempt(i) \/ MarkDelivery(i) \/ Release(i) \/ Crash(i)
        PROVE UNCHANGED row /\ \A j \in Jobs : pc'[j] = "mark1" => pc[j] = "mark1"
    BY <2>3 DEF PreCheckDelivery, PreCheckAttempts, Acquire, AcquireContended, AcquireFailsOpen,
       ContendedReadDelivery, ContendedReadAttempts, GatedReadDelivery, GatedReadAttempts,
       RecordCheckTerminal, RecordCount, RecordInProgress, MarkAttempt, MarkDelivery, Release, Crash
  <2>4. CASE UNCHANGED << pc, row >>
    BY <1>1, <2>4 DEF MarkedSent
  <2> QED
    BY <1>1, <2>1, <2>2, <2>3, <2>4 DEF MarkedSent, Next, Step, Quiescent, GateExpire, vars
<1>3. DeliveredMeansSent'
  <2>1. ASSUME NEW j \in Jobs, MarkAttempt(j), attempts' = [attempts EXCEPT ![row[j]] = "delivered"]
        PROVE DeliveredMeansSent'
    <3>1. attempts \in Seq({ "pending", "delivered" }) /\ row[j] \in 1..Len(attempts)
      BY <2>1 DEF MarkAttempt, Typed, TypeOK, RowOK
    <3>2. DOMAIN attempts' = 1..Len(attempts) /\ DOMAIN attempts = 1..Len(attempts)
      BY <2>1, <3>1
    <3>3. \A a \in 1..Len(attempts) : attempts'[a] = "delivered" => a = row[j] \/ attempts[a] = "delivered"
      BY <2>1, <3>1, MarkRow
    <3>4. row[j] \in sent \cup waived
      BY <2>1 DEF MarkAttempt, MarkedSent
    <3> QED
      BY <1>1, <3>2, <3>3, <3>4 DEF MarkedSent, DeliveredMeansSent
  <2>2. ASSUME attempts' = Append(attempts, "pending") PROVE DeliveredMeansSent'
    <3>1. \A a \in DOMAIN attempts' :
            attempts'[a] = "delivered" => a \in DOMAIN attempts /\ attempts[a] = "delivered"
      BY <2>2 DEF Typed, TypeOK
    <3> QED
      BY <1>1, <3>1 DEF MarkedSent, DeliveredMeansSent
  <2>3. ASSUME UNCHANGED attempts PROVE DeliveredMeansSent'
    BY <1>1, <2>3 DEF MarkedSent, DeliveredMeansSent
  <2>4. \/ UNCHANGED attempts
        \/ attempts' = Append(attempts, "pending")
        \/ \E j \in Jobs : MarkAttempt(j) /\ attempts' = [attempts EXCEPT ![row[j]] = "delivered"]
    BY DEF Next, Step, Quiescent, vars, history, Start, PreCheckDelivery, PreCheckAttempts,
       Acquire, AcquireContended, AcquireFailsOpen, ContendedReadDelivery, ContendedReadAttempts,
       GatedReadDelivery, GatedReadAttempts, RecordCheckTerminal, RecordCount, RecordCreate,
       RecordInProgress, Dispatch, MarkAttempt, MarkDelivery, Release, GateExpire, Crash
  <2> QED
    BY <2>1, <2>2, <2>3, <2>4
<1> QED
  BY <1>2, <1>3 DEF MarkedSent

\* On the channels whose dispatch throws (email, push), a delivered attempt
\* was accepted by the provider or was a receipt switched off, under every fault.
THEOREM DeliveredWasSent == ASSUME ~SwallowsErrors PROVE Spec => []DeliveredMeansSent
<1>1. Typed /\ MarkedSent /\ [Next]_vars => (Typed /\ MarkedSent)'
  BY TypedStep, MarkedSentStep
<1>2. MarkedSent => DeliveredMeansSent
  BY DEF MarkedSent
<1> QED
  BY <1>1, <1>2, TypedInit, MarkedSentInit, PTL DEF Spec

-----------------------------------------------------------------------------
(* The refinement of DeliveryAbstract, on the channels whose dispatch      *)
(* throws its failures.                                                    *)

\* The request of an attempt that waits for its dispatch was not sent yet.
DispatchFresh == \A j \in Jobs : pc[j] = "dispatch" => row[j] \notin sent \cup waived

\* All the refinement needs to know about a reachable state.
SenderInv == Typed /\ GateInv /\ MarkedSent /\ DispatchFresh

\* An execution at its dispatch or its marking is the attempt being made, and
\* the one row that says `delivered` is the confirmed attempt.
CurrentKnown ==
  /\ \A j \in Jobs : Attempting(j) => CurrentAttempt = row[j] /\ row[j] # 0
  /\ (\A j \in Jobs : ~Attempting(j)) => CurrentAttempt = 0
ConfirmedKnown ==
  /\ \A a \in DOMAIN attempts : attempts[a] = "delivered" => ConfirmedAttempt = a
  /\ ~SomeDelivered => ConfirmedAttempt = 0

\* The critical section is exclusive, so the attempt being made is unique.
LEMMA CurrentIs == SenderInv => CurrentKnown
<1> SUFFICES ASSUME SenderInv, NEW j \in Jobs, Attempting(j)
             PROVE  CurrentAttempt = row[j] /\ row[j] # 0
  BY DEF CurrentAttempt, CurrentKnown
<1>1. row[j] \in DOMAIN attempts /\ row[j] # 0
  BY DEF SenderInv, Typed, TypeOK, RowOK, Attempting
<1>2. \A i \in Jobs : Attempting(i) => i = j
  BY Exclusive DEF SenderInv, GateInv, Attempting, Critical, Committed
<1>3. \A a \in DOMAIN attempts : (\E i \in Jobs : Attempting(i) /\ row[i] = a) <=> a = row[j]
  BY <1>2
<1> QED
  BY <1>1, <1>3 DEF CurrentAttempt

\* One row at most says `delivered`, so the confirmed attempt is unique.
LEMMA ConfirmedIs == SenderInv => ConfirmedKnown
<1> SUFFICES ASSUME SenderInv, NEW a \in DOMAIN attempts, attempts[a] = "delivered"
             PROVE  ConfirmedAttempt = a
  BY DEF ConfirmedAttempt, ConfirmedKnown
<1>1. \A b \in DOMAIN attempts : attempts[b] = "delivered" <=> b = a
  BY DEF SenderInv, GateInv, SingleDelivered
<1> QED
  BY <1>1 DEF ConfirmedAttempt, SomeDelivered

\* Steps outside RecordCreate, Dispatch, MarkAttempt and Crash neither start
\* nor end an attempt, and write no attempt row.
LEMMA QuietStep ==
  ASSUME Typed, [Next]_vars
  PROVE  \/ /\ UNCHANGED << attempts, sent, waived >>
            /\ \A i \in Jobs : /\ pc'[i] = "dispatch" <=> pc[i] = "dispatch"
                               /\ pc'[i] = "mark1" <=> pc[i] = "mark1"
                               /\ Attempting(i) => row'[i] = row[i]
         \/ \E j \in Jobs : RecordCreate(j) \/ Dispatch(j) \/ MarkAttempt(j) \/ Crash(j)
<1> DEFINE Quiet == /\ UNCHANGED << attempts, sent, waived >>
                    /\ \A i \in Jobs : /\ pc'[i] = "dispatch" <=> pc[i] = "dispatch"
                                       /\ pc'[i] = "mark1" <=> pc[i] = "mark1"
                                       /\ Attempting(i) => row'[i] = row[i]
<1>1. ASSUME NEW j \in Jobs,
             \/ Start(j) \/ PreCheckDelivery(j) \/ PreCheckAttempts(j)
             \/ Acquire(j) \/ AcquireContended(j) \/ AcquireFailsOpen(j)
             \/ ContendedReadDelivery(j) \/ ContendedReadAttempts(j)
      PROVE Quiet
  BY <1>1 DEF Typed, TypeOK, Goto, Return, db, local, history, Attempting, Start, PreCheckDelivery,
     PreCheckAttempts, Acquire, AcquireContended, AcquireFailsOpen, ContendedReadDelivery,
     ContendedReadAttempts
<1>2. ASSUME NEW j \in Jobs,
             \/ GatedReadDelivery(j) \/ GatedReadAttempts(j)
             \/ RecordCheckTerminal(j) \/ RecordCount(j) \/ RecordInProgress(j)
             \/ MarkDelivery(j) \/ Release(j)
      PROVE Quiet
  BY <1>2 DEF Typed, TypeOK, Goto, Return, db, local, history, Attempting, GatedReadDelivery,
     GatedReadAttempts, RecordCheckTerminal, RecordCount, RecordInProgress, MarkDelivery, Release,
     Releasing
<1>3. CASE GateExpire \/ UNCHANGED vars
  BY <1>3 DEF GateExpire, vars, db, local, history
<1> QED
  BY <1>1, <1>2, <1>3 DEF Next, Step, Quiescent

\* A dispatch is entered with a new row, and left by the one execution that
\* may send its request.
LEMMA DispatchFreshStep ==
  ASSUME Typed, GateInv, DispatchFresh, [Next]_vars PROVE DispatchFresh'
<1>1. ASSUME NEW j \in Jobs, RecordCreate(j) PROVE DispatchFresh'
  <2> USE <1>1 DEF Typed, TypeOK, RecordCreate, Goto, history, DispatchFresh
  <2>1. Len(attempts) + 1 \notin sent \cup waived
    OBVIOUS
  <2> QED
    BY <2>1
<1>2. ASSUME NEW j \in Jobs, Dispatch(j) PROVE DispatchFresh'
  <2>1. \A i \in Jobs : pc[i] = "dispatch" => i = j
    BY <1>2, Exclusive DEF GateInv, Dispatch, Critical, Committed
  <2>2. \A i \in Jobs : pc'[i] # "dispatch"
    BY <1>2, <2>1 DEF Dispatch, Goto, Typed, TypeOK
  <2> QED
    BY <2>2 DEF DispatchFresh
<1>3. ASSUME NEW j \in Jobs, MarkAttempt(j) \/ Crash(j) PROVE DispatchFresh'
  BY <1>3 DEF MarkAttempt, Crash, Goto, Return, local, history, DispatchFresh, Typed, TypeOK
<1>4. ASSUME UNCHANGED << sent, waived >>,
             \A i \in Jobs : /\ pc'[i] = "dispatch" <=> pc[i] = "dispatch"
                             /\ Attempting(i) => row'[i] = row[i]
      PROVE DispatchFresh'
  BY <1>4 DEF DispatchFresh, Attempting
<1> QED
  BY <1>1, <1>2, <1>3, <1>4, QuietStep

\* SenderInv is inductive while the gate is safe and failures are thrown.
LEMMA SenderInvStep ==
  ASSUME SafeGate, ~SwallowsErrors, SenderInv, [Next]_vars PROVE SenderInv'
  BY TypedStep, GateInvStep, MarkedSentStep, DispatchFreshStep DEF SenderInv

\* The initial state of the protocol is the careful sender's.
LEMMA SenderInit == Init => SenderInv /\ Abstract!Init
<1> SUFFICES ASSUME Init PROVE SenderInv /\ Abstract!Init
  OBVIOUS
<1>1. SenderInv
  BY TypedInit, GateInvInit, MarkedSentInit DEF SenderInv, DispatchFresh, Init
<1>2. \A j \in Jobs : ~Attempting(j)
  BY DEF Init, Attempting
<1>3. ~SomeDelivered
  BY DEF Init, SomeDelivered
<1> QED
  BY <1>1, <1>2, <1>3, CurrentIs, ConfirmedIs DEF CurrentKnown, ConfirmedKnown, Init, Abstract!Init

\* Every step of every job is a step of the careful sender, or no step of it.
LEMMA SenderStep ==
  ASSUME SafeGate, ~SwallowsErrors, SenderInv, SenderInv', [Next]_vars
  PROVE  [Abstract!Next]_(Abstract!vars)
<1>1. CurrentKnown /\ ConfirmedKnown
  BY CurrentIs, ConfirmedIs
<1>2. CurrentKnown' /\ ConfirmedKnown'
  <2>1. CurrentKnown'
    BY CurrentIs, PTL
  <2>2. ConfirmedKnown'
    BY ConfirmedIs, PTL
  <2> QED
    BY <2>1, <2>2
<1> USE DEF Abstract!Next, Abstract!vars
<1>3. ASSUME UNCHANGED << attempts, sent, waived >>,
             \A i \in Jobs : /\ pc'[i] = "dispatch" <=> pc[i] = "dispatch"
                             /\ pc'[i] = "mark1" <=> pc[i] = "mark1"
                             /\ Attempting(i) => row'[i] = row[i]
      PROVE UNCHANGED Abstract!vars
  <2>1. UNCHANGED CurrentAttempt
    BY <1>1, <1>2, <1>3 DEF CurrentKnown, Attempting
  <2>2. UNCHANGED ConfirmedAttempt
    BY <1>1, <1>2, <1>3 DEF ConfirmedKnown, SomeDelivered
  <2> QED
    BY <1>3, <2>1, <2>2
<1>4. ASSUME NEW j \in Jobs, RecordCreate(j), attempts' = Append(attempts, "pending"),
             row' = [row EXCEPT ![j] = seen[j] + 1], seen[j] = Len(attempts)
      PROVE Abstract!Open
  <2>1. \A i \in Jobs : pc[i] \in Critical => i = j
    BY <1>4, Exclusive DEF SenderInv, GateInv, RecordCreate, Critical, Committed, Recording
  <2>2. CurrentAttempt = 0
    BY <1>1, <1>4, <2>1 DEF CurrentKnown, Attempting, Critical, Committed, RecordCreate
  <2>3. ~SomeDelivered
    BY <1>4 DEF SenderInv, GateInv, CommittedFresh, RecordCreate, Committed, Recording
  <2>4. ~SomeDelivered' /\ Len(attempts') = Len(attempts) + 1
    BY <1>4, <2>3 DEF SomeDelivered, SenderInv, Typed, TypeOK
  <2>5. CurrentAttempt' \in {0, Len(attempts) + 1}
    <3>1. \A i \in Jobs : Attempting(i)' => i = j
      BY <1>4, <2>1 DEF RecordCreate, Goto, Attempting, Critical, Committed, SenderInv, Typed, TypeOK
    <3>2. row'[j] = Len(attempts) + 1
      BY <1>4 DEF SenderInv, Typed, TypeOK
    <3> QED
      BY <1>2, <3>1, <3>2 DEF CurrentKnown
  <2> QED
    BY <1>1, <1>2, <1>4, <2>2, <2>3, <2>4, <2>5 DEF ConfirmedKnown, Abstract!Open, RecordCreate, history
<1>5. ASSUME NEW j \in Jobs, RecordCreate(j), UNCHANGED << attempts, row >>
      PROVE UNCHANGED Abstract!vars
  BY <1>3, <1>5 DEF RecordCreate, Goto, history, SenderInv, Typed, TypeOK
<1>6. ASSUME NEW j \in Jobs, Dispatch(j)
      PROVE Abstract!Accept \/ Abstract!Waive \/ Abstract!Abandon
  <2>1. CurrentAttempt = row[j] /\ row[j] # 0 /\ row[j] \notin sent \cup waived
    BY <1>1, <1>6 DEF CurrentKnown, Dispatch, Attempting, SenderInv, DispatchFresh
  <2>2. UNCHANGED << Len(attempts), ConfirmedAttempt >>
    BY <1>1, <1>2, <1>6 DEF ConfirmedKnown, Dispatch, SomeDelivered, db
  <2>3. \A i \in Jobs : Attempting(i)' => i = j
    <3>1. \A i \in Jobs : pc[i] \in Critical => i = j
      BY <1>6, Exclusive DEF SenderInv, GateInv, Dispatch, Critical, Committed
    <3> QED
      BY <1>6, <3>1 DEF Dispatch, Goto, Attempting, Critical, Committed, SenderInv, Typed, TypeOK
  <2>4. CurrentAttempt' \in {0, CurrentAttempt}
    BY <1>2, <1>6, <2>1, <2>3 DEF CurrentKnown, Dispatch, local
  <2>5. \/ sent' = sent \cup {row[j]} /\ UNCHANGED waived
        \/ UNCHANGED << sent, waived >> /\ CurrentAttempt' = 0
        \/ UNCHANGED sent /\ waived' = waived \cup {row[j]} /\ CurrentAttempt' = row[j]
    <3>1. \/ sent' = sent \cup {row[j]} /\ UNCHANGED waived
          \/ UNCHANGED << sent, waived >> /\ ~Attempting(j)'
          \/ UNCHANGED << sent, row >> /\ waived' = waived \cup {row[j]} /\ Attempting(j)'
      BY <1>6 DEF Dispatch, Goto, Attempting, SenderInv, Typed, TypeOK, local
    <3> QED
      BY <1>2, <2>3, <3>1 DEF CurrentKnown
  <2> QED
    BY <2>1, <2>2, <2>4, <2>5 DEF Abstract!Accept, Abstract!Waive, Abstract!Abandon
<1>7. ASSUME NEW j \in Jobs, MarkAttempt(j) PROVE Abstract!Confirm \/ Abstract!Abandon
  <2>1. CurrentAttempt = row[j] /\ row[j] # 0 /\ row[j] \in sent \cup waived
    BY <1>1, <1>7 DEF CurrentKnown, MarkAttempt, Attempting, SenderInv, MarkedSent
  <2>2. CurrentAttempt' = 0
    <3>1. \A i \in Jobs : pc[i] \in Critical => i = j
      BY <1>7, Exclusive DEF SenderInv, GateInv, MarkAttempt, Critical, Committed
    <3>2. \A i \in Jobs : ~Attempting(i)'
      BY <1>7, <3>1 DEF MarkAttempt, Goto, Attempting, Critical, Committed, SenderInv, Typed, TypeOK
    <3> QED
      BY <1>2, <3>2 DEF CurrentKnown
  <2>3. row[j] \in 1..Len(attempts) /\ attempts \in Seq({ "pending", "delivered" })
    BY <1>7 DEF MarkAttempt, SenderInv, Typed, TypeOK, RowOK
  <2>4. CASE attempts' = [attempts EXCEPT ![row[j]] = "delivered"]
    <3>1. attempts'[row[j]] = "delivered" /\ row[j] \in DOMAIN attempts' /\ Len(attempts') = Len(attempts)
      BY <2>3, <2>4, MarkRow
    <3>2. ConfirmedAttempt' = row[j]
      BY <1>2, <3>1 DEF ConfirmedKnown
    <3> QED
      BY <1>7, <2>1, <2>2, <3>1, <3>2 DEF Abstract!Confirm, MarkAttempt, history
  <2>5. CASE UNCHANGED attempts
    <3>1. UNCHANGED ConfirmedAttempt
      BY <1>1, <1>2, <2>5 DEF ConfirmedKnown, SomeDelivered
    <3> QED
      BY <1>7, <2>1, <2>2, <2>5, <3>1 DEF Abstract!Abandon, MarkAttempt, history
  <2> QED
    BY <1>7, <2>4, <2>5 DEF MarkAttempt
<1>8. ASSUME NEW j \in Jobs, Crash(j) PROVE Abstract!Abandon \/ UNCHANGED Abstract!vars
  <2>1. UNCHANGED << attempts, sent, waived, row, ConfirmedAttempt >>
    BY <1>1, <1>2, <1>8 DEF ConfirmedKnown, SomeDelivered, Crash, db, local
  <2>2. \A i \in Jobs : pc'[i] = (IF i = j THEN "idle" ELSE pc[i])
    BY <1>8 DEF Crash, Return, SenderInv, Typed, TypeOK
  <2>3. CASE Attempting(j)
    <3>1. \A i \in Jobs : Attempting(i) => i = j
      BY <2>3, Exclusive DEF SenderInv, GateInv, Attempting, Critical, Committed
    <3>2. CurrentAttempt # 0 /\ CurrentAttempt' = 0
      BY <1>1, <1>2, <2>2, <2>3, <3>1 DEF CurrentKnown, Attempting
    <3> QED
      BY <2>1, <3>2 DEF Abstract!Abandon
  <2>4. CASE ~Attempting(j)
    BY <1>3, <2>1, <2>2, <2>4 DEF Attempting
  <2> QED
    BY <2>3, <2>4
<1>9. ASSUME NEW j \in Jobs, RecordCreate(j)
      PROVE \/ UNCHANGED << attempts, row >>
            \/ /\ attempts' = Append(attempts, "pending") /\ seen[j] = Len(attempts)
               /\ row' = [row EXCEPT ![j] = seen[j] + 1]
  BY <1>9 DEF RecordCreate
<1>10. Typed
  BY DEF SenderInv
<1> QED
  BY <1>3, <1>4, <1>5, <1>6, <1>7, <1>8, <1>9, <1>10, QuietStep

\* All executions of all jobs of a key together behave like one careful
\* sender, for every set of jobs, with crashes, lost replies and Postgres
\* errors, while the gate outlives its holder and the dispatch throws.
THEOREM DeliveryRefines ==
  ASSUME SafeGate, ~SwallowsErrors PROVE Spec => ImplementsAbstract
<1>1. SenderInv /\ [Next]_vars => SenderInv'
  BY SenderInvStep
<1>2. SenderInv /\ SenderInv' /\ [Next]_vars => [Abstract!Next]_(Abstract!vars)
  BY SenderStep
<1> QED
  BY <1>1, <1>2, SenderInit, PTL DEF Spec, ImplementsAbstract, Abstract!Spec

-----------------------------------------------------------------------------
(* Giving up on a contended gate: a job that does so leaves the key to an  *)
(* execution that is still working on it, unless the gate it met outlived  *)
(* the execution that had stored it.                                       *)

\* The job does nothing more for the key, whatever it still reads.
Resigned(j) == pc[j] \in Contended \/ (pc[j] = "idle" /\ outcome[j] \in Completed)

\* A stored gate has a live holder, a release that reports success follows a
\* recorded one, and until then not every job has resigned.
HolderAlive == gate # NoGate => GateLive \/ stranded
ReleaseSound == \A j \in Jobs : pc[j] \in { "releaseOk", "releaseSkip" } => SomeDelivered
SomeoneWorks == stranded \/ SomeDelivered \/ Jobs = {} \/ \E j \in Jobs : ~Resigned(j)
HandoverInv == HolderAlive /\ ReleaseSound /\ SomeoneWorks

\* No job has resigned and no gate is stored at the start.
LEMMA HandoverInit == Init => HandoverInv
  BY DEF Init, HandoverInv, HolderAlive, ReleaseSound, SomeoneWorks, Resigned, Contended, Completed

\* A gate is stored by the execution that enters its critical section, and
\* the execution that leaves it deletes the gate.
LEMMA HolderAliveStep ==
  ASSUME Typed, HolderAlive, [Next]_vars PROVE HolderAlive'
<1> USE DEF Typed, TypeOK, HolderAlive, GateLive, token, Goto, Return, db, local, history
<1>1. ASSUME NEW j \in Jobs, Start(j) PROVE HolderAlive'
  <2>1. \A i \in Jobs : pc[i] \in Critical => i # j
    BY <1>1 DEF Start, Critical, Committed, Recording, Releasing
  <2> QED
    BY <1>1, <2>1 DEF Start
<1>2. ASSUME NEW j \in Jobs, \/ PreCheckDelivery(j) \/ PreCheckAttempts(j)
                             \/ AcquireContended(j) \/ ContendedReadDelivery(j)
                             \/ ContendedReadAttempts(j)
      PROVE HolderAlive'
  <2>1. \A i \in Jobs : pc[i] \in Critical => i # j
    BY <1>2 DEF PreCheckDelivery, PreCheckAttempts, AcquireContended, ContendedReadDelivery,
       ContendedReadAttempts, Critical, Committed, Recording, Releasing
  <2> QED
    BY <1>2, <2>1 DEF PreCheckDelivery, PreCheckAttempts, AcquireContended, ContendedReadDelivery,
       ContendedReadAttempts
<1>3. ASSUME NEW j \in Jobs, Acquire(j) \/ AcquireFailsOpen(j) PROVE HolderAlive'
  <2>1. /\ \A i \in Jobs : i # j => pc'[i] = pc[i]
        /\ pc[j] = "acquire" /\ pc'[j] = "in1"
        /\ UNCHANGED << runs, stranded >>
        /\ UNCHANGED gate \/ gate' = token(j)
    BY <1>3 DEF Acquire, AcquireFailsOpen
  <2>2. pc[j] \notin Critical /\ pc'[j] \in Critical
    BY <2>1 DEF Critical, Committed, Recording, Releasing
  <2> QED
    BY <2>1, <2>2
<1>4. ASSUME NEW j \in Jobs, Crash(j) PROVE HolderAlive'
  BY <1>4 DEF Crash
<1>5. ASSUME NEW j \in Jobs, \/ GatedReadDelivery(j) \/ GatedReadAttempts(j)
                             \/ RecordCheckTerminal(j) \/ RecordCount(j) \/ RecordInProgress(j)
                             \/ RecordCreate(j) \/ Dispatch(j) \/ MarkAttempt(j) \/ MarkDelivery(j)
      PROVE HolderAlive'
  <2>1. UNCHANGED << gate, runs, stranded >> /\ pc'[j] \in Critical /\ \A i \in Jobs : i # j => pc'[i] = pc[i]
    BY <1>5 DEF GatedReadDelivery, GatedReadAttempts, RecordCheckTerminal, RecordCount,
       RecordInProgress, RecordCreate, Dispatch, MarkAttempt, MarkDelivery, Critical, Committed,
       Recording, Releasing
  <2> QED
    BY <2>1
<1>6. ASSUME NEW j \in Jobs, Release(j) PROVE HolderAlive'
  <2>1. /\ \A i \in Jobs : i # j => pc'[i] = pc[i]
        /\ UNCHANGED runs
        /\ gate # token(j) => gate' = gate
    BY <1>6 DEF Release
  <2>2. /\ stranded => stranded'
        /\ gate = token(j) => gate' = NoGate \/ stranded'
    <3>1. \/ gate' = (IF gate = token(j) THEN NoGate ELSE gate) /\ UNCHANGED stranded
          \/ stranded' = (stranded \/ gate = token(j))
      BY <1>6 DEF Release
    <3> HIDE DEF Typed, TypeOK, HolderAlive, GateLive, token, Goto, Return, db, local, history
    <3>2. CASE stranded' = (stranded \/ gate = token(j))
      BY <3>2, Zenon
    <3>3. CASE gate' = (IF gate = token(j) THEN NoGate ELSE gate) /\ UNCHANGED stranded
      BY <3>3, Zenon
    <3> QED
      BY <3>1, <3>2, <3>3
  <2> QED
    BY <2>1, <2>2
<1>7. CASE GateExpire
  BY <1>7 DEF GateExpire
<1>8. CASE UNCHANGED vars
  BY <1>8 DEF vars
<1> QED
  BY <1>1, <1>2, <1>3, <1>4, <1>5, <1>6, <1>7, <1>8 DEF Next, Step, Quiescent

\* Success is reported by an execution that has read or recorded it.
LEMMA ReleaseSoundStep ==
  ASSUME Typed, LogicalFollows, ReleaseSound, [Next]_vars PROVE ReleaseSound'
<1>1. SomeDelivered => SomeDelivered'
  BY RowsStep
<1> USE DEF Typed, TypeOK, Goto, Return
<1>2. ASSUME NEW j \in Jobs, GatedReadDelivery(j) \/ GatedReadAttempts(j) \/ MarkDelivery(j),
             NEW i \in Jobs, pc'[i] \in { "releaseOk", "releaseSkip" }
      PROVE SomeDelivered
  BY <1>2 DEF GatedReadDelivery, GatedReadAttempts, MarkDelivery, LogicalFollows, ReleaseSound
<1>3. ASSUME NEW j \in Jobs,
             \/ Start(j) \/ PreCheckDelivery(j) \/ PreCheckAttempts(j)
             \/ Acquire(j) \/ AcquireContended(j) \/ AcquireFailsOpen(j)
             \/ ContendedReadDelivery(j) \/ ContendedReadAttempts(j)
             \/ RecordCheckTerminal(j) \/ RecordCount(j) \/ RecordInProgress(j)
             \/ RecordCreate(j) \/ Dispatch(j) \/ MarkAttempt(j) \/ Release(j) \/ Crash(j),
             NEW i \in Jobs, pc'[i] \in { "releaseOk", "releaseSkip" }
      PROVE pc[i] \in { "releaseOk", "releaseSkip" }
  BY <1>3 DEF Start, PreCheckDelivery, PreCheckAttempts, Acquire, AcquireContended,
     AcquireFailsOpen, ContendedReadDelivery, ContendedReadAttempts, RecordCheckTerminal,
     RecordCount, RecordInProgress, RecordCreate, Dispatch, MarkAttempt, Release, Crash
<1>4. CASE UNCHANGED pc
  BY <1>1, <1>4 DEF ReleaseSound
<1> HIDE DEF Typed, TypeOK, Goto, Return
<1> QED
  BY <1>1, <1>2, <1>3, <1>4 DEF ReleaseSound, Next, Step, Quiescent, GateExpire, vars

\* An execution changes nothing of another job, and only a started one acts.
LEMMA JobFrame ==
  ASSUME Typed, NEW j \in Jobs, Start(j) \/ Step(j) \/ Crash(j)
  PROVE  /\ \A i \in Jobs : i # j => pc'[i] = pc[i] /\ outcome'[i] = outcome[i] /\ runs'[i] = runs[i]
         /\ Step(j) => pc[j] # "idle" /\ runs'[j] = runs[j]
  BY DEF Typed, TypeOK, Goto, Return, db, local, history, Start, Step, PreCheckDelivery, PreCheckAttempts,
     Acquire, AcquireContended, AcquireFailsOpen, ContendedReadDelivery, ContendedReadAttempts,
     GatedReadDelivery, GatedReadAttempts, RecordCheckTerminal, RecordCount, RecordInProgress,
     RecordCreate, Dispatch, MarkAttempt, MarkDelivery, Release, Releasing, Crash

\* An execution gives up only on a gate that another execution holds.
LEMMA ResignsToHolder ==
  ASSUME Typed, HolderAlive, ~stranded, NEW j \in Jobs, Start(j) \/ Step(j),
         pc[j] \notin Contended, pc'[j] \in Contended
  PROVE  \E k \in Jobs : k # j /\ pc[k] \in Critical
<1>1. AcquireContended(j)
  BY DEF Typed, TypeOK, Contended, Goto, Return, Start, Step, PreCheckDelivery, PreCheckAttempts,
     Acquire, AcquireFailsOpen, ContendedReadDelivery, ContendedReadAttempts,
     GatedReadDelivery, GatedReadAttempts, RecordCheckTerminal, RecordCount, RecordInProgress,
     RecordCreate, Dispatch, MarkAttempt, MarkDelivery, Release, Releasing
<1> QED
  BY <1>1 DEF AcquireContended, HolderAlive, GateLive, Critical, Committed, Recording, Releasing

\* An execution that was not contended completes only a delivered key.
LEMMA CompletesDelivered ==
  ASSUME Typed, LogicalFollows, ReleaseSound, NEW j \in Jobs, Start(j) \/ Step(j),
         pc[j] \notin Contended, pc'[j] = "idle", outcome'[j] \in Completed
  PROVE  SomeDelivered
<1>1. \/ PreCheckDelivery(j) \/ PreCheckAttempts(j) \/ Release(j)
  BY DEF Typed, TypeOK, Contended, Goto, Return, Start, Step,
     Acquire, AcquireContended, AcquireFailsOpen, ContendedReadDelivery, ContendedReadAttempts,
     GatedReadDelivery, GatedReadAttempts, RecordCheckTerminal, RecordCount, RecordInProgress,
     RecordCreate, Dispatch, MarkAttempt, MarkDelivery
<1>2. CASE PreCheckDelivery(j) \/ PreCheckAttempts(j)
  BY <1>2 DEF PreCheckDelivery, PreCheckAttempts, Goto, Return, Typed, TypeOK, Completed,
     LogicalFollows
<1>3. CASE Release(j)
  <2>1. outcome'[j] = Settled(pc[j]) /\ pc[j] \in Releasing
    BY <1>3 DEF Release, Return, Typed, TypeOK
  <2>2. pc[j] \in { "releaseOk", "releaseSkip" }
    BY <2>1 DEF Releasing, Settled, Completed
  <2> QED
    BY <2>2 DEF ReleaseSound
<1> QED
  BY <1>1, <1>2, <1>3

\* The last job that works on an undelivered key resigns only to a holder.
LEMMA SomeoneWorksStep ==
  ASSUME Typed, LogicalFollows, HandoverInv, [Next]_vars PROVE SomeoneWorks'
<1>1. SomeDelivered => SomeDelivered'
  BY RowsStep
<1>s. stranded => stranded'
  BY DEF Next, Step, Quiescent, vars, history, Start, PreCheckDelivery, PreCheckAttempts,
     Acquire, AcquireContended, AcquireFailsOpen, ContendedReadDelivery, ContendedReadAttempts,
     GatedReadDelivery, GatedReadAttempts, RecordCheckTerminal, RecordCount, RecordCreate,
     RecordInProgress, Dispatch, MarkAttempt, MarkDelivery, Release, GateExpire, Crash
<1> SUFFICES ASSUME ~stranded, ~SomeDelivered, Jobs # {} PROVE SomeoneWorks'
  BY <1>1, <1>s DEF SomeoneWorks
<1>2. PICK h \in Jobs : ~Resigned(h)
  BY DEF HandoverInv, SomeoneWorks
<1>3. ASSUME \/ UNCHANGED << pc, outcome >>
             \/ \E j \in Jobs : j # h /\ \A i \in Jobs : i # j => pc'[i] = pc[i] /\ outcome'[i] = outcome[i]
      PROVE SomeoneWorks'
  BY <1>2, <1>3 DEF SomeoneWorks, Resigned
<1>4. ASSUME NEW j \in Jobs, Start(j) \/ Step(j) \/ Crash(j)
      PROVE \A i \in Jobs : i # j => pc'[i] = pc[i] /\ outcome'[i] = outcome[i]
  BY <1>4, JobFrame
<1> USE DEF Typed, TypeOK, Goto, Return
<1>5. CASE AcquireContended(h)
  <2>1. PICK k \in Jobs : pc[k] \in Critical
    BY <1>5 DEF AcquireContended, HandoverInv, HolderAlive, GateLive
  <2>2. k # h /\ pc[k] \notin Contended \cup {"idle"}
    BY <1>5, <2>1 DEF AcquireContended, Critical, Committed, Recording, Releasing, Contended
  <2>3. pc'[k] = pc[k]
    BY <1>5, <2>2 DEF AcquireContended
  <2> QED
    BY <2>2, <2>3 DEF SomeoneWorks, Resigned
<1>6. CASE \/ Start(h) \/ PreCheckDelivery(h) \/ PreCheckAttempts(h) \/ Acquire(h)
           \/ AcquireFailsOpen(h) \/ ContendedReadDelivery(h) \/ ContendedReadAttempts(h)
           \/ Crash(h)
  <2>1. ~Resigned(h)'
    BY <1>2, <1>6 DEF AcquireFailsOpen, Crash, Start, PreCheckDelivery, PreCheckAttempts, Acquire, ContendedReadDelivery,
       ContendedReadAttempts, LogicalFollows, Resigned, Contended, Completed
  <2> QED
    BY <2>1 DEF SomeoneWorks
<1>7. CASE \/ GatedReadDelivery(h) \/ GatedReadAttempts(h) \/ RecordCheckTerminal(h)
           \/ RecordCount(h) \/ RecordInProgress(h) \/ RecordCreate(h) \/ Dispatch(h)
           \/ MarkAttempt(h) \/ MarkDelivery(h)
  <2>1. ~Resigned(h)'
    BY <1>7 DEF GatedReadDelivery, GatedReadAttempts, RecordCheckTerminal, RecordCount,
       RecordInProgress, RecordCreate, Dispatch, MarkAttempt, MarkDelivery, Resigned, Contended
  <2> QED
    BY <2>1 DEF SomeoneWorks
<1>8. CASE Release(h)
  <2>1. pc[h] = "releaseErr"
    BY <1>8 DEF Release, Releasing, HandoverInv, ReleaseSound
  <2>2. ~Resigned(h)'
    BY <1>8, <2>1 DEF Release, Settled, Resigned, Contended, Completed
  <2> QED
    BY <2>2 DEF SomeoneWorks
<1> HIDE DEF Typed, TypeOK, Goto, Return
<1>9. Start(h) \/ Step(h) \/ Crash(h) => SomeoneWorks'
  BY <1>5, <1>6, <1>7, <1>8 DEF Step
<1> QED
  BY <1>3, <1>4, <1>9 DEF Next, Quiescent, GateExpire, vars

\* A key whose jobs have all completed is delivered, for every set of jobs,
\* every channel and every fault, unless a gate outlived its execution.
THEOREM CompletionDelivers == Spec => []CompletedMeansDelivered
<1> DEFINE Inv == Typed /\ LogicalFollows /\ HandoverInv
<1>1. Inv /\ [Next]_vars => Inv'
  BY TypedStep, LogicalStep, HolderAliveStep, ReleaseSoundStep, SomeoneWorksStep DEF HandoverInv
<1>2. Inv => CompletedMeansDelivered
  BY DEF HandoverInv, SomeoneWorks, Resigned, CompletedMeansDelivered, Contended
<1>3. Init => Inv
  BY TypedInit, GateInvInit, HandoverInit DEF GateInv
<1> QED
  BY <1>1, <1>2, <1>3, PTL DEF Spec

\* No gate outlives its execution while nobody dies and Redis answers.
LEMMA StrandedStep ==
  ASSUME "crash" \notin Faults, "redis" \notin Faults, ~stranded, [Next]_vars PROVE ~stranded'
  BY DEF Next, Step, Quiescent, vars, history, Start, PreCheckDelivery, PreCheckAttempts,
     Acquire, AcquireContended, AcquireFailsOpen, ContendedReadDelivery, ContendedReadAttempts,
     GatedReadDelivery, GatedReadAttempts, RecordCheckTerminal, RecordCount, RecordCreate,
     RecordInProgress, Dispatch, MarkAttempt, MarkDelivery, Release, GateExpire, Crash

-----------------------------------------------------------------------------
(* Without faults nothing is accepted that is not recorded.                *)

AllRecorded == \A a \in sent : Recorded(a)

\* An accepted request is recorded by the execution that made it.
LEMMA AllRecordedStep ==
  ASSUME Faults = {}, Typed, AllRecorded, [Next]_vars PROVE AllRecorded'
<1> USE DEF AllRecorded, Recorded
<1>1. ASSUME NEW j \in Jobs, RecordCreate(j) PROVE AllRecorded'
  <2>1. UNCHANGED sent /\ \A i \in Jobs : pc[i] = "mark1" => pc'[i] = "mark1" /\ row'[i] = row[i]
    BY <1>1 DEF RecordCreate, Goto, history, Typed, TypeOK
  <2>2. attempts' = attempts \/ attempts' = Append(attempts, "pending")
    BY <1>1 DEF RecordCreate
  <2>3. \A a \in sent : attempts'[a] = attempts[a]
    <3>1. attempts \in Seq({ "pending", "delivered" }) /\ sent \subseteq 1..Len(attempts)
      BY DEF Typed, TypeOK
    <3> QED
      BY <2>2, <3>1
  <2> QED
    BY <2>1, <2>3
<1>2. ASSUME NEW j \in Jobs, Dispatch(j) PROVE AllRecorded'
  <2>1. /\ UNCHANGED << attempts, row >>
        /\ \A i \in Jobs : pc[i] = "mark1" => pc'[i] = "mark1"
        /\ sent' = sent \/ (sent' = sent \cup {row[j]} /\ pc'[j] = "mark1")
    BY <1>2 DEF Dispatch, Goto, db, local, history, Typed, TypeOK
  <2> QED
    BY <2>1
<1>3. ASSUME NEW j \in Jobs, MarkAttempt(j) PROVE AllRecorded'
  <2>1. attempts \in Seq({ "pending", "delivered" }) /\ row[j] \in 1..Len(attempts)
    BY <1>3 DEF MarkAttempt, Typed, TypeOK, RowOK
  <2>2. /\ attempts' = [attempts EXCEPT ![row[j]] = "delivered"]
        /\ UNCHANGED << row, sent >>
        /\ \A i \in Jobs : i # j => pc'[i] = pc[i]
    BY <1>3 DEF MarkAttempt, Goto, local, history, Typed, TypeOK
  <2>3. \A a \in sent : attempts'[a] = IF a = row[j] THEN "delivered" ELSE attempts[a]
    BY <2>1, <2>2, MarkRow DEF Typed, TypeOK
  <2> QED
    BY <2>2, <2>3
<1>4. ASSUME NEW j \in Jobs, Crash(j) PROVE FALSE
  BY <1>4 DEF Crash
<1>5. ASSUME UNCHANGED << attempts, sent, waived >>,
             \A i \in Jobs : /\ pc'[i] = "mark1" <=> pc[i] = "mark1"
                             /\ Attempting(i) => row'[i] = row[i]
      PROVE AllRecorded'
  BY <1>5 DEF Attempting
<1> QED
  BY <1>1, <1>2, <1>3, <1>4, <1>5, QuietStep
=============================================================================
