---------------------------- MODULE OutboxProofs ----------------------------
(***************************************************************************)
(* Proofs about Outbox, for any events, any number of relay processes, any *)
(* batch size and any number of faults.                                    *)
(***************************************************************************)
EXTENDS Outbox, FiniteSetTheorems, TLAPS

\* The empty table and idle relays have their types.
LEMMA TypeInit == Init => TypeOK
  BY ConstantsOK DEF Init, TypeOK, Status, PC

RowsOK ==
  /\ status \in [Events -> Status]
  /\ due \in [Events -> BOOLEAN]
  /\ stale \in [Events -> BOOLEAN]
RelaysOK ==
  /\ candidates \in [Relays -> SUBSET Events]
  /\ claimed \in [Relays -> SUBSET Events]
  /\ event \in [Relays -> Events \cup {0}]
  /\ pc \in [Relays -> PC]

\* A counted fault stays within its bound.
LEMMA FaultType == ASSUME NEW k, used \in 0..MaxFaults, Fault(k) PROVE used' \in 0..MaxFaults
  BY ConstantsOK DEF Fault

\* Writing one row keeps the table's type.
LEMMA SetRowType ==
  ASSUME NEW e, NEW st \in Status, NEW d \in BOOLEAN, RowsOK, SetRow(e, st, d) PROVE RowsOK'
<1>1. status' \in [Events -> Status]
  BY DEF RowsOK, SetRow
<1>2. due' \in [Events -> BOOLEAN]
  BY Zenon DEF RowsOK, SetRow
<1>3. stale' \in [Events -> BOOLEAN]
  BY Zenon DEF RowsOK, SetRow
<1> QED
  BY <1>1, <1>2, <1>3 DEF RowsOK

\* Ending a poll keeps the relays' types.
LEMMA EndPollType == ASSUME NEW r \in Relays, RelaysOK, EndPoll(r) PROVE RelaysOK'
<1>1. candidates' \in [Relays -> SUBSET Events] /\ claimed' \in [Relays -> SUBSET Events]
  BY DEF RelaysOK, EndPoll
<1>2. event' \in [Relays -> Events \cup {0}]
  BY DEF RelaysOK, EndPoll
<1>3. pc' \in [Relays -> PC]
  BY DEF RelaysOK, EndPoll, Goto, PC
<1> QED
  BY <1>1, <1>2, <1>3 DEF RelaysOK

\* Every step of a relay, of the recorder and of the clock keeps the types.
LEMMA TypeStep == TypeOK /\ [Next]_vars => TypeOK'
<1> SUFFICES ASSUME RowsOK, RelaysOK, relayed \in [Events -> Nat], used \in 0..MaxFaults, [Next]_vars
             PROVE  RowsOK' /\ RelaysOK' /\ relayed' \in [Events -> Nat] /\ used' \in 0..MaxFaults
  BY DEF TypeOK, RowsOK, RelaysOK
<1> DEFINE Goal == RowsOK' /\ RelaysOK' /\ relayed' \in [Events -> Nat] /\ used' \in 0..MaxFaults
<1>a. ASSUME UNCHANGED rows PROVE RowsOK'
  BY <1>a DEF rows, RowsOK
<1>b. ASSUME UNCHANGED << candidates, claimed, event, pc >> PROVE RelaysOK'
  BY <1>b DEF RelaysOK
<1>c. { "pending", "processing", "processed" } \subseteq Status
  BY DEF Status
<1>d. \A e \in Events : due[e] \in BOOLEAN
  BY DEF RowsOK
<1>1. ASSUME NEW e \in Events, Record(e) PROVE Goal
  BY <1>1, <1>b, <1>c, SetRowType DEF Record
<1>2. ASSUME NEW e \in Events, BecomeDue(e) PROVE Goal
  <2>1. due' \in [Events -> BOOLEAN]
    BY <1>2, Zenon DEF BecomeDue, RowsOK
  <2> QED
    BY <1>2, <1>b, <2>1 DEF BecomeDue, RowsOK
<1>3. ASSUME NEW e \in Events, LockTimeout(e) PROVE Goal
  <2>1. stale' \in [Events -> BOOLEAN]
    BY <1>3, Zenon DEF LockTimeout, RowsOK
  <2> QED
    BY <1>3, <1>b, <2>1, FaultType DEF LockTimeout, RowsOK
<1>4. ASSUME NEW r \in Relays, Reclaim(r) PROVE Goal
  <2>1. CASE Fault("db") /\ EndPoll(r) /\ UNCHANGED rows
    BY <1>4, <1>a, <2>1, EndPollType, FaultType DEF Reclaim
  <2>2. CASE ~(Fault("db") /\ EndPoll(r) /\ UNCHANGED rows)
    <3>1. status' \in [Events -> Status]
      BY <1>4, <1>c, <2>2 DEF Reclaim, RowsOK
    <3>2. stale' \in [Events -> BOOLEAN]
      BY <1>4, <2>2 DEF Reclaim, RowsOK
    <3>3. RelaysOK'
      BY <1>4, <2>2 DEF Reclaim, RelaysOK, Goto, PC
    <3> QED
      BY <1>4, <2>2, <3>1, <3>2, <3>3 DEF Reclaim, RowsOK
  <2> QED
    BY <2>1, <2>2
<1>5. ASSUME NEW r \in Relays, Select(r) PROVE Goal
  <2>1. RelaysOK'
    BY <1>5, EndPollType DEF Select, Oldest, Due, RelaysOK, Goto, PC
  <2> QED
    BY <1>5, <1>a, <2>1, FaultType DEF Select
<1>6. ASSUME NEW r \in Relays, Claim(r) PROVE Goal
  <2>1. PICK e \in candidates[r] :
           /\ \/ SetRow(e, "processing", due[e]) \/ UNCHANGED rows
           /\ \/ EndPoll(r) /\ (Fault("db") \/ Fault("dbReply"))
              \/ /\ candidates' = [candidates EXCEPT ![r] = @ \ {e}]
                 /\ claimed' = [claimed EXCEPT ![r] = @ \cup {e}] \/ UNCHANGED claimed
                 /\ UNCHANGED << event, pc, used >>
    BY <1>6 DEF Claim
  <2>2. e \in Events
    BY DEF RelaysOK
  <2>3. RowsOK'
    BY <1>a, <1>c, <1>d, <2>1, <2>2, SetRowType
  <2>4. RelaysOK'
    BY <2>1, <2>2, EndPollType DEF RelaysOK
  <2> QED
    BY <1>6, <2>1, <2>3, <2>4, FaultType DEF Claim
<1>7. ASSUME NEW r \in Relays, ClaimDone(r) PROVE Goal
  BY <1>7, <1>a DEF ClaimDone, RelaysOK, Goto, PC
<1>8. ASSUME NEW r \in Relays, BatchDone(r) \/ Crash(r) PROVE Goal
  BY <1>8, <1>a, EndPollType, FaultType DEF BatchDone, Crash
<1>9. ASSUME NEW r \in Relays, RelayEvent(r) PROVE Goal
  <2>1. PICK e \in claimed[r] :
           /\ event' = [event EXCEPT ![r] = e]
           /\ Goto(r, "mark") \/ Goto(r, "fail")
           /\ relayed' = [relayed EXCEPT ![e] = @ + 1] \/ UNCHANGED relayed
           /\ Fault("redis") \/ UNCHANGED used
    BY <1>9 DEF RelayEvent
  <2>2. e \in Events
    BY DEF RelaysOK
  <2>3. RelaysOK'
    BY <1>9, <2>1, <2>2 DEF RelayEvent, RelaysOK, Goto, PC
  <2>4. relayed' \in [Events -> Nat]
    BY <2>1, <2>2
  <2> QED
    BY <1>9, <1>a, <2>1, <2>3, <2>4, FaultType DEF RelayEvent
<1>10. ASSUME NEW r \in Relays, MarkProcessed(r) PROVE Goal
  <2>1. RelaysOK'
    BY <1>10 DEF MarkProcessed, Settle, RelaysOK, Goto, PC
  <2>2. ASSUME SetRow(event[r], "processed", due[event[r]]) PROVE RowsOK'
    <3>1. status' \in [Events -> Status] /\ stale' \in [Events -> BOOLEAN]
      BY <1>c, <2>2 DEF SetRow, RowsOK
    <3>2. due' \in [Events -> BOOLEAN]
      BY <2>2, Zenon DEF SetRow, RowsOK
    <3> QED
      BY <3>1, <3>2 DEF RowsOK
  <2> QED
    BY <1>10, <1>a, <2>1, <2>2, FaultType DEF MarkProcessed
<1>11. ASSUME NEW r \in Relays, MarkFailed(r) PROVE Goal
  <2>1. RelaysOK'
    <3>1. CASE Settle(r)
      BY <3>1 DEF Settle, RelaysOK, Goto, PC
    <3>2. CASE EndPoll(r)
      BY <3>2, EndPollType
    <3> QED
      BY <1>11, <3>1, <3>2 DEF MarkFailed
  <2> QED
    BY <1>11, <1>a, <1>c, <2>1, SetRowType, FaultType DEF MarkFailed
<1>12. CASE UNCHANGED vars
  BY <1>12, <1>a, <1>b DEF vars, rows
<1> QED
  BY <1>1, <1>2, <1>3, <1>4, <1>5, <1>6, <1>7, <1>8, <1>9, <1>10, <1>11, <1>12 DEF Next, Relay

\* Type correctness of the outbox, under every fault.
THEOREM TypeCorrect == Spec => []TypeOK
  BY TypeInit, TypeStep, PTL DEF Spec

-----------------------------------------------------------------------------
(* Processed means relayed, under every fault.                             *)

\* A relay about to mark a row has just relayed it.
RelayedInv ==
  /\ ProcessedMeansRelayed
  /\ \A r \in Relays : pc[r] = "mark" => event[r] \in Events /\ relayed[event[r]] > 0

\* Relay counts only grow and a row is marked only after its relay.
LEMMA RelayedStep == TypeOK /\ RelayedInv /\ [Next]_vars => RelayedInv'
<1> SUFFICES ASSUME TypeOK, RelayedInv, [Next]_vars PROVE RelayedInv'
  OBVIOUS
<1> USE DEF TypeOK, RelayedInv, ProcessedMeansRelayed, rows, Goto, Fault, EndPoll, SetRow, Settle
<1>1. ASSUME NEW e \in Events, Record(e) \/ BecomeDue(e) \/ LockTimeout(e) PROVE RelayedInv'
  BY <1>1 DEF Record, BecomeDue, LockTimeout
<1>2. ASSUME NEW r \in Relays, Reclaim(r) \/ Select(r) \/ ClaimDone(r) \/ BatchDone(r) \/ Crash(r)
      PROVE RelayedInv'
  BY <1>2 DEF Reclaim, Select, ClaimDone, BatchDone, Crash
<1>3. ASSUME NEW r \in Relays, Claim(r) PROVE RelayedInv'
  BY <1>3 DEF Claim
<1>4. ASSUME NEW r \in Relays, RelayEvent(r) PROVE RelayedInv'
  BY <1>4 DEF RelayEvent
<1>5. ASSUME NEW r \in Relays, MarkProcessed(r) \/ MarkFailed(r) PROVE RelayedInv'
  BY <1>5 DEF MarkProcessed, MarkFailed
<1>6. CASE UNCHANGED vars
  BY <1>6 DEF vars
<1> QED
  BY <1>1, <1>2, <1>3, <1>4, <1>5, <1>6 DEF Next, Relay

\* No event is marked processed without having reached its queue or channel,
\* whatever crashes, fails, is reported wrongly or outlasts its lock.
THEOREM ProcessedWasRelayed == Spec => []ProcessedMeansRelayed
<1>1. Init => RelayedInv
  BY DEF Init, RelayedInv, ProcessedMeansRelayed
<1>2. RelayedInv => ProcessedMeansRelayed
  BY DEF RelayedInv
<1> QED
  BY <1>1, <1>2, TypeInit, TypeStep, RelayedStep, PTL DEF Spec

-----------------------------------------------------------------------------
(* Exclusive claims and final settlement, while no live relay outlasts its *)
(* lock and no applied statement is reported as failed.                    *)

SoundLocks == "slow" \notin Faults /\ "dbReply" \notin Faults

\* The claims stay exclusive and fresh through every step.
LEMMA ClaimInvStep == ASSUME SoundLocks PROVE TypeOK /\ ClaimInv /\ [Next]_vars => ClaimInv'
<1> SUFFICES ASSUME TypeOK, ClaimInv, [Next]_vars PROVE ClaimInv'
  OBVIOUS
<1> USE DEF TypeOK, ClaimInv, ClaimExclusive, LoopOK, HeldIsProcessing, rows, Goto, Fault, EndPoll,
      SetRow, Settle, SoundLocks
<1>1. ASSUME NEW e \in Events, Record(e) PROVE ClaimInv'
  BY <1>1 DEF Record
<1>2. ASSUME NEW e \in Events, BecomeDue(e) \/ LockTimeout(e) PROVE ClaimInv'
  <2>1. \A r \in Relays : \A f \in claimed[r] : stale'[f] = stale[f]
    BY <1>2 DEF BecomeDue, LockTimeout, Held
  <2> QED
    BY <1>2, <2>1 DEF BecomeDue, LockTimeout
<1>3. ASSUME NEW r \in Relays, Reclaim(r) PROVE ClaimInv'
  BY <1>3 DEF Reclaim
<1>4. ASSUME NEW r \in Relays, Select(r) \/ ClaimDone(r) \/ BatchDone(r) \/ Crash(r) PROVE ClaimInv'
  BY <1>4 DEF Select, ClaimDone, BatchDone, Crash
<1>5. ASSUME NEW r \in Relays, Claim(r) PROVE ClaimInv'
  <2>1. PICK e \in candidates[r] :
           \/ EndPoll(r) /\ UNCHANGED rows
           \/ /\ status[e] # "pending"
              /\ UNCHANGED << rows, claimed, event, pc >>
           \/ /\ status[e] = "pending"
              /\ SetRow(e, "processing", due[e])
              /\ claimed' = [claimed EXCEPT ![r] = @ \cup {e}]
              /\ UNCHANGED << event, pc >>
    BY <1>5 DEF Claim
  <2>2. CASE UNCHANGED rows
    BY <2>1, <2>2
  <2>3. CASE /\ status[e] = "pending"
             /\ SetRow(e, "processing", due[e])
             /\ claimed' = [claimed EXCEPT ![r] = @ \cup {e}]
             /\ UNCHANGED << event, pc >>
    <3>1. e \in Events /\ \A s \in Relays : e \notin claimed[s]
      BY <2>3
    <3>2. ClaimExclusive' /\ LoopOK'
      BY <2>3, <3>1
    <3>3. HeldIsProcessing'
      BY <2>3, <3>1
    <3> QED
      BY <3>2, <3>3
  <2> QED
    BY <2>1, <2>2, <2>3
<1>6. ASSUME NEW r \in Relays, RelayEvent(r) PROVE ClaimInv'
  BY <1>6 DEF RelayEvent
<1>7. ASSUME NEW r \in Relays, MarkProcessed(r) \/ MarkFailed(r) PROVE ClaimInv'
  BY <1>7 DEF MarkProcessed, MarkFailed
<1>8. CASE UNCHANGED vars
  BY <1>8 DEF vars
<1> QED
  BY <1>1, <1>2, <1>3, <1>4, <1>5, <1>6, <1>7, <1>8 DEF Next, Relay

\* No relay holds a row at the start.
LEMMA ClaimInvInit == Init => ClaimInv
  BY DEF Init, ClaimInv, ClaimExclusive, LoopOK, HeldIsProcessing

\* The inductive invariant of the claims holds in every reachable state.
THEOREM ClaimInvHolds == ASSUME SoundLocks PROVE Spec => []ClaimInv
  BY TypeInit, TypeStep, ClaimInvInit, ClaimInvStep, PTL DEF Spec

\* No two relay processes ever hold the same event.
THEOREM ClaimsExclusive == ASSUME SoundLocks PROVE Spec => []ClaimExclusive
<1>1. ClaimInv => ClaimExclusive
  BY DEF ClaimInv
<1> QED
  BY <1>1, ClaimInvHolds, PTL

\* A processed event is never reopened.
THEOREM ProcessedIsFinal == ASSUME SoundLocks PROVE Spec => ProcessedFinal
<1>1. ASSUME TypeOK, ClaimInv, [Next]_vars
      PROVE \A e \in Events : status[e] = "processed" => status'[e] = "processed"
  <2> USE <1>1 DEF TypeOK, ClaimInv, LoopOK, HeldIsProcessing, rows, Goto, Fault, EndPoll, SetRow,
        Settle, SoundLocks
  <2> TAKE e \in Events
  <2> HAVE status[e] = "processed"
  <2>1. ASSUME NEW r \in Relays, MarkProcessed(r) PROVE status'[e] = "processed"
    BY <2>1 DEF MarkProcessed
  <2>2. ASSUME NEW r \in Relays, MarkFailed(r) PROVE status'[e] = "processed"
    BY <2>2 DEF MarkFailed
  <2>3. ASSUME NEW r \in Relays, Claim(r) \/ Reclaim(r) PROVE status'[e] = "processed"
    BY <2>3 DEF Claim, Reclaim
  <2>4. ASSUME NEW f \in Events, Record(f) PROVE status'[e] = "processed"
    BY <2>4 DEF Record
  <2>5. CASE UNCHANGED status
    BY <2>5
  <2> QED
    BY <2>1, <2>2, <2>3, <2>4, <2>5 DEF Next, Relay, vars, BecomeDue, LockTimeout, Crash, Select,
       ClaimDone, RelayEvent, BatchDone
<1>2. TypeOK /\ ClaimInv /\ [Next]_vars
        => [\A e \in Events : status[e] = "processed" => status'[e] = "processed"]_vars
  BY <1>1
<1> QED
  BY <1>2, ClaimInvHolds, TypeCorrect, PTL DEF Spec, ProcessedFinal

-----------------------------------------------------------------------------
(* Every repetition of an event is paid for by a fault, under every fault: *)
(* the relays of an event so far, the relays a process owes it and the one *)
(* its row still calls for are never more than one plus the faults.        *)

\* The relay holds the event and has not relayed it, or will hand it back.
Owes(r, e) == e \in claimed[r] /\ ~(pc[r] = "mark" /\ event[r] = e)
Owing(e) == { r \in Relays : Owes(r, e) }
\* The row itself calls for a relay: it waits, or nobody is going to settle it.
Open(e) ==
  \/ status[e] \in { "absent", "pending" }
  \/ status[e] = "processing" /\ (stale[e] \/ ~Held(e))
Count(b) == IF b THEN 1 ELSE 0
Owed(e) == relayed[e] + Cardinality(Owing(e)) + Count(Open(e))
AccountInv == LoopOK /\ \A e \in Events : Owed(e) <= 1 + used

\* A set of relays that changes by one relay changes its size by that one.
LEMMA OneRelay ==
  ASSUME NEW S, NEW T, S \subseteq Relays, T \subseteq Relays, NEW r \in Relays,
         \A q \in Relays : q # r => (q \in S <=> q \in T)
  PROVE  /\ Cardinality(S) \in Nat /\ Cardinality(T) \in Nat
         /\ Cardinality(T) + Count(r \in S) = Cardinality(S) + Count(r \in T)
<1>1. IsFiniteSet(S) /\ IsFiniteSet(T) /\ Cardinality(S) \in Nat /\ Cardinality(T) \in Nat
  BY FiniteRelays, FS_Subset, FS_CardinalityType
<1>2. CASE r \in S <=> r \in T
  <2>1. S = T
    BY <1>2
  <2> QED
    BY <1>1, <1>2, <2>1 DEF Count
<1>3. CASE r \in S /\ r \notin T
  <2>1. T = S \ {r}
    BY <1>3
  <2> QED
    BY <1>1, <1>3, <2>1, FS_RemoveElement DEF Count
<1>4. CASE r \notin S /\ r \in T
  <2>1. T = S \cup {r}
    BY <1>4
  <2> QED
    BY <1>1, <1>4, <2>1, FS_AddElement DEF Count
<1> QED
  BY <1>2, <1>3, <1>4

\* The relay loop is at a row it holds, also when its lock has been lost.
LEMMA LoopStep == TypeOK /\ LoopOK /\ [Next]_vars => LoopOK'
<1> SUFFICES ASSUME TypeOK, LoopOK, [Next]_vars PROVE LoopOK'
  OBVIOUS
<1> USE DEF TypeOK, LoopOK, Goto, EndPoll, Settle
<1>1. ASSUME NEW e \in Events, Record(e) \/ BecomeDue(e) \/ LockTimeout(e) PROVE LoopOK'
  BY <1>1 DEF Record, BecomeDue, LockTimeout
<1>2. ASSUME NEW r \in Relays, Reclaim(r) \/ Select(r) \/ ClaimDone(r) \/ BatchDone(r) \/ Crash(r)
      PROVE LoopOK'
  BY <1>2 DEF Reclaim, Select, ClaimDone, BatchDone, Crash
<1>3. ASSUME NEW r \in Relays, Claim(r) PROVE LoopOK'
  BY <1>3 DEF Claim
<1>4. ASSUME NEW r \in Relays, RelayEvent(r) PROVE LoopOK'
  BY <1>4 DEF RelayEvent
<1>5. ASSUME NEW r \in Relays, MarkProcessed(r) \/ MarkFailed(r) PROVE LoopOK'
  BY <1>5 DEF MarkProcessed, MarkFailed
<1>6. CASE UNCHANGED vars
  BY <1>6 DEF vars
<1> QED
  BY <1>1, <1>2, <1>3, <1>4, <1>5, <1>6 DEF Next, Relay

\* What the acting relay, the row and the history gain for an event is at
\* most what the step adds to the faults.
Balance(r, e) ==
  /\ \A q \in Relays : q # r => (Owes(q, e) <=> Owes(q, e)')
  /\ relayed'[e] + Count(Owes(r, e)') + Count(Open(e)') + used
       <= relayed[e] + Count(Owes(r, e)) + Count(Open(e)) + used'

\* A balanced step keeps the account.
LEMMA BalanceKeeps ==
  ASSUME TypeOK, TypeOK', NEW r \in Relays, NEW e \in Events, Balance(r, e), Owed(e) <= 1 + used
  PROVE  Owed(e)' <= 1 + used'
<1>1. /\ Cardinality(Owing(e)) \in Nat /\ Cardinality(Owing(e)') \in Nat
      /\ Cardinality(Owing(e)') + Count(r \in Owing(e)) = Cardinality(Owing(e)) + Count(r \in Owing(e)')
  <2>1. \A q \in Relays : q # r => (q \in Owing(e) <=> q \in Owing(e)')
    BY DEF Owing, Balance
  <2>2. Owing(e) \subseteq Relays /\ Owing(e)' \subseteq Relays
    BY DEF Owing
  <2> QED
    BY <2>1, <2>2, OneRelay
<1>2. (r \in Owing(e) <=> Owes(r, e)) /\ (r \in Owing(e)' <=> Owes(r, e)')
  BY DEF Owing
<1>3. relayed[e] \in Nat /\ relayed'[e] \in Nat /\ used \in Nat /\ used' \in Nat
  BY ConstantsOK DEF TypeOK
<1> QED
  BY <1>1, <1>2, <1>3 DEF Balance, Owed, Count

\* Ending a poll hands every event the relay owed back to the rows.
LEMMA EndPollBalance ==
  ASSUME TypeOK, NEW r \in Relays, EndPoll(r), NEW e \in Events,
         used' = used \/ used' = used + 1, relayed' = relayed,
         Open(e)' => Open(e) \/ Owes(r, e) \/ used' = used + 1
  PROVE  Balance(r, e)
<1>1. used \in Nat /\ relayed[e] \in Nat
  BY ConstantsOK DEF TypeOK
<1>2. \A q \in Relays : q # r => (Owes(q, e) <=> Owes(q, e)')
  BY DEF TypeOK, EndPoll, Goto, Owes
<1>3. ~Owes(r, e)'
  BY DEF TypeOK, EndPoll, Goto, Owes
<1> QED
  BY <1>1, <1>2, <1>3 DEF Balance, Count

\* Every step of a relay is balanced.
LEMMA RelayBalance ==
  ASSUME TypeOK, LoopOK, NEW r \in Relays, Relay(r) \/ Crash(r), NEW e \in Events
  PROVE  Balance(r, e)
<1>1. /\ used \in Nat /\ relayed[e] \in Nat
      /\ claimed \in [Relays -> SUBSET Events] /\ pc \in [Relays -> PC]
      /\ event \in [Relays -> Events \cup {0}] /\ status \in [Events -> Status]
  BY ConstantsOK DEF TypeOK
<1>2. ASSUME EndPoll(r), UNCHANGED << rows, relayed >>, used' = used + 1 \/ (used' = used /\ claimed[r] = {})
      PROVE Balance(r, e)
  <2>1. used' = used => (Held(e)' <=> Held(e))
    BY <1>1, <1>2 DEF EndPoll, Held
  <2>2. Open(e)' => Open(e) \/ used' = used + 1
    BY <1>2, <2>1 DEF Open, rows
  <2> QED
    BY <1>2, <2>2, EndPollBalance
<1>3. CASE Reclaim(r)
  <2>1. CASE /\ status' = [f \in Events |-> IF status[f] = "processing" /\ stale[f]
                                              THEN "pending" ELSE status[f]]
             /\ stale' = [f \in Events |-> FALSE]
             /\ Goto(r, "select")
             /\ UNCHANGED << due, candidates, claimed, event, used >>
    <3>1. \A q \in Relays : Owes(q, e)' <=> Owes(q, e)
      BY <1>1, <1>3, <2>1 DEF Reclaim, Goto, Owes
    <3>2. Open(e)' => Open(e)
      BY <1>1, <2>1 DEF Open, Held, Status
    <3> QED
      BY <1>1, <1>3, <2>1, <3>1, <3>2 DEF Balance, Count, Reclaim
  <2> QED
    BY <1>2, <1>3, <2>1 DEF Reclaim, Fault
<1>4. CASE Select(r)
  <2>1. CASE Goto(r, "claim") /\ UNCHANGED << claimed, event, used >>
    <3>1. \A q \in Relays : Owes(q, e)' <=> Owes(q, e)
      BY <1>1, <1>4, <2>1 DEF Select, Goto, Owes
    <3>2. Open(e)' <=> Open(e)
      BY <1>4, <2>1 DEF Select, Open, Held, rows
    <3> QED
      BY <1>1, <1>4, <2>1, <3>1, <3>2 DEF Balance, Count, Select
  <2> QED
    BY <1>2, <1>4, <2>1 DEF Select, Fault
<1>5. CASE Claim(r)
  <2>1. PICK f \in Events :
          \/ /\ status[f] = "pending"
             /\ SetRow(f, "processing", due[f])
             /\ \/ /\ claimed' = [claimed EXCEPT ![r] = @ \cup {f}]
                   /\ UNCHANGED << pc, event, used >>
                \/ Fault("dbReply") /\ EndPoll(r)
          \/ /\ status[f] # "pending"
             /\ UNCHANGED << rows, claimed, event, pc, used >>
          \/ Fault("db") /\ EndPoll(r) /\ UNCHANGED rows
    BY <1>1, <1>5 DEF Claim, TypeOK
  <2>2. relayed' = relayed /\ pc[r] = "claim"
    BY <1>5 DEF Claim
  <2>3. CASE /\ status[f] = "pending"
             /\ SetRow(f, "processing", due[f])
             /\ claimed' = [claimed EXCEPT ![r] = @ \cup {f}]
             /\ UNCHANGED << pc, event, used >>
    <3>1. \A q \in Relays : q # r => (Owes(q, e) <=> Owes(q, e)')
      BY <1>1, <2>3 DEF Owes
    <3>2. CASE e = f
      <4>1. Open(e) /\ ~Open(e)'
        <5>1. status'[e] = "processing" /\ ~stale'[e] /\ e \in claimed'[r]
          BY <1>1, <2>3, <3>2 DEF SetRow, TypeOK
        <5> QED
          BY <2>3, <3>2, <5>1 DEF Open, Held
      <4> QED
        BY <1>1, <2>2, <2>3, <3>1, <4>1 DEF Balance, Count
    <3>3. CASE e # f
      <4>1. Owes(r, e) <=> Owes(r, e)'
        BY <1>1, <2>3, <3>3 DEF Owes
      <4>2. Open(e)' <=> Open(e)
        <5>1. status'[e] = status[e] /\ stale'[e] = stale[e]
          BY <2>3, <3>3 DEF SetRow, TypeOK
        <5>2. Held(e)' <=> Held(e)
          BY <1>1, <2>3, <3>3 DEF Held
        <5> QED
          BY <5>1, <5>2 DEF Open
      <4> QED
        BY <1>1, <2>2, <2>3, <3>1, <4>1, <4>2 DEF Balance, Count
    <3> QED
      BY <3>2, <3>3
  <2>4. CASE Fault("dbReply") /\ EndPoll(r)
    BY <2>2, <2>4, EndPollBalance DEF Fault
  <2>5. CASE UNCHANGED << rows, claimed, event, pc, used >>
    <3>1. \A q \in Relays : Owes(q, e)' <=> Owes(q, e)
      BY <2>5 DEF Owes
    <3>2. Open(e)' <=> Open(e)
      BY <2>5 DEF Open, Held, rows
    <3> QED
      BY <1>1, <2>2, <2>5, <3>1, <3>2 DEF Balance, Count
  <2> QED
    BY <1>2, <2>1, <2>2, <2>3, <2>4, <2>5 DEF Fault
<1>6. CASE ClaimDone(r)
  <2>1. \A q \in Relays : Owes(q, e)' <=> Owes(q, e)
    BY <1>1, <1>6 DEF ClaimDone, Goto, Owes
  <2>2. Open(e)' <=> Open(e)
    BY <1>6 DEF ClaimDone, Open, Held, rows
  <2> QED
    BY <1>1, <1>6, <2>1, <2>2 DEF Balance, Count, ClaimDone
<1>7. CASE RelayEvent(r)
  <2>1. PICK f \in claimed[r] :
          /\ event' = [event EXCEPT ![r] = f]
          /\ \/ /\ relayed' = [relayed EXCEPT ![f] = @ + 1]
                /\ \/ Goto(r, "mark") /\ UNCHANGED used
                   \/ Fault("redis") /\ Goto(r, "fail")
             \/ Fault("redis") /\ Goto(r, "fail") /\ UNCHANGED relayed
    BY <1>7 DEF RelayEvent
  <2>2. pc[r] = "relay" /\ UNCHANGED << rows, claimed >>
    BY <1>7 DEF RelayEvent
  <2>3. \A q \in Relays : q # r => (Owes(q, e) <=> Owes(q, e)')
    BY <1>1, <2>1, <2>2 DEF Owes, Goto
  <2>4. Open(e)' <=> Open(e)
    BY <2>2 DEF Open, Held, rows
  <2>5. f \in Events /\ relayed \in [Events -> Nat]
    BY <1>1, <2>1 DEF TypeOK
  <2>6. CASE e = f
    <3>1. Owes(r, e)
      BY <2>1, <2>2, <2>6 DEF Owes
    <3>2. pc' = [pc EXCEPT ![r] = "mark"] => ~Owes(r, e)'
      BY <1>1, <2>1, <2>6 DEF Owes
    <3>3. relayed'[e] = relayed[e] \/ relayed'[e] = relayed[e] + 1
      BY <2>1, <2>5, <2>6
    <3>4. (pc' = [pc EXCEPT ![r] = "mark"] /\ used' = used) \/ used' = used + 1
      BY <2>1 DEF Goto, Fault
    <3> QED
      BY <1>1, <2>3, <2>4, <3>1, <3>2, <3>3, <3>4 DEF Balance, Count
  <2>7. CASE e # f
    <3>1. Owes(r, e) <=> Owes(r, e)'
      BY <1>1, <2>1, <2>2, <2>7 DEF Owes, Goto
    <3>2. relayed'[e] = relayed[e] /\ (used' = used \/ used' = used + 1)
      BY <2>1, <2>5, <2>7 DEF Fault
    <3> QED
      BY <1>1, <2>3, <2>4, <3>1, <3>2 DEF Balance, Count
  <2> QED
    BY <2>6, <2>7
<1>8. ASSUME Settle(r), pc[r] \in { "mark", "fail" }, NEW st \in { "pending", "processed" }, NEW d,
             SetRow(event[r], st, d), UNCHANGED << relayed, used >>, pc[r] = "mark" => st = "processed"
      PROVE Balance(r, e)
  <2>1. event[r] \in claimed[r] /\ event[r] \in Events
    BY <1>1, <1>8 DEF LoopOK
  <2>2. \A q \in Relays : q # r => (Owes(q, e) <=> Owes(q, e)')
    BY <1>1, <1>8 DEF Settle, Goto, Owes
  <2>3. CASE e = event[r]
    <3>1. ~Owes(r, e)' /\ (pc[r] = "fail" => Owes(r, e))
      BY <1>1, <1>8, <2>1, <2>3 DEF Settle, Owes
    <3>2. st = "processed" => ~Open(e)'
      BY <1>8, <2>1, <2>3 DEF SetRow, Open, TypeOK
    <3> QED
      BY <1>1, <1>8, <2>2, <3>1, <3>2 DEF Balance, Count
  <2>4. CASE e # event[r]
    <3>1. Owes(r, e) <=> Owes(r, e)'
      BY <1>1, <1>8, <2>1, <2>4 DEF Settle, Goto, Owes
    <3>2. Open(e)' <=> Open(e)
      <4>1. status'[e] = status[e] /\ stale'[e] = stale[e]
        BY <1>8, <2>4 DEF SetRow, TypeOK
      <4>2. Held(e)' <=> Held(e)
        BY <1>1, <1>8, <2>4 DEF Held, Settle
      <4> QED
        BY <4>1, <4>2 DEF Open
    <3> QED
      BY <1>1, <1>8, <2>2, <3>1, <3>2 DEF Balance, Count
  <2> QED
    BY <2>3, <2>4
<1>9. CASE MarkProcessed(r)
  <2>1. CASE SetRow(event[r], "processed", due[event[r]]) /\ Settle(r) /\ UNCHANGED used
    BY <1>8, <1>9, <2>1 DEF MarkProcessed
  <2>2. ASSUME Goto(r, "fail"), UNCHANGED << candidates, claimed, event, relayed >>, used' = used + 1,
               UNCHANGED rows \/ SetRow(event[r], "processed", due[event[r]])
        PROVE Balance(r, e)
    <3>1. \A q \in Relays : q # r => (Owes(q, e) <=> Owes(q, e)')
      BY <1>1, <2>2 DEF Goto, Owes
    <3>2. Open(e)' => Open(e)
      BY <1>1, <2>2 DEF Open, Held, rows, SetRow, TypeOK
    <3>3. Owes(r, e) \/ ~Owes(r, e)' \/ used' = used + 1
      BY <2>2
    <3> QED
      BY <1>1, <2>2, <3>1, <3>2 DEF Balance, Count
  <2> QED
    BY <1>9, <2>1, <2>2 DEF MarkProcessed, Fault
<1>10. CASE MarkFailed(r)
  <2>1. CASE SetRow(event[r], "pending", FALSE) /\ Settle(r) /\ UNCHANGED used
    BY <1>8, <1>10, <2>1 DEF MarkFailed
  <2>2. CASE EndPoll(r) /\ used' = used + 1
    BY <1>10, <2>2, EndPollBalance DEF MarkFailed
  <2> QED
    BY <1>10, <2>1, <2>2 DEF MarkFailed, Fault
<1>11. CASE BatchDone(r)
  BY <1>2, <1>11 DEF BatchDone
<1>12. CASE Crash(r)
  BY <1>2, <1>12 DEF Crash, Fault
<1> QED
  BY <1>3, <1>4, <1>5, <1>6, <1>7, <1>9, <1>10, <1>11, <1>12 DEF Relay

\* The recorder and the clock add nothing to an account but a counted fault.
LEMMA RowBalance ==
  ASSUME TypeOK, NEW f \in Events, Record(f) \/ BecomeDue(f) \/ LockTimeout(f), NEW e \in Events
  PROVE  /\ UNCHANGED << relayed, claimed, pc, event >>
         /\ Count(Open(e)') + used <= Count(Open(e)) + used'
<1>1. used \in Nat /\ status \in [Events -> Status] /\ stale \in [Events -> BOOLEAN]
  BY ConstantsOK DEF TypeOK
<1>2. UNCHANGED << relayed, claimed, pc, event >>
  BY DEF Record, BecomeDue, LockTimeout
<1>3. Held(e)' <=> Held(e)
  BY <1>2 DEF Held
<1>4. CASE Record(f) \/ BecomeDue(f)
  <2>1. Open(e)' => Open(e)
    BY <1>1, <1>3, <1>4 DEF Record, BecomeDue, SetRow, Open
  <2>2. used' = used
    BY <1>4 DEF Record, BecomeDue
  <2> QED
    BY <1>1, <1>2, <2>1, <2>2 DEF Count
<1>5. CASE LockTimeout(f)
  <2>1. used' = used \/ used' = used + 1
    BY <1>5 DEF LockTimeout, Fault
  <2>2. Open(e)' => Open(e) \/ used' = used + 1
    BY <1>1, <1>3, <1>5 DEF LockTimeout, Fault, Open
  <2> QED
    BY <1>1, <1>2, <2>1, <2>2 DEF Count
<1> QED
  BY <1>4, <1>5

\* The account of every event is kept by every step.
LEMMA AccountStep ==
  ASSUME TypeOK, TypeOK', AccountInv, [Next]_vars PROVE AccountInv'
<1>1. LoopOK'
  BY LoopStep DEF AccountInv
<1>2. ASSUME NEW e \in Events PROVE Owed(e)' <= 1 + used'
  <2>1. Owed(e) <= 1 + used
    BY DEF AccountInv
  <2>2. ASSUME NEW r \in Relays, Relay(r) \/ Crash(r) PROVE Owed(e)' <= 1 + used'
    BY <2>1, <2>2, RelayBalance, BalanceKeeps DEF AccountInv
  <2>3. ASSUME NEW f \in Events, Record(f) \/ BecomeDue(f) \/ LockTimeout(f)
        PROVE Owed(e)' <= 1 + used'
    <3>1. /\ UNCHANGED << relayed, claimed, pc, event >>
          /\ Count(Open(e)') + used <= Count(Open(e)) + used'
      BY <2>3, RowBalance
    <3>2. Owing(e)' = Owing(e)
      BY <3>1 DEF Owing, Owes
    <3>3. Cardinality(Owing(e)) \in Nat /\ relayed[e] \in Nat /\ used \in Nat /\ used' \in Nat
      <4>1. Owing(e) \subseteq Relays
        BY DEF Owing
      <4> QED
        BY <4>1, FiniteRelays, FS_Subset, FS_CardinalityType, ConstantsOK DEF TypeOK
    <3>4. Count(Open(e)) \in Nat /\ Count(Open(e)') \in Nat
      BY DEF Count
    <3>5. Owed(e)' = relayed[e] + Cardinality(Owing(e)) + Count(Open(e)')
      BY <3>1, <3>2 DEF Owed, Count
    <3> QED
      BY <2>1, <3>1, <3>3, <3>4, <3>5 DEF Owed
  <2>4. CASE UNCHANGED vars
    <3>1. UNCHANGED << Owing(e), Open(e), relayed, used >>
      BY <2>4 DEF vars, Owing, Owes, Open, Held
    <3> QED
      BY <2>1, <3>1 DEF Owed
  <2> QED
    BY <2>2, <2>3, <2>4 DEF Next
<1> QED
  BY <1>1, <1>2 DEF AccountInv

\* Every repetition of an event has its own fault, for any number of relay
\* processes and under every fault: also when a lock is outlasted, when a
\* statement is applied and reported as failed, and when both happen at once.
THEOREM DuplicatesPaidFor == Spec => []DuplicatesAccounted
<1>1. Init => AccountInv
  <2> SUFFICES ASSUME Init PROVE AccountInv
    OBVIOUS
  <2>1. LoopOK
    BY DEF Init, LoopOK
  <2>2. ASSUME NEW e \in Events PROVE Owed(e) <= 1 + used
    <3>1. Owing(e) = {}
      BY DEF Init, Owing, Owes
    <3>2. Cardinality(Owing(e)) = 0 /\ relayed[e] = 0 /\ used = 0
      BY <3>1, FS_EmptySet DEF Init
    <3> QED
      BY <3>2 DEF Owed, Count
  <2> QED
    BY <2>1, <2>2 DEF AccountInv
<1>2. TypeOK /\ TypeOK' /\ AccountInv /\ [Next]_vars => AccountInv'
  BY AccountStep
<1>3. TypeOK /\ AccountInv => DuplicatesAccounted
  <2> SUFFICES ASSUME TypeOK, AccountInv, NEW e \in Events PROVE relayed[e] <= 1 + used
    BY DEF DuplicatesAccounted
  <2>1. Owing(e) \subseteq Relays
    BY DEF Owing
  <2>2. Cardinality(Owing(e)) \in Nat /\ relayed[e] \in Nat /\ used \in Nat
    BY <2>1, FiniteRelays, FS_Subset, FS_CardinalityType, ConstantsOK DEF TypeOK
  <2>3. relayed[e] + Cardinality(Owing(e)) + Count(Open(e)) <= 1 + used
    BY DEF AccountInv, Owed
  <2> QED
    BY <2>2, <2>3 DEF Count
<1> QED
  BY <1>1, <1>2, <1>3, TypeInit, TypeStep, PTL DEF Spec
=============================================================================
