--------------------------- MODULE IngestionProofs ---------------------------
(***************************************************************************)
(* Proofs about Ingestion, for any number of processes, records, faults    *)
(* and any page, window and queue size.                                    *)
(***************************************************************************)
EXTENDS Ingestion, SequenceTheorems, TLAPS

StoredOK ==
  /\ tip \in 0..N
  /\ cursor \in {NoCursor} \cup 0..N
  /\ status \in { "active", "gap_detected" }
  /\ recorded \subseteq Payments
  /\ seed \in 0..N
DbOK == StoredOK /\ dropped \subseteq Records
KeyOK ==
  /\ lease \subseteq Streams /\ orphan \in BOOLEAN
  /\ draining \subseteq Procs /\ lapsed \subseteq Streams
ActorsOK ==
  /\ conn \in [Streams -> { "off", "noop", "wait", "ask", "seed", "open" }]
  /\ pass \in [Procs -> { "idle", "ask", "seed", "fetch", "page", "last", "stream" }]
  /\ pages \in [Procs -> 0..MaxPages]
  /\ pos \in [Actors -> 0..N]
  /\ todo \in [Actors -> Seq(Records)]
  /\ old \in [Streams -> Nat]
  /\ phase \in [Actors -> { "record", "gap", "fill" }]
  /\ fill \in [Actors -> Seq(Records)]
UsedOK == used \in 0..MaxFaults
\* A poll that still reads pages has not used them up.
PagesOK ==
  \A p \in Procs : pass[p] \in { "ask", "seed", "fetch", "page", "last" } => pages[p] < MaxPages
\* A ledger gap is recovered for the record in process.
PhaseOK == \A a \in Actors : phase[a] # "record" => Busy(a)

\* The type invariant, by groups of variables.
LEMMA TypeParts == TypeOK <=> DbOK /\ KeyOK /\ ActorsOK /\ UsedOK
  BY DEF TypeOK, StoredOK, DbOK, KeyOK, ActorsOK, UsedOK

\* Streams and polls are different actors.
LEMMA ActorsFacts ==
  /\ Streams \subseteq Actors
  /\ \A p \in Procs : Poll(p) \in Actors /\ Poll(p) \notin Streams /\ IsPoll(Poll(p)) /\ Poll(p)[1] = p
  /\ \A s \in Streams : ~IsPoll(s) /\ s[1] \in Procs
  /\ \A p \in Procs : << p, "boot" >> \in Streams /\ << p, "late" >> \in Streams
  /\ \A a \in Actors : IsPoll(a) => a[1] \in Procs /\ a = Poll(a[1])
  /\ \A a \in Actors : ~IsPoll(a) => a \in Streams
  BY DEF Actors, Streams, Poll, IsPoll

\* The initial state has its type.
LEMMA TypeInit == Init => TypeOK
<1> SUFFICES ASSUME Init PROVE TypeOK OBVIOUS
<1>1. DbOK /\ UsedOK
  BY ConstantsOK DEF Init, StoredOK, DbOK, UsedOK, NoCursor
<1>2. KeyOK
  BY DEF Init, KeyOK
<1>3. ActorsOK
  BY ConstantsOK DEF Init, ActorsOK
<1> QED
  BY <1>1, <1>2, <1>3, TypeParts

\* A counted fault stays within its bound.
LEMMA FaultType == ASSUME NEW k, UsedOK, Fault(k) PROVE UsedOK'
  BY ConstantsOK DEF Fault, UsedOK

\* A span of tokens is the sequence of the records between them.
LEMMA SpanFacts ==
  ASSUME NEW lo \in 0..N, NEW hi \in 0..N, lo <= hi
  PROVE  /\ Span(lo, hi) \in Seq(Records)
         /\ Len(Span(lo, hi)) = hi - lo
         /\ \A i \in 1..(hi - lo) : Span(lo, hi)[i] = lo + i
<1>0. N \in Nat /\ hi - lo \in Nat
  BY ConstantsOK
<1>1. \A i \in 1..(hi - lo) : lo + i \in Records
  BY <1>0 DEF Records
<1>2. Span(lo, hi) \in [1..(hi - lo) -> Records]
  BY <1>1 DEF Span
<1> QED
  BY <1>0, <1>2 DEF Span

\* A process that dies leaves the variables in their types.
LEMMA DieType ==
  ASSUME NEW p \in Procs, NEW left \in BOOLEAN, KeyOK, ActorsOK, Die(p, left)
  PROVE  KeyOK' /\ ActorsOK'
<1>1. KeyOK'
  BY DEF KeyOK, Die
<1>2. conn' \in [Streams -> { "off", "noop", "wait", "ask", "seed", "open" }] /\ old' \in [Streams -> Nat]
  BY DEF ActorsOK, Die
<1>3. pass' \in [Procs -> { "idle", "ask", "seed", "fetch", "page", "last", "stream" }] /\ pages' \in [Procs -> 0..MaxPages]
  BY ConstantsOK DEF ActorsOK, Die
<1>4. pos' \in [Actors -> 0..N]
  BY ConstantsOK DEF ActorsOK, Die
<1>5. todo' \in [Actors -> Seq(Records)] /\ fill' \in [Actors -> Seq(Records)]
  BY DEF ActorsOK, Die
<1>6. phase' \in [Actors -> { "record", "gap", "fill" }]
  BY DEF ActorsOK, Die
<1> QED
  BY <1>1, <1>2, <1>3, <1>4, <1>5, <1>6 DEF ActorsOK

\* So does an actor that is done with a record,
LEMMA DoneType ==
  ASSUME NEW a \in Actors, ActorsOK, Busy(a), Done(a)
  PROVE  ActorsOK'
<1>1. todo[a] \in Seq(Records) /\ todo[a] # << >>
  BY DEF ActorsOK, Busy
<1>a. Head(todo[a]) \in Records /\ Tail(todo[a]) \in Seq(Records)
  BY <1>1
<1>2. Head(todo[a]) \in 0..N /\ Tail(todo[a]) \in Seq(Records)
  BY <1>a, ConstantsOK DEF Records
<1>3. todo' \in [Actors -> Seq(Records)] /\ fill' \in [Actors -> Seq(Records)]
  BY <1>2 DEF ActorsOK, Done
<1>4. pos' \in [Actors -> 0..N]
  BY <1>2 DEF ActorsOK, Done, IsPoll
<1>5. old' \in [Streams -> Nat]
  <2>1. CASE IsPoll(a)
    BY <2>1 DEF ActorsOK, Done
  <2>2. CASE ~IsPoll(a)
    <3>1. a \in Streams /\ old[a] \in Nat
      BY <2>2, ActorsFacts DEF ActorsOK
    <3>2. Greater(0, old[a] - 1) \in Nat
      BY <3>1 DEF Greater
    <3>3. old' = [old EXCEPT ![a] = Greater(0, @ - 1)]
      BY <2>2 DEF Done, IsPoll
    <3> QED
      BY <3>1, <3>2, <3>3 DEF ActorsOK
  <2> QED
    BY <2>1, <2>2
<1>6. phase' \in [Actors -> { "record", "gap", "fill" }]
  BY DEF ActorsOK, Done
<1>7. UNCHANGED << conn, pass, pages >>
  BY DEF Done
<1> QED
  BY <1>3, <1>4, <1>5, <1>6, <1>7 DEF ActorsOK

\* a stream that restarts,
LEMMA RestartType ==
  ASSUME NEW s \in Streams, NEW q \in Seq(Records), ActorsOK, Restart(s, q)
  PROVE  /\ conn' \in [Streams -> { "off", "noop", "wait", "ask", "seed", "open" }]
         /\ todo' \in [Actors -> Seq(Records)]
         /\ old' \in [Streams -> Nat]
<1>1. Len(q) \in Nat
  OBVIOUS
<1> QED
  BY <1>1 DEF Restart, ActorsOK

\* and an actor whose record throws.
LEMMA FailType ==
  ASSUME NEW a \in Actors, KeyOK, ActorsOK, Busy(a), Fail(a)
  PROVE  /\ KeyOK' /\ ActorsOK'
         /\ dropped \subseteq Records => dropped' \subseteq Records
<1>0. Head(todo[a]) \in Records
  BY DEF ActorsOK, Busy
<1>1. CASE IsPoll(a)
  <2>1. Die(a[1], Holds(a[1])) /\ a[1] \in Procs
    BY <1>1, ActorsFacts DEF Fail
  <2>2. Holds(a[1]) \in BOOLEAN
    BY DEF Holds
  <2>3. UNCHANGED dropped
    BY <1>1 DEF Fail, IsPoll
  <2> QED
    BY <2>1, <2>2, <2>3, DieType
<1>2. CASE ~IsPoll(a)
  <2>1. a \in Streams
    BY <1>2, ActorsFacts
  <2>2. Tail(todo[a]) \in Seq(Records)
    BY DEF ActorsOK, Busy
  <2>3. /\ conn' \in [Streams -> { "off", "noop", "wait", "ask", "seed", "open" }]
        /\ todo' \in [Actors -> Seq(Records)]
        /\ old' \in [Streams -> Nat]
    <3>1. CASE old[a] = 0
      BY <1>2, <2>1, <2>2, <3>1, RestartType DEF Fail
    <3>2. CASE old[a] # 0
      <4>1. /\ todo' = [todo EXCEPT ![a] = Tail(@)]
            /\ old' = [old EXCEPT ![a] = @ - 1]
            /\ UNCHANGED conn
        BY <1>2, <3>2 DEF Fail, IsPoll
      <4>2. old[a] - 1 \in Nat
        BY <2>1, <3>2 DEF ActorsOK
      <4> QED
        BY <2>1, <2>2, <4>1, <4>2 DEF ActorsOK
    <3> QED
      BY <3>1, <3>2
  <2>a. UNCHANGED key
    BY <1>2 DEF Fail, IsPoll
  <2>b. KeyOK'
    BY <2>a, Zenon DEF KeyOK, key
  <2>4. phase' \in [Actors -> { "record", "gap", "fill" }] /\ fill' \in [Actors -> Seq(Records)]
    <3>1. phase' = [phase EXCEPT ![a] = "record"] /\ fill' = [fill EXCEPT ![a] = << >>]
      BY <1>2 DEF Fail, IsPoll
    <3> QED
      BY <3>1 DEF ActorsOK
  <2>5. UNCHANGED << pass, pages, pos >>
    BY <1>2 DEF Fail, IsPoll
  <2>6. dropped' = dropped \/ dropped' = dropped \cup {Head(todo[a])}
    BY <1>2 DEF Fail, IsPoll
  <2> QED
    BY <1>0, <2>3, <2>b, <2>4, <2>5, <2>6 DEF ActorsOK
<1> QED
  BY <1>1, <1>2

\* An actor that moves on takes a token Horizon has.
LEMMA MoveType ==
  ASSUME NEW a \in Actors, ActorsOK, NEW l \in { "ask", "seed", Ready(a) }, Move(a, l),
         NEW k \in 0..N, pos' = [pos EXCEPT ![a] = k],
         UNCHANGED << todo, old, phase, fill >>, pages' \in [Procs -> 0..MaxPages]
  PROVE  ActorsOK'
<1>1. CASE IsPoll(a)
  <2>1. pass' \in [Procs -> { "idle", "ask", "seed", "fetch", "page", "last", "stream" }] /\ UNCHANGED conn
    BY <1>1, ActorsFacts DEF Move, Ready, ActorsOK
  <2> QED
    BY <2>1 DEF ActorsOK
<1>2. CASE ~IsPoll(a)
  <2>1. conn' \in [Streams -> { "off", "noop", "wait", "ask", "seed", "open" }] /\ UNCHANGED pass
    BY <1>2, ActorsFacts DEF Move, Ready, ActorsOK
  <2> QED
    BY <2>1 DEF ActorsOK
<1> QED
  BY <1>1, <1>2

\* The token of the row, if there is one, is such a token.
LEMMA FindType ==
  ASSUME NEW a \in Actors, StoredOK, ActorsOK, FindCursor(a),
         UNCHANGED << todo, old, phase, fill >>, pages' \in [Procs -> 0..MaxPages]
  PROVE  ActorsOK'
<1>1. Greater(0, cursor) \in 0..N
  BY ConstantsOK DEF StoredOK, Greater, NoCursor
<1>2. PICK l \in { "ask", "seed", Ready(a) } : Move(a, l)
  BY DEF FindCursor
<1> QED
  BY <1>1, <1>2, MoveType DEF FindCursor

\* The transaction writes values of the right type.
LEMMA TransactionType ==
  ASSUME NEW r \in Payments, NEW gap \in BOOLEAN, StoredOK, Transaction(r, gap), tip' = tip
  PROVE  StoredOK'
<1>1. r \in 0..N
  BY ConstantsOK DEF Records
<1>2. recorded' \subseteq Payments
  BY DEF Transaction, Insert, StoredOK
<1> QED
  BY <1>1, <1>2 DEF Transaction, StoredOK

\* Every step of the pollers, the streams, Horizon and Redis keeps the types.
LEMMA TypeStep == TypeOK /\ PagesOK /\ PhaseOK /\ [Next]_vars => TypeOK'
<1> SUFFICES ASSUME DbOK, KeyOK, ActorsOK, UsedOK, PagesOK, PhaseOK, [Next]_vars
             PROVE  DbOK' /\ KeyOK' /\ ActorsOK' /\ UsedOK'
  BY DEF TypeOK, StoredOK, DbOK, KeyOK, ActorsOK, UsedOK
<1> DEFINE Goal == DbOK' /\ KeyOK' /\ ActorsOK' /\ UsedOK'
<1>a. ASSUME UNCHANGED << tip, db >> PROVE DbOK'
  BY <1>a, Zenon DEF db, stored, DbOK, StoredOK
<1>b. ASSUME UNCHANGED key PROVE KeyOK'
  BY <1>b, Zenon DEF key, KeyOK
<1>c. ASSUME UNCHANGED actors PROVE ActorsOK'
  BY <1>c, Zenon DEF actors, ActorsOK
<1>d. ASSUME UNCHANGED used PROVE UsedOK'
  BY <1>d, Zenon DEF UsedOK
<1>e. \A a \in Actors : todo[a] \in Seq(Records) /\ fill[a] \in Seq(Records)
  BY DEF ActorsOK
<1>1. ASSUME NewRecord PROVE Goal
  <2>1. DbOK'
    BY <1>1, ConstantsOK DEF NewRecord, DbOK, StoredOK, db, stored
  <2> QED
    BY <1>1, <2>1, <1>b, <1>c, <1>d DEF NewRecord
<1>2. ASSUME KeyExpire PROVE Goal
  <2>1. KeyOK'
    BY <1>2 DEF KeyExpire, KeyOK
  <2> QED
    BY <1>2, <2>1, <1>a, <1>c, <1>d DEF KeyExpire
<1>3. ASSUME LeaseLost PROVE Goal
  <2>1. KeyOK'
    <3>1. lease' = {} /\ UNCHANGED << orphan, draining >> /\ lapsed' = lapsed \cup lease
      BY <1>3 DEF LeaseLost
    <3> QED
      BY <3>1, Zenon DEF KeyOK
  <2>2. UsedOK'
    BY <1>3, FaultType DEF LeaseLost
  <2> QED
    BY <1>3, <2>1, <2>2, <1>a, <1>c DEF LeaseLost
<1>4. ASSUME NEW p \in Procs, Crash(p) PROVE Goal
  <2>1. PICK left \in BOOLEAN : Die(p, left)
    BY <1>4, Zenon DEF Crash, Holds
  <2>2. UsedOK'
    BY <1>4, FaultType DEF Crash
  <2> QED
    BY <1>4, <2>1, <2>2, DieType, <1>a DEF Crash
<1>4a. ASSUME NEW p \in Procs, Drain(p) PROVE Goal
  <2>1. KeyOK'
    BY <1>4a DEF Drain, KeyOK
  <2>2. UsedOK'
    BY <1>4a, FaultType DEF Drain
  <2> QED
    BY <1>4a, <2>1, <2>2, <1>a, <1>c DEF Drain
<1>4b. ASSUME NEW p \in Procs, Stop(p) PROVE Goal
  BY <1>4b, DieType, <1>a, <1>d DEF Stop
<1>5. ASSUME NEW p \in Procs, NEW s \in Streams, TakeLease(s),
             UNCHANGED << pages, pos, todo, old, phase, fill >>,
             pass' \in [Procs -> { "idle", "ask", "seed", "fetch", "page", "last", "stream" }]
      PROVE  KeyOK' /\ ActorsOK'
  <2>1. KeyOK'
    <3>1. CASE lease' = {s} /\ UNCHANGED << orphan, draining, lapsed >>
      BY <1>5, <3>1 DEF KeyOK
    <3> QED
      BY <3>1, <1>b, <1>5 DEF TakeLease
  <2>2. conn' \in [Streams -> { "off", "noop", "wait", "ask", "seed", "open" }]
    BY <1>5 DEF TakeLease, ActorsOK
  <2> QED
    BY <1>5, <2>1, <2>2 DEF ActorsOK
<1>6. ASSUME NEW p \in Procs, StartStream(p) PROVE Goal
  <2>1. << p, "boot" >> \in Streams
    BY ActorsFacts
  <2>2. KeyOK' /\ ActorsOK'
    BY <1>6, <2>1, <1>5 DEF StartStream, ActorsOK
  <2> QED
    BY <1>6, <2>2, <1>a, <1>d DEF StartStream
<1>7. ASSUME NEW p \in Procs, PollStart(p) PROVE Goal
  <2>1. Poll(p) \in Actors
    BY ActorsFacts
  <2>2. pages' \in [Procs -> 0..MaxPages]
    BY <1>7, ConstantsOK DEF PollStart, ActorsOK
  <2>3. ActorsOK'
    BY <1>7, <2>1, <2>2, FindType DEF PollStart, DbOK
  <2> QED
    BY <1>7, <2>3, <1>a, <1>b, <1>d DEF PollStart
<1>8. ASSUME NEW p \in Procs, Fetch(p) PROVE Goal
  <2>0. Poll(p) \in Actors /\ pos[Poll(p)] \in 0..N /\ tip \in 0..N
    BY ActorsFacts DEF ActorsOK, DbOK, StoredOK
  <2>1. CASE Fault("horizon") /\ GotoPass(p, "stream") /\ UNCHANGED << db, todo >>
    <3>1. UsedOK'
      BY <2>1, FaultType
    <3>2. ActorsOK'
      BY <1>8, <2>1 DEF Fetch, GotoPass, ActorsOK
    <3> QED
      BY <1>8, <2>1, <3>1, <3>2, <1>a, <1>b DEF Fetch
  <2>2. CASE /\ status' = "active"
             /\ GotoPass(p, "stream")
             /\ UNCHANGED << cursor, recorded, seed, dropped, todo, used >>
    <3>1. DbOK'
      BY <1>8, <2>2 DEF Fetch, DbOK, StoredOK
    <3>2. ActorsOK'
      BY <1>8, <2>2 DEF Fetch, GotoPass, ActorsOK
    <3> QED
      BY <1>8, <2>2, <3>1, <3>2, <1>b, <1>d DEF Fetch
  <2>3. CASE /\ pos[Poll(p)] < tip
             /\ todo' = [todo EXCEPT ![Poll(p)] = Span(pos[Poll(p)], Lesser(pos[Poll(p)] + PageSize, tip))]
             /\ GotoPass(p, IF tip - pos[Poll(p)] < PageSize THEN "last" ELSE "page")
             /\ UNCHANGED << db, used >>
    <3>1. PageSize \in Nat \ {0}
      BY ConstantsOK
    <3>2. Lesser(pos[Poll(p)] + PageSize, tip) \in 0..N /\ pos[Poll(p)] <= Lesser(pos[Poll(p)] + PageSize, tip)
      BY <2>0, <2>3, <3>1, ConstantsOK DEF Lesser
    <3>3. Span(pos[Poll(p)], Lesser(pos[Poll(p)] + PageSize, tip)) \in Seq(Records)
      BY <2>0, <3>2, SpanFacts
    <3>4. todo' \in [Actors -> Seq(Records)]
      BY <2>0, <2>3, <3>3 DEF ActorsOK
    <3>5. pass' \in [Procs -> { "idle", "ask", "seed", "fetch", "page", "last", "stream" }]
      BY <2>3 DEF GotoPass, ActorsOK
    <3>6. ActorsOK'
      BY <1>8, <3>4, <3>5 DEF Fetch, ActorsOK
    <3> QED
      BY <1>8, <2>3, <3>6, <1>a, <1>b, <1>d DEF Fetch
  <2> QED
    BY <1>8, <2>1, <2>2, <2>3 DEF Fetch
<1>9. ASSUME NEW p \in Procs, PageDone(p) PROVE Goal
  <2>1. pass' \in [Procs -> { "idle", "ask", "seed", "fetch", "page", "last", "stream" }]
    BY <1>9 DEF PageDone, GotoPass, ActorsOK
  <2>2. pages' \in [Procs -> 0..MaxPages]
    <3>1. pages[p] \in 0..MaxPages /\ pages[p] < MaxPages /\ MaxPages \in Nat
      BY <1>9, ConstantsOK DEF PageDone, ActorsOK, PagesOK
    <3>2. pages[p] + 1 \in 0..MaxPages
      BY <3>1
    <3> QED
      BY <1>9, <3>2 DEF PageDone, ActorsOK
  <2>3. ActorsOK'
    BY <1>9, <2>1, <2>2 DEF PageDone, ActorsOK
  <2> QED
    BY <1>9, <2>3, <1>a, <1>b, <1>d DEF PageDone
<1>10. ASSUME NEW p \in Procs, PollEnd(p) PROVE Goal
  <2>1. << p, "late" >> \in Streams
    BY ActorsFacts
  <2>2. pass' \in [Procs -> { "idle", "ask", "seed", "fetch", "page", "last", "stream" }]
    BY <1>10 DEF PollEnd, GotoPass, ActorsOK
  <2>3. CASE TakeLease(<< p, "late" >>)
    BY <1>10, <2>1, <2>2, <2>3, <1>5, <1>a, <1>d DEF PollEnd
  <2>4. CASE UNCHANGED << conn, key >>
    <3>1. ActorsOK'
      BY <1>10, <2>2, <2>4 DEF PollEnd, ActorsOK
    <3> QED
      BY <1>10, <2>4, <3>1, <1>a, <1>b, <1>d DEF PollEnd
  <2> QED
    BY <1>10, <2>3, <2>4 DEF PollEnd
<1>11. ASSUME NEW s \in Streams, Connect(s) PROVE Goal
  <2>1. s \in Actors
    BY ActorsFacts
  <2>2. ActorsOK'
    BY <1>11, <2>1, FindType DEF Connect, ActorsOK, DbOK
  <2> QED
    BY <1>11, <2>2, <1>a, <1>b, <1>d DEF Connect
<1>12. ASSUME NEW s \in Streams, Emit(s) PROVE Goal
  <2>1. s \in Actors /\ pos[s] \in 0..N /\ tip \in 0..N /\ todo[s] \in Seq(Records)
    BY ActorsFacts, <1>e DEF ActorsOK, DbOK, StoredOK
  <2>2. pos[s] + 1 \in 0..N /\ pos[s] + 1 \in Records
    <3>1. pos[s] < tip /\ N \in Nat
      BY <1>12, ConstantsOK DEF Emit
    <3> QED
      BY <2>1, <3>1 DEF Records
  <2>3. pos' \in [Actors -> 0..N]
    BY <1>12, <2>1, <2>2 DEF Emit, ActorsOK
  <2>4. /\ conn' \in [Streams -> { "off", "noop", "wait", "ask", "seed", "open" }]
        /\ todo' \in [Actors -> Seq(Records)]
        /\ old' \in [Streams -> Nat]
    <3>1. CASE Restart(s, todo[s])
      BY <2>1, <3>1, RestartType
    <3>2. CASE /\ todo' = [todo EXCEPT ![s] = Append(@, pos[s] + 1)]
               /\ UNCHANGED << conn, old >>
      <4>1. Append(todo[s], pos[s] + 1) \in Seq(Records)
        BY <2>1, <2>2
      <4> QED
        BY <2>1, <3>2, <4>1 DEF ActorsOK
    <3> QED
      BY <1>12, <3>1, <3>2 DEF Emit
  <2>5. ActorsOK'
    BY <1>12, <2>3, <2>4 DEF Emit, ActorsOK
  <2> QED
    BY <1>12, <2>5, <1>a, <1>b, <1>d DEF Emit
<1>13. ASSUME NEW s \in Streams, Heartbeat(s) PROVE Goal
  <2>1. UsedOK'
    BY <1>13, <1>d, FaultType DEF Heartbeat
  <2>2. ActorsOK'
    BY <1>13 DEF Heartbeat, ActorsOK
  <2> QED
    BY <1>13, <2>1, <2>2, <1>a, <1>b DEF Heartbeat
<1>14. ASSUME NEW a \in Actors, Ignore(a) PROVE Goal
  BY <1>14, DoneType, <1>a, <1>b, <1>d DEF Ignore
<1>15. ASSUME NEW a \in Actors, Commit(a) PROVE Goal
  <2>1. Head(todo[a]) \in Payments /\ HasGap(Head(todo[a])) \in BOOLEAN
    BY <1>15 DEF Commit, HasGap
  <2>2. StoredOK'
    BY <1>15, <2>1, TransactionType DEF Commit, DbOK
  <2>3. CASE Done(a) /\ UNCHANGED << key, dropped, used >>
    BY <1>15, <2>2, <2>3, DoneType, <1>b, <1>d DEF Commit, DbOK
  <2>4. CASE /\ phase' = [phase EXCEPT ![a] = "gap"]
             /\ UNCHANGED << key, dropped, conn, pass, pages, pos, todo, old, fill, used >>
    <3>1. ActorsOK'
      BY <2>4 DEF ActorsOK
    <3> QED
      BY <2>2, <2>4, <3>1, <1>b, <1>d DEF DbOK
  <2>5. CASE Fault("db") /\ Fail(a)
    BY <1>15, <2>2, <2>5, FailType, FaultType DEF Commit, DbOK
  <2> QED
    BY <1>15, <2>3, <2>4, <2>5 DEF Commit
<1>16. ASSUME NEW a \in Actors, Throw(a) PROVE Goal
  <2>1. Busy(a) /\ Fail(a) /\ UNCHANGED << tip, stored >>
    BY <1>16 DEF Throw, Working, Fail
  <2>2. UsedOK'
    BY <1>16, <1>d, FaultType DEF Throw
  <2>3. StoredOK'
    BY <2>1, Zenon DEF stored, StoredOK, DbOK
  <2> QED
    BY <2>1, <2>2, <2>3, FailType DEF DbOK
<1>17. ASSUME NEW a \in Actors, FetchRecent(a) PROVE Goal
  <2>1. Window \in Nat /\ tip \in 0..N /\ N \in Nat
    BY ConstantsOK DEF DbOK, StoredOK
  <2>2. Greater(0, tip - Window) \in 0..N /\ Greater(0, tip - Window) <= tip
    BY <2>1 DEF Greater
  <2>3. Span(Greater(0, tip - Window), tip) \in Seq(Records)
    BY <2>1, <2>2, SpanFacts
  <2>4. fill' \in [Actors -> Seq(Records)]
    <3>1. PICK f \in Seq(Records) : fill' = [fill EXCEPT ![a] = f]
      <4>1. << >> \in Seq(Records)
        OBVIOUS
      <4> QED
        BY <1>17, <2>3, <4>1, Zenon DEF FetchRecent
    <3> QED
      BY <3>1 DEF ActorsOK
  <2>5. ActorsOK'
    BY <1>17, <2>4 DEF FetchRecent, ActorsOK
  <2>6. UsedOK'
    BY <1>17, <1>d, FaultType DEF FetchRecent
  <2>7. DbOK'
    <3>1. StoredOK'
      BY <1>17, Zenon DEF FetchRecent, stored, StoredOK, DbOK
    <3>2. dropped' \subseteq Records
      BY <1>17, ConstantsOK DEF FetchRecent, DbOK
    <3> QED
      BY <3>1, <3>2 DEF DbOK
  <2> QED
    BY <1>17, <2>5, <2>6, <2>7, <1>b DEF FetchRecent
<1>18. ASSUME NEW a \in Actors, Backfill(a) PROVE Goal
  <2>1. DbOK'
    <3>1. CASE UNCHANGED stored
      BY <1>18, <3>1, <1>a DEF Backfill, db
    <3>2. CASE Head(fill[a]) \in Payments /\ Transaction(Head(fill[a]), FALSE)
      BY <1>18, <3>2, TransactionType DEF Backfill, DbOK
    <3> QED
      BY <1>18, <3>1, <3>2 DEF Backfill
  <2>2. Tail(fill[a]) \in Seq(Records)
    BY <1>18, <1>e DEF Backfill
  <2>3. ActorsOK'
    BY <1>18, <2>2 DEF Backfill, ActorsOK
  <2> QED
    BY <1>18, <2>1, <2>3, <1>b, <1>d DEF Backfill
<1>19. ASSUME NEW a \in Actors, ClearGap(a) PROVE Goal
  <2>1. DbOK'
    BY <1>19 DEF ClearGap, DbOK, StoredOK
  <2>2. Busy(a)
    BY <1>19 DEF ClearGap, PhaseOK
  <2> QED
    BY <1>19, <2>1, <2>2, DoneType, <1>b, <1>d DEF ClearGap
<1>19a. ASSUME NEW a \in Actors, Seeding(a) PROVE Goal
  <2>0. 0 \in 0..N /\ tip \in 0..N /\ pos[a] \in 0..N
    BY ConstantsOK DEF DbOK, StoredOK, ActorsOK
  <2>1. CASE AskLatest(a)
    <3>1. PICK k \in 0..N : pos' = [pos EXCEPT ![a] = k]
      BY <2>0, <2>1 DEF AskLatest
    <3>2. ActorsOK'
      BY <2>1, <3>1, MoveType DEF AskLatest, ActorsOK
    <3>3. UsedOK'
      BY <2>1, <1>d, FaultType DEF AskLatest
    <3> QED
      BY <2>1, <3>2, <3>3, <1>a, <1>b DEF AskLatest
  <2>2. CASE CreateCursor(a)
    <3>1. PICK k \in 0..N : pos' = [pos EXCEPT ![a] = k]
      <4>1. CASE UNCHANGED pos
        BY <2>0, <4>1 DEF ActorsOK
      <4>2. CASE cursor # NoCursor /\ pos' = [pos EXCEPT ![a] = cursor]
        BY <4>2 DEF DbOK, StoredOK
      <4> QED
        BY <2>2, <4>1, <4>2 DEF CreateCursor
    <3>2. ActorsOK'
      BY <2>2, <3>1, MoveType DEF CreateCursor, ActorsOK
    <3>3. DbOK'
      BY <2>0, <2>2 DEF CreateCursor, DbOK, StoredOK
    <3> QED
      BY <2>2, <3>2, <3>3, <1>b, <1>d DEF CreateCursor
  <2> QED
    BY <1>19a, <2>1, <2>2 DEF Seeding
<1>20. CASE UNCHANGED vars
  BY <1>20, <1>a, <1>b, <1>c, <1>d DEF vars
<1> QED
  BY <1>1, <1>2, <1>3, <1>4, <1>4a, <1>4b, <1>19a, <1>6, <1>7, <1>8, <1>9, <1>10, <1>11, <1>12, <1>13,
     <1>14, <1>15, <1>16, <1>17, <1>18, <1>19, <1>20
     DEF Next, Watcher, Stream, Process

\* The page count stays below its limit as long as pages are read.
LEMMA PagesStep == TypeOK /\ PagesOK /\ [Next]_vars => PagesOK'
<1> SUFFICES ASSUME ActorsOK, PagesOK, [Next]_vars PROVE PagesOK'
  BY TypeParts
<1>0. MaxPages \in Nat \ {0}
  BY ConstantsOK
<1>a. ASSUME UNCHANGED << pass, pages >> PROVE PagesOK'
  BY <1>a DEF PagesOK
<1>b. ASSUME NEW p \in Procs, NEW left, Die(p, left) PROVE PagesOK'
  BY <1>b DEF Die, PagesOK, ActorsOK
<1>c. ASSUME NEW a \in Actors, Fail(a) PROVE PagesOK'
  <2>1. CASE IsPoll(a)
    BY <1>b, <1>c, <2>1, ActorsFacts DEF Fail
  <2>2. CASE ~IsPoll(a)
    BY <1>a, <1>c, <2>2 DEF Fail
  <2> QED
    BY <2>1, <2>2
<1>1. CASE NewRecord \/ KeyExpire \/ LeaseLost
  BY <1>1, <1>a DEF NewRecord, KeyExpire, LeaseLost, actors
<1>2. ASSUME NEW p \in Procs, Watcher(p) \/ Crash(p) \/ Drain(p) \/ Stop(p) PROVE PagesOK'
  <2>1. CASE StartStream(p)
    BY <2>1, <1>a DEF StartStream
  <2>2. CASE PollStart(p)
    <3>1. PICK l : pass' = [pass EXCEPT ![p] = l]
      BY <2>2, ActorsFacts DEF PollStart, FindCursor, Move
    <3> QED
      BY <2>2, <3>1, <1>0 DEF PollStart, PagesOK, ActorsOK
  <2>3. CASE Fetch(p)
    <3>1. pass[p] = "fetch" /\ UNCHANGED pages
      BY <2>3 DEF Fetch
    <3>2. pass' = [pass EXCEPT ![p] = pass'[p]]
      BY <2>3 DEF Fetch, GotoPass, ActorsOK
    <3> QED
      BY <3>1, <3>2 DEF PagesOK, ActorsOK
  <2>4. CASE PageDone(p)
    BY <2>4 DEF PageDone, PagesOK, GotoPass, ActorsOK
  <2>5. CASE PollEnd(p)
    BY <2>5 DEF PollEnd, PagesOK, GotoPass, ActorsOK
  <2>6. CASE Crash(p) \/ Stop(p)
    BY <2>6, <1>b DEF Crash, Stop
  <2>7. CASE Drain(p)
    BY <2>7, <1>a DEF Drain, actors
  <2> QED
    BY <1>2, <2>1, <2>2, <2>3, <2>4, <2>5, <2>6, <2>7 DEF Watcher
<1>3. ASSUME NEW s \in Streams, Stream(s) PROVE PagesOK'
  BY <1>3, <1>a, ActorsFacts DEF Stream, Connect, FindCursor, Move, Emit, Heartbeat
<1>4. ASSUME NEW a \in Actors, Process(a) PROVE PagesOK'
  BY <1>4, <1>a, <1>c DEF Process, Ignore, Commit, Throw, FetchRecent, Backfill, ClearGap, Done
<1>4a. ASSUME NEW a \in Actors, Seeding(a) PROVE PagesOK'
  <2>1. UNCHANGED pages
    BY <1>4a DEF Seeding, AskLatest, CreateCursor
  <2>2. CASE ~IsPoll(a)
    BY <1>4a, <2>1, <2>2, <1>a DEF Seeding, AskLatest, CreateCursor, Move
  <2>3. CASE IsPoll(a)
    <3>1. a[1] \in Procs /\ pass[a[1]] \in { "ask", "seed" }
      BY <1>4a, <2>3, ActorsFacts DEF Seeding, AskLatest, CreateCursor, At
    <3>2. PICK l : pass' = [pass EXCEPT ![a[1]] = l]
      BY <1>4a, <2>3 DEF Seeding, AskLatest, CreateCursor, Move
    <3> QED
      BY <3>1, <3>2, <2>1 DEF PagesOK, ActorsOK
  <2> QED
    BY <2>2, <2>3
<1>5. CASE UNCHANGED vars
  BY <1>5, <1>a DEF vars, actors
<1> QED
  BY <1>1, <1>2, <1>3, <1>4, <1>4a, <1>5 DEF Next

\* An actor leaves a record only when it is done with the record's gap.
LEMMA PhaseStep == TypeOK /\ PhaseOK /\ [Next]_vars => PhaseOK'
<1> SUFFICES ASSUME DbOK, ActorsOK, PhaseOK, [Next]_vars PROVE PhaseOK'
  BY TypeParts
<1>a. ASSUME UNCHANGED << todo, phase >> PROVE PhaseOK'
  BY <1>a DEF PhaseOK, Busy
<1>b. ASSUME NEW p, NEW left, Die(p, left) PROVE PhaseOK'
  BY <1>b DEF Die, PhaseOK, Busy, ActorsOK
<1>c. ASSUME NEW a \in Actors, NEW q, todo' = [todo EXCEPT ![a] = q],
             phase' = [phase EXCEPT ![a] = "record"] PROVE PhaseOK'
  BY <1>c DEF PhaseOK, Busy, ActorsOK
<1>d. ASSUME NEW a \in Actors, Fail(a) PROVE PhaseOK'
  <2>1. CASE IsPoll(a)
    BY <1>b, <1>d, <2>1 DEF Fail
  <2>2. CASE ~IsPoll(a)
    <3>1. todo' = [todo EXCEPT ![a] = Tail(@)] /\ phase' = [phase EXCEPT ![a] = "record"]
      BY <1>d, <2>2 DEF Fail, Restart
    <3> QED
      BY <3>1, <1>c
  <2> QED
    BY <2>1, <2>2
<1>e. ASSUME NEW a \in Actors, NEW q, q # << >>, todo' = [todo EXCEPT ![a] = q], UNCHANGED phase
      PROVE  PhaseOK'
  BY <1>e DEF PhaseOK, Busy, ActorsOK
<1>1. CASE NewRecord \/ KeyExpire \/ LeaseLost
  BY <1>1, <1>a DEF NewRecord, KeyExpire, LeaseLost, actors
<1>2. ASSUME NEW p \in Procs, Watcher(p) \/ Crash(p) \/ Drain(p) \/ Stop(p) PROVE PhaseOK'
  <2>1. CASE StartStream(p) \/ PollStart(p) \/ PageDone(p) \/ PollEnd(p)
    BY <2>1, <1>a DEF StartStream, PollStart, PageDone, PollEnd
  <2>2. CASE Fetch(p)
    <3>1. CASE UNCHANGED todo
      BY <2>2, <3>1, <1>a DEF Fetch
    <3>2. CASE /\ pos[Poll(p)] < tip
               /\ todo' = [todo EXCEPT ![Poll(p)] = Span(pos[Poll(p)], Lesser(pos[Poll(p)] + PageSize, tip))]
      <4>0. Poll(p) \in Actors /\ pos[Poll(p)] \in 0..N /\ tip \in 0..N /\ PageSize \in Nat \ {0} /\ N \in Nat
        BY ActorsFacts, ConstantsOK DEF ActorsOK, DbOK, StoredOK
      <4>1. PICK lo \in 0..N, hi \in 0..N :
              lo = pos[Poll(p)] /\ hi = Lesser(pos[Poll(p)] + PageSize, tip) /\ lo < hi
        BY <4>0, <3>2 DEF Lesser
      <4> DEFINE q == Span(lo, hi)
      <4>a. lo <= hi
        BY <4>1
      <4>2. Len(q) = hi - lo
        BY <4>1, <4>a, SpanFacts, Zenon
      <4>3. q # << >>
        <5>1. Len(q) # 0
          BY <4>0, <4>1, <4>2
        <5>2. Len(<< >>) = 0
          OBVIOUS
        <5> QED
          BY <5>1, <5>2
      <4>4. todo' = [todo EXCEPT ![Poll(p)] = q] /\ UNCHANGED phase
        BY <2>2, <3>2, <4>1 DEF Fetch
      <4> HIDE DEF q
      <4> QED
        BY <4>0, <4>3, <4>4, <1>e
    <3> QED
      BY <2>2, <3>1, <3>2 DEF Fetch
  <2>3. CASE Crash(p) \/ Stop(p)
    BY <2>3, <1>b DEF Crash, Stop
  <2>4. CASE Drain(p)
    BY <2>4, <1>a DEF Drain, actors
  <2> QED
    BY <1>2, <2>1, <2>2, <2>3, <2>4 DEF Watcher
<1>3. ASSUME NEW s \in Streams, Stream(s) PROVE PhaseOK'
  <2>0. s \in Actors /\ todo[s] \in Seq(Records)
    BY ActorsFacts DEF ActorsOK
  <2>1. CASE Connect(s) \/ Heartbeat(s)
    BY <2>1, <1>a DEF Connect, Heartbeat
  <2>2. CASE Emit(s)
    <3>1. CASE todo' = [todo EXCEPT ![s] = Append(@, pos[s] + 1)]
      <4>1. Append(todo[s], pos[s] + 1) # << >>
        BY <2>0
      <4> QED
        BY <2>0, <2>2, <3>1, <4>1, <1>e DEF Emit
    <3>2. CASE todo' = [todo EXCEPT ![s] = todo[s]]
      <4>1. todo' = todo
        BY <2>0, <3>2 DEF ActorsOK
      <4> QED
        BY <2>2, <4>1, <1>a DEF Emit
    <3> QED
      BY <2>2, <3>1, <3>2 DEF Emit, Restart
  <2> QED
    BY <1>3, <2>1, <2>2 DEF Stream
<1>4. ASSUME NEW a \in Actors, Process(a) PROVE PhaseOK'
  <2>1. CASE Done(a)
    BY <2>1, <1>c DEF Done
  <2>2. CASE Fail(a)
    BY <2>2, <1>d
  <2>3. CASE Backfill(a)
    BY <2>3, <1>a DEF Backfill
  <2>4. ASSUME NEW l, Busy(a), phase' = [phase EXCEPT ![a] = l], UNCHANGED todo PROVE PhaseOK'
    BY <2>4 DEF PhaseOK, Busy, ActorsOK
  <2>5. CASE FetchRecent(a)
    BY <2>5, <2>4 DEF FetchRecent, PhaseOK
  <2>6. CASE Commit(a)
    BY <2>6, <2>1, <2>2, <2>4 DEF Commit
  <2> QED
    BY <1>4, <2>1, <2>2, <2>3, <2>5, <2>6 DEF Process, Ignore, Throw, ClearGap
<1>4a. ASSUME NEW a \in Actors, Seeding(a) PROVE PhaseOK'
  BY <1>4a, <1>a DEF Seeding, AskLatest, CreateCursor
<1>5. CASE UNCHANGED vars
  BY <1>5, <1>a DEF vars, actors
<1> QED
  BY <1>1, <1>2, <1>3, <1>4, <1>4a, <1>5 DEF Next

\* The type invariant and what makes it inductive.
TypeInv == TypeOK /\ PagesOK /\ PhaseOK

\* It holds of every reachable state.
LEMMA TypeInvHolds == Spec => []TypeInv
<1>1. Init => TypeInv
  <2> SUFFICES ASSUME Init PROVE PagesOK /\ PhaseOK
    BY TypeInit DEF TypeInv
  <2>1. PagesOK
    BY DEF Init, PagesOK
  <2>2. PhaseOK
    BY DEF Init, PhaseOK
  <2> QED
    BY <2>1, <2>2
<1>2. TypeInv /\ [Next]_vars => TypeInv'
  BY TypeStep, PagesStep, PhaseStep DEF TypeInv
<1> QED
  BY <1>1, <1>2, PTL DEF Spec

\* Every variable keeps its type, the page count and all history included.
THEOREM TypeCorrect == Spec => []TypeOK
  BY TypeInvHolds, PTL DEF TypeInv

(***************************************************************************)
(* The cursor                                                              *)
(***************************************************************************)
\* The transaction leaves a newer cursor alone.
LEMMA TransactionMonotonic ==
  ASSUME TypeOK, NEW r \in Payments, NEW gap, Transaction(r, gap) PROVE cursor' >= cursor
  BY ConstantsOK DEF Transaction, TypeOK, NoCursor, Records

\* No step moves the persisted token backwards.
THEOREM CursorNeverBack == Spec => CursorMonotonic
<1>1. TypeOK /\ [Next]_vars => [cursor' >= cursor]_vars
  <2> SUFFICES ASSUME TypeOK, [Next]_vars PROVE cursor' >= cursor
    OBVIOUS
  <2>0. ASSUME UNCHANGED cursor PROVE cursor' >= cursor
    BY <2>0, ConstantsOK DEF TypeOK, NoCursor
  <2>1. CASE NewRecord \/ KeyExpire \/ LeaseLost \/ UNCHANGED vars
    BY <2>1, <2>0 DEF NewRecord, KeyExpire, LeaseLost, db, stored, vars
  <2>2. ASSUME NEW p \in Procs, Watcher(p) \/ Crash(p) \/ Drain(p) \/ Stop(p) PROVE cursor' >= cursor
    BY <2>2, <2>0
       DEF Watcher, Crash, Drain, Stop, StartStream, PollStart, Fetch, PageDone, PollEnd, db, stored
  <2>3. ASSUME NEW s \in Streams, Stream(s) PROVE cursor' >= cursor
    BY <2>3, <2>0 DEF Stream, Connect, Emit, Heartbeat, db, stored
  <2>4. ASSUME NEW a \in Actors, Process(a) PROVE cursor' >= cursor
    BY <2>4, <2>0, TransactionMonotonic
       DEF Process, Ignore, Commit, Throw, FetchRecent, Backfill, ClearGap, db, stored
  <2>5. ASSUME NEW a \in Actors, Seeding(a) PROVE cursor' >= cursor
    <3>1. CASE UNCHANGED cursor
      BY <3>1, <2>0
    <3>2. CASE cursor = NoCursor /\ cursor' = pos[a]
      BY <3>2 DEF TypeOK, NoCursor
    <3> QED
      BY <2>5, <3>1, <3>2 DEF Seeding, AskLatest, CreateCursor, db, stored
  <2> QED
    BY <2>1, <2>2, <2>3, <2>4, <2>5 DEF Next
<1> QED
  BY <1>1, TypeCorrect, PTL DEF Spec, CursorMonotonic

(***************************************************************************)
(* The lease                                                               *)
(***************************************************************************)
\* A stream that is live holds the lease or is among those that lost it.
LEMMA LeaseStep == TypeInv /\ LeaseInv /\ [Next]_vars => LeaseInv'
<1> SUFFICES ASSUME TypeOK, PhaseOK, LeaseInv, [Next]_vars PROVE LeaseInv'
  BY DEF TypeInv
<1>a. ASSUME UNCHANGED << lease, lapsed >>,
             \A s \in Streams : (Live(s)' <=> Live(s)) /\ (Busy(s)' => Busy(s) \/ Live(s))
      PROVE  LeaseInv'
  BY <1>a DEF LeaseInv
<1>b. ASSUME NEW p, NEW left, Die(p, left) PROVE LeaseInv'
  <2>0. Streams \subseteq Actors
    BY ActorsFacts
  <2>1. ASSUME NEW s \in Streams, s \in Of(p) PROVE ~Live(s)' /\ ~Busy(s)'
    BY <1>b, <2>0, <2>1 DEF Die, Live, Busy
  <2>2. ASSUME NEW s \in Streams, s \notin Of(p) PROVE (Live(s)' <=> Live(s)) /\ (Busy(s)' <=> Busy(s))
    BY <1>b, <2>0, <2>2 DEF Die, Live, Busy
  <2>3. ASSUME NEW s \in Streams, s \notin Of(p), Live(s) PROVE lease' = {s} \/ s \in lapsed'
    BY <1>b, <2>3 DEF Die, LeaseInv
  <2> QED
    BY <2>1, <2>2, <2>3 DEF LeaseInv
<1>c. ASSUME NEW s \in Streams, NEW l, l \notin { "off", "noop" }, Live(s), conn' = [conn EXCEPT ![s] = l],
             UNCHANGED << lease, lapsed >>, \A t \in Streams : t # s => todo'[t] = todo[t]
      PROVE  LeaseInv'
  BY <1>c, <1>a DEF Live, Busy, TypeOK
<1>d. ASSUME UNCHANGED << key, conn, todo >> PROVE LeaseInv'
  BY <1>a, <1>d DEF Live, Busy, key
<1>e. ASSUME NEW a \in Actors, NEW l, l \notin { "off", "noop" }, Move(a, l), ~IsPoll(a) => Live(a),
             UNCHANGED << key, todo >>
      PROVE  LeaseInv'
  BY <1>c, <1>d, <1>e, ActorsFacts DEF Move, key
<1>f. ASSUME NEW s \in Streams, TakeLease(s), conn[s] = "off", UNCHANGED todo PROVE LeaseInv'
  <2>0. ~Busy(s) /\ \A t \in Streams : Busy(t)' <=> Busy(t)
    BY <1>f DEF Live, LeaseInv, Busy
  <2>1. CASE KeyFree /\ lease' = {s} /\ conn' = [conn EXCEPT ![s] = "wait"] /\ UNCHANGED lapsed
    <3>1. ASSUME NEW t \in Streams, t # s PROVE (Live(t)' <=> Live(t)) /\ (Live(t) => t \in lapsed')
      BY <2>1, <3>1 DEF Live, TypeOK, LeaseInv, KeyFree
    <3>2. Live(s)'
      BY <2>1 DEF Live, TypeOK
    <3> QED
      BY <2>0, <2>1, <3>1, <3>2 DEF LeaseInv
  <2>2. CASE conn' = [conn EXCEPT ![s] = "noop"] /\ UNCHANGED key
    <3>1. \A t \in Streams : Live(t)' <=> Live(t)
      BY <1>f, <2>2 DEF Live, TypeOK
    <3> QED
      BY <2>0, <2>2, <3>1, <1>a DEF key
  <2> QED
    BY <1>f, <2>1, <2>2 DEF TakeLease
<1>g. ASSUME NEW a \in Actors, Busy(a), Fail(a) PROVE LeaseInv'
  <2>1. CASE IsPoll(a)
    BY <1>g, <2>1, <1>b DEF Fail
  <2>2. CASE ~IsPoll(a)
    <3>0. a \in Streams /\ Live(a)
      BY <1>g, <2>2, ActorsFacts DEF LeaseInv
    <3>1. /\ UNCHANGED key /\ todo' = [todo EXCEPT ![a] = Tail(@)]
          /\ conn' = conn \/ conn' = [conn EXCEPT ![a] = "wait"]
      BY <1>g, <2>2 DEF Fail, Restart
    <3>2. \A t \in Streams : t # a => todo'[t] = todo[t]
      BY <3>1 DEF TypeOK
    <3>3. UNCHANGED << lease, lapsed >>
      BY <3>1 DEF key
    <3>4. CASE conn' = conn
      BY <3>0, <3>2, <3>3, <3>4, <1>a DEF Live, Busy
    <3>5. CASE conn' = [conn EXCEPT ![a] = "wait"]
      BY <3>0, <3>2, <3>3, <3>5, <1>c
    <3> QED
      BY <3>1, <3>4, <3>5
  <2> QED
    BY <2>1, <2>2
<1>h. ASSUME NEW a \in Actors, Busy(a), Done(a), UNCHANGED key PROVE LeaseInv'
  <2>1. todo' = [todo EXCEPT ![a] = Tail(@)] /\ UNCHANGED conn
    BY <1>h DEF Done
  <2>2. \A s \in Streams : Busy(s)' => Busy(s)
    BY <1>h, <2>1, ActorsFacts DEF Busy, TypeOK
  <2> QED
    BY <1>h, <2>1, <2>2, <1>a DEF Live, key
<1>1. CASE NewRecord \/ KeyExpire \/ UNCHANGED vars
  BY <1>1, <1>a DEF NewRecord, KeyExpire, vars, key, actors, Live, Busy
<1>2. CASE LeaseLost
  BY <1>2 DEF LeaseLost, actors, LeaseInv, Live, Busy
<1>3. ASSUME NEW p \in Procs, Drain(p) PROVE LeaseInv'
  <2>1. ASSUME NEW s \in Streams, Live(s) PROVE lease' = {s} \/ s \in lapsed'
    BY <1>3, <2>1 DEF Drain, LeaseInv
  <2> QED
    BY <1>3, <2>1 DEF Drain, actors, LeaseInv, Live, Busy
<1>4. ASSUME NEW p \in Procs, Crash(p) \/ Stop(p) PROVE LeaseInv'
  BY <1>4, <1>b DEF Crash, Stop
<1>5. ASSUME NEW p \in Procs, Watcher(p) PROVE LeaseInv'
  <2>0. << p, "boot" >> \in Streams /\ << p, "late" >> \in Streams /\ Poll(p) \in Actors /\ IsPoll(Poll(p))
    BY ActorsFacts
  <2>1. CASE StartStream(p)
    BY <2>0, <2>1, <1>f DEF StartStream
  <2>2. CASE PollStart(p)
    BY <2>0, <2>2, <1>e DEF PollStart, FindCursor, Ready
  <2>3. CASE Fetch(p)
    <3>1. \A s \in Streams : todo'[s] = todo[s]
      BY <2>3, ActorsFacts DEF Fetch, TypeOK
    <3>2. UNCHANGED << key, conn >>
      BY <2>3 DEF Fetch
    <3> QED
      BY <3>1, <3>2, <1>a DEF Live, Busy, key
  <2>4. CASE PageDone(p)
    BY <2>4, <1>d DEF PageDone
  <2>5. CASE PollEnd(p)
    BY <2>0, <2>5, <1>d, <1>f DEF PollEnd
  <2> QED
    BY <1>5, <2>1, <2>2, <2>3, <2>4, <2>5 DEF Watcher
<1>6. ASSUME NEW s \in Streams, Stream(s) PROVE LeaseInv'
  <2>0. s \in Actors /\ Live(s) /\ UNCHANGED << key, lease, lapsed >>
    BY <1>6, ActorsFacts DEF Stream, Connect, Emit, Heartbeat, Live, key
  <2>1. CASE Connect(s)
    BY <2>0, <2>1, <1>e DEF Connect, FindCursor, Ready
  <2>2. CASE Heartbeat(s)
    BY <2>0, <2>2, <1>c DEF Heartbeat
  <2>3. CASE Emit(s)
    <3>1. \A t \in Streams : t # s => todo'[t] = todo[t]
      BY <2>3, ActorsFacts DEF Emit, Restart, TypeOK
    <3>2. CASE conn' = conn
      BY <2>0, <3>1, <3>2, <1>a DEF Live, Busy
    <3>3. CASE conn' = [conn EXCEPT ![s] = "wait"]
      BY <2>0, <3>1, <3>3, <1>c
    <3> QED
      BY <2>3, <3>2, <3>3 DEF Emit, Restart
  <2> QED
    BY <1>6, <2>1, <2>2, <2>3 DEF Stream
<1>7. ASSUME NEW a \in Actors, Process(a) PROVE LeaseInv'
  <2>1. CASE Ignore(a)
    BY <2>1, <1>h DEF Ignore
  <2>2. CASE Commit(a)
    BY <2>2, <1>g, <1>d, <1>h DEF Commit
  <2>3. CASE Throw(a)
    BY <2>3, <1>g DEF Throw, Working
  <2>4. CASE FetchRecent(a) \/ Backfill(a)
    BY <2>4, <1>d DEF FetchRecent, Backfill
  <2>5. CASE ClearGap(a)
    BY <2>5, <1>h DEF ClearGap, PhaseOK
  <2> QED
    BY <1>7, <2>1, <2>2, <2>3, <2>4, <2>5 DEF Process
<1>8. ASSUME NEW a \in Actors, Seeding(a) PROVE LeaseInv'
  <2>1. ~IsPoll(a) => Live(a)
    BY <1>8 DEF Seeding, AskLatest, CreateCursor, At, Live
  <2>2. PICK l \in { "seed", Ready(a) } : Move(a, l)
    BY <1>8 DEF Seeding, AskLatest, CreateCursor
  <2>3. UNCHANGED << key, todo >>
    BY <1>8 DEF Seeding, AskLatest, CreateCursor
  <2> QED
    BY <2>1, <2>2, <2>3, <1>e DEF Ready
<1> QED
  BY <1>1, <1>2, <1>3, <1>4, <1>5, <1>6, <1>7, <1>8 DEF Next

\* Whoever streams holds the key, or goes on after it was lost or given up.
THEOREM LeaseInvHolds == Spec => []LeaseInv
<1>1. Init => LeaseInv
  BY ActorsFacts DEF Init, LeaseInv, Live, Busy
<1> QED
  BY <1>1, LeaseStep, TypeInvHolds, PTL DEF Spec

\* Two streams of one wallet overlap only when one goes on without its lease.
THEOREM StreamsExclusive == Spec => []OneStream
<1>1. LeaseInv => OneStream
  BY DEF LeaseInv, OneStream
<1> QED
  BY <1>1, LeaseInvHolds, PTL

(***************************************************************************)
(* Skipped payments                                                        *)
(***************************************************************************)
\* What is stored or explained stays so.
Grows ==
  /\ \A r \in Records : Covered(r) => Covered(r)'
  /\ seed <= seed'
\* A step of one actor; of the others at most streams are closed.
Only(a) ==
  \A b \in Actors : b # a =>
    /\ todo'[b] = todo[b] /\ fill'[b] = fill[b] /\ phase'[b] = phase[b] /\ pos'[b] = pos[b]
    /\ Reads(b)' => Reads(b)
    /\ IF IsPoll(b) THEN pass'[b[1]] = pass[b[1]] ELSE old'[b] = old[b]

\* The integers in play.
LEMMA Numbers ==
  ASSUME TypeOK
  PROVE  /\ N \in Nat /\ Window \in Nat \ {0} /\ PageSize \in Nat \ {0} /\ History \in 0..N
         /\ tip \in 0..N /\ seed \in 0..N /\ cursor \in Int
         /\ \A r \in Payments : r \in 1..N
         /\ \A a \in Actors : /\ pos[a] \in 0..N /\ todo[a] \in Seq(Records) /\ fill[a] \in Seq(Records)
                              /\ \A i \in 1..Len(todo[a]) : todo[a][i] \in 1..N
                              /\ \A i \in 1..Len(fill[a]) : fill[a][i] \in 1..N
<1>0. \A r \in Records : r \in 1..N
  BY DEF Records
<1>1. N \in Nat /\ Window \in Nat \ {0} /\ PageSize \in Nat \ {0} /\ History \in 0..N /\ Payments \subseteq 1..N
  BY ConstantsOK DEF Records
<1>2. tip \in 0..N /\ seed \in 0..N /\ cursor \in Int
  BY <1>1 DEF TypeOK, NoCursor
<1>3. ASSUME NEW a \in Actors
      PROVE  pos[a] \in 0..N /\ todo[a] \in Seq(Records) /\ fill[a] \in Seq(Records)
  BY <1>3 DEF TypeOK
<1>4. ASSUME NEW q \in Seq(Records) PROVE \A i \in 1..Len(q) : q[i] \in Records
  BY <1>4
<1> QED
  BY <1>0, <1>1, <1>2, <1>3, <1>4

\* Those of a step.
LEMMA StepNumbers ==
  ASSUME TypeOK, TypeOK'
  PROVE  seed \in Int /\ seed' \in Int /\ \A r \in Payments : r \in Int /\ r \in Records
  BY ConstantsOK DEF TypeOK, Records

\* The tail of a sequence, by positions.
LEMMA TailFacts ==
  ASSUME NEW q \in Seq(Records), q # << >>
  PROVE  /\ Tail(q) \in Seq(Records) /\ Len(q) \in Nat \ {0} /\ Len(Tail(q)) = Len(q) - 1
         /\ \A i \in 1..Len(Tail(q)) : Tail(q)[i] = q[i + 1]
         /\ Head(q) = q[1] /\ 1 \in 1..Len(q) /\ Head(q) \in Records
<1>1. Len(q) \in Nat /\ Len(q) # 0
  OBVIOUS
<1>2. Tail(q) \in Seq(Records) /\ Len(Tail(q)) = Len(q) - 1 /\ Head(q) = q[1]
  OBVIOUS
<1>3. ASSUME NEW i \in 1..Len(Tail(q)) PROVE Tail(q)[i] = q[i + 1]
  BY <1>1, <1>2, <1>3
<1>4. 1 \in 1..Len(q) /\ q[1] \in Records
  BY <1>1
<1> QED
  BY <1>1, <1>2, <1>3, <1>4

\* Everything before the head is stored.
LEMMA HeadFollows ==
  ASSUME TypeOK, NEW q \in Seq(Records), q # << >>, Follows(q), NEW r \in Payments, seed < r, r < Head(q)
  PROVE  Covered(r)
<1>1. Head(q) = q[1] /\ 1 \in 1..Len(q)
  BY TailFacts
<1>2. ~\E k \in 1..(1 - 1) : q[k] = r
  OBVIOUS
<1> QED
  BY <1>1, <1>2 DEF Follows

\* An earlier sequence goes on following.
LEMMA FollowsLater ==
  ASSUME TypeOK, TypeOK', Grows, NEW q, Follows(q) PROVE Follows(q)'
<1>1. \A r \in Payments : seed' < r => seed < r
  BY Numbers DEF Grows, TypeOK
<1>2. Payments \subseteq Records
  BY ConstantsOK
<1> QED
  BY <1>1, <1>2 DEF Follows, Grows

\* So does its tail, once the head is stored.
LEMMA FollowsTail ==
  ASSUME TypeOK, TypeOK', Grows, NEW q \in Seq(Records), q # << >>, Follows(q),
         Head(q) \in Payments => Covered(Head(q))'
  PROVE  Follows(Tail(q))'
<1> DEFINE t == Tail(q)
<1>1. SUFFICES ASSUME NEW i \in 1..Len(t), NEW r \in Payments, seed' < r, r < t[i], ~Covered(r)'
               PROVE  \E k \in 1..(i - 1) : t[k] = r
  BY DEF Follows
<1>2. /\ Len(q) \in Nat /\ Len(t) = Len(q) - 1 /\ Head(q) = q[1]
      /\ \A k \in 1..Len(t) : t[k] = q[k + 1]
  BY TailFacts
<1>3. Follows(q)'
  BY FollowsLater
<1>4. i + 1 \in 1..Len(q) /\ r < q[i + 1] /\ i \in Int
  BY <1>1, <1>2
<1>5. PICK k \in 1..((i + 1) - 1) : q[k] = r
  BY <1>1, <1>3, <1>4 DEF Follows
<1>6. k # 1
  BY <1>1, <1>2, <1>5
<1>7. k - 1 \in 1..(i - 1) /\ k - 1 \in 1..Len(t) /\ (k - 1) + 1 = k
  BY <1>2, <1>4, <1>5, <1>6
<1> QED
  BY <1>2, <1>5, <1>7

\* A page that starts where all is stored.
LEMMA FollowsSpan ==
  ASSUME TypeOK', NEW lo \in 0..N, NEW hi \in 0..N, lo <= hi, AllBelow(lo)', NEW q, q = Span(lo, hi)
  PROVE  Follows(q)'
<1>1. SUFFICES ASSUME NEW i \in 1..Len(q), NEW r \in Payments, seed' < r, r < q[i], ~Covered(r)'
               PROVE  \E k \in 1..(i - 1) : q[k] = r
  BY DEF Follows
<1>2. Len(q) = hi - lo /\ \A k \in 1..(hi - lo) : q[k] = lo + k
  BY SpanFacts
<1>3. r \in 1..N /\ N \in Nat
  BY ConstantsOK DEF Records
<1>4. lo < r
  BY <1>1, <1>3 DEF AllBelow
<1>5. r - lo \in 1..(i - 1) /\ r - lo \in 1..(hi - lo)
  BY <1>1, <1>2, <1>3, <1>4
<1>6. q[r - lo] = r
  BY <1>2, <1>3, <1>5
<1> QED
  BY <1>5, <1>6

\* The actors that do not move.
LEMMA SkipOthers ==
  ASSUME TypeOK, TypeOK', Grows, NEW b \in Actors, ActorInv(b),
         todo'[b] = todo[b], fill'[b] = fill[b], phase'[b] = phase[b], pos'[b] = pos[b], Reads(b)' => Reads(b),
         IF IsPoll(b) THEN pass'[b[1]] = pass[b[1]] ELSE old'[b] = old[b]
  PROVE  ActorInv(b)'
<1>1. Follows(todo[b])' /\ Follows(fill[b])'
  <2>1. PICK q, f : q = todo[b] /\ f = fill[b]
    OBVIOUS
  <2>2. Follows(q) /\ Follows(f)
    BY <2>1 DEF ActorInv
  <2>3. Follows(q)' /\ Follows(f)'
    BY <2>2, FollowsLater
  <2> QED
    BY <2>1, <2>3 DEF Follows
<1>2. (phase[b] # "record" => Busy(b) /\ Covered(Head(todo[b])))'
  <2>1. ASSUME phase[b] # "record" PROVE Busy(b) /\ Covered(Head(todo[b])) /\ Head(todo[b]) \in Records
    BY <2>1, Numbers, TailFacts DEF ActorInv, Busy
  <2>2. PICK h : h = Head(todo[b])
    OBVIOUS
  <2>3. phase[b] # "record" => Covered(h)'
    BY <2>1, <2>2 DEF Grows
  <2> QED
    BY <2>1, <2>2, <2>3 DEF Busy, Covered, Stored
<1>3. (Reads(b) => \A r \in Payments : seed < r /\ r <= pos[b] => Covered(r) \/ Waiting(b, r))'
  <2> SUFFICES ASSUME Reads(b)', NEW r \in Payments, seed' < r, r <= pos'[b], ~Covered(r)'
               PROVE  Waiting(b, r)'
    OBVIOUS
  <2>1. seed < r /\ r <= pos[b] /\ ~Covered(r) /\ Reads(b)
    <3>1. seed \in Int /\ seed' \in Int /\ r \in Int /\ r \in Records
      BY StepNumbers
    <3> QED
      BY <3>1 DEF Grows
  <2>2. Waiting(b, r)
    BY <2>1 DEF ActorInv
  <2> QED
    BY <2>2 DEF Waiting
<1>4. (IF IsPoll(b) THEN Busy(b) => At(b) \in { "page", "last" } ELSE old[b] <= Len(todo[b]))'
  BY DEF ActorInv, Busy, At
<1> QED
  BY <1>1, <1>2, <1>3, <1>4 DEF ActorInv

\* One actor moves, and keeps its part.
LEMMA SkipOne ==
  ASSUME TypeOK, TypeOK', SkipInv, Grows, NEW a \in Actors, Only(a), ActorInv(a)',
         SkipsExplained', cursor' = NoCursor => seed' = 0
  PROVE  SkipInv'
<1>1. ASSUME NEW b \in Actors, b # a PROVE ActorInv(b)'
  BY <1>1, SkipOthers DEF Only, SkipInv
<1> QED
  BY <1>1 DEF SkipInv

\* A step that stores nothing new.
LEMMA SkipStored ==
  ASSUME TypeOK, SkipInv, UNCHANGED stored, dropped \subseteq dropped'
  PROVE  Grows /\ SkipsExplained' /\ (cursor' = NoCursor => seed' = 0)
<1>1. \A r : Covered(r) => Covered(r)'
  BY DEF Covered, Stored, stored
<1>2. UNCHANGED << cursor, seed >>
  BY DEF stored
<1> QED
  BY <1>1, <1>2, Numbers, ConstantsOK DEF Grows, SkipInv, SkipsExplained, AllBelow, Records

\* The transaction of a record that everything is stored before.
LEMMA SkipTransaction ==
  ASSUME TypeOK, SkipInv, NEW q \in Seq(Records), q # << >>, Follows(q), Head(q) \in Payments,
         NEW gap, Transaction(Head(q), gap), dropped \subseteq dropped'
  PROVE  /\ Grows /\ SkipsExplained' /\ (cursor' = NoCursor => seed' = 0)
         /\ Covered(Head(q))'
<1> DEFINE h == Head(q)
<1>0. h \in Records /\ h \in Payments /\ N \in Nat /\ Records = 1..N /\ Payments \subseteq Records
  BY TailFacts, ConstantsOK DEF Records
<1>1. seed' = seed /\ seed \in Int
  BY Numbers DEF Transaction
<1>2. \A r : Covered(r) => Covered(r)'
  BY DEF Transaction, Insert, Covered, Stored
<1>3. Covered(h)'
  BY DEF Transaction, Insert, Covered, Stored
<1>4. \A r \in Payments : seed < r /\ r < h => Covered(r)
  BY HeadFollows
<1>5. SkipsExplained'
  <2>1. CASE cursor' = h
    <3>1. ASSUME NEW r \in Payments, seed' < r, r <= cursor' PROVE Covered(r)'
      <4>1. CASE r = h
        BY <4>1, <1>3
      <4>2. CASE r # h
        BY <1>0, <1>1, <1>2, <1>4, <2>1, <3>1, <4>2
      <4> QED
        BY <4>1, <4>2
    <3> QED
      BY <3>1 DEF SkipsExplained, AllBelow
  <2>2. CASE cursor' = cursor
    BY <1>1, <1>2, <2>2 DEF SkipInv, SkipsExplained, AllBelow
  <2> QED
    BY <2>1, <2>2 DEF Transaction
<1>6. cursor' = NoCursor => seed' = 0
  BY <1>0, <1>1 DEF Transaction, SkipInv, NoCursor
<1> QED
  BY <1>1, <1>2, <1>3, <1>5, <1>6 DEF Grows

\* An actor done with a record that is stored, or is no payment.
LEMMA SkipDone ==
  ASSUME TypeOK, TypeOK', SkipInv, Grows, SkipsExplained', cursor' = NoCursor => seed' = 0,
         NEW a \in Actors, Busy(a), Done(a),
         NEW h, h = Head(todo[a]), h \in Payments => Covered(h)'
  PROVE  SkipInv'
<1> DEFINE q == todo[a]
<1>0. q \in Seq(Records) /\ q # << >> /\ Follows(q) /\ ActorInv(a)
  BY Numbers DEF Busy, SkipInv, ActorInv
<1>1. /\ todo' = [todo EXCEPT ![a] = Tail(@)]
      /\ phase' = [phase EXCEPT ![a] = "record"]
      /\ fill' = [fill EXCEPT ![a] = << >>]
      /\ pos' = IF IsPoll(a) THEN [pos EXCEPT ![a] = Head(todo[a])] ELSE pos
      /\ old' = IF IsPoll(a) THEN old ELSE [old EXCEPT ![a] = Greater(0, @ - 1)]
      /\ UNCHANGED << conn, pass, pages >>
  BY DEF Done
<1>2. Only(a)
  BY <1>1, ActorsFacts DEF Only, TypeOK, Reads, At
<1>3. /\ todo'[a] = Tail(q) /\ phase'[a] = "record" /\ fill'[a] = << >>
      /\ IsPoll(a) => pos'[a] = Head(q)
      /\ ~IsPoll(a) => pos'[a] = pos[a] /\ old'[a] = Greater(0, old[a] - 1) /\ old[a] \in Nat
  BY <1>1, ActorsFacts DEF TypeOK
<1>4. /\ Len(q) \in Nat \ {0} /\ Len(Tail(q)) = Len(q) - 1 /\ Head(q) = q[1] /\ Head(q) \in Records
      /\ \A i \in 1..Len(Tail(q)) : Tail(q)[i] = q[i + 1]
  BY <1>0, TailFacts
<1>5. Follows(todo[a])' /\ Follows(fill[a])'
  <2>1. PICK c \in Seq(Records) : c = q
    BY <1>0
  <2>2. Head(c) \in Payments => Covered(Head(c))'
    BY <2>1
  <2>3. Follows(Tail(c))'
    BY <1>0, <2>1, <2>2, FollowsTail
  <2>4. todo'[a] = Tail(c) /\ fill'[a] = << >>
    BY <1>3, <2>1
  <2>5. Follows(todo[a])'
    BY <2>3, <2>4 DEF Follows
  <2>6. Follows(fill[a])'
    BY <2>4 DEF Follows
  <2> QED
    BY <2>5, <2>6
<1>6. (Reads(a) => \A r \in Payments : seed < r /\ r <= pos[a] => Covered(r) \/ Waiting(a, r))'
  <2> SUFFICES ASSUME Reads(a)', NEW r \in Payments, seed' < r, r <= pos'[a], ~Covered(r)'
               PROVE  Waiting(a, r)'
    OBVIOUS
  <2>1. seed < r /\ ~Covered(r) /\ Reads(a) /\ r # Head(q) /\ r \in Int
    <3>1. seed \in Int /\ seed' \in Int /\ r \in Int /\ r \in Records
      BY StepNumbers
    <3>2. r # Head(q)
      OBVIOUS
    <3> QED
      BY <1>1, <3>1, <3>2 DEF Grows, Reads, At
  <2>2. CASE IsPoll(a)
    <3>1. r < Head(q)
      BY <1>3, <1>4, <2>1, <2>2 DEF Records
    <3> QED
      BY <1>0, <2>1, <3>1, HeadFollows
  <2>3. CASE ~IsPoll(a)
    <3>1. Waiting(a, r)
      BY <1>0, <1>3, <2>1, <2>3 DEF ActorInv
    <3>2. PICK i \in 1..Len(q) : old[a] < i /\ q[i] = r
      BY <3>1 DEF Waiting
    <3>3. i # 1
      BY <1>4, <2>1, <3>2
    <3>4. i - 1 \in 1..Len(Tail(q)) /\ (i - 1) + 1 = i /\ old'[a] < i - 1
      BY <1>3, <1>4, <2>3, <3>2, <3>3 DEF Greater
    <3>5. todo'[a][i - 1] = r
      BY <1>3, <1>4, <3>2, <3>4
    <3> QED
      BY <1>3, <2>3, <3>4, <3>5 DEF Waiting
  <2> QED
    BY <2>2, <2>3
<1>7. (IF IsPoll(a) THEN Busy(a) => At(a) \in { "page", "last" } ELSE old[a] <= Len(todo[a]))'
  BY <1>0, <1>1, <1>3, <1>4 DEF ActorInv, Busy, At, Greater
<1>8. ActorInv(a)'
  BY <1>3, <1>5, <1>6, <1>7 DEF ActorInv
<1> QED
  BY <1>2, <1>8, SkipOne

\* A process that dies takes what it has read with it.
LEMMA SkipDie ==
  ASSUME TypeOK, TypeOK', SkipInv, Grows, SkipsExplained', cursor' = NoCursor => seed' = 0,
         NEW p \in Procs, NEW left, Die(p, left)
  PROVE  SkipInv'
<1>1. ASSUME NEW b \in Actors, b \in Of(p) PROVE ActorInv(b)'
  <2>1. todo'[b] = << >> /\ fill'[b] = << >> /\ phase'[b] = "record"
    BY <1>1 DEF Die
  <2>2. b[1] = p
    BY <1>1 DEF Of
  <2>3. ~Reads(b)'
    <3>1. CASE IsPoll(b)
      BY <2>2, <3>1 DEF Die, Reads, At, TypeOK
    <3>2. CASE ~IsPoll(b)
      BY <1>1, <3>2, ActorsFacts DEF Die, Reads, At
    <3> QED
      BY <3>1, <3>2
  <2>4. ~IsPoll(b) => old'[b] = 0
    BY <1>1, ActorsFacts DEF Die
  <2> QED
    BY <2>1, <2>3, <2>4 DEF ActorInv, Follows, Busy
<1>2. ASSUME NEW b \in Actors, b \notin Of(p) PROVE ActorInv(b)'
  <2>1. todo'[b] = todo[b] /\ fill'[b] = fill[b] /\ phase'[b] = phase[b] /\ pos'[b] = pos[b]
    BY <1>2 DEF Die
  <2>2. b[1] # p
    BY <1>2 DEF Of
  <2>3. IF IsPoll(b) THEN pass'[b[1]] = pass[b[1]] ELSE old'[b] = old[b] /\ conn'[b] = conn[b]
    BY <1>2, <2>2, ActorsFacts DEF Die, TypeOK
  <2>4. Reads(b)' => Reads(b)
    BY <2>3 DEF Reads, At
  <2> QED
    BY <2>1, <2>3, <2>4, SkipOthers DEF SkipInv
<1> QED
  BY <1>1, <1>2 DEF SkipInv

\* A record that throws: the next ones wait, and this one is given up for them.
LEMMA SkipFail ==
  ASSUME TypeOK, TypeOK', SkipInv, Grows, SkipsExplained', cursor' = NoCursor => seed' = 0,
         NEW a \in Actors, Busy(a), Fail(a)
  PROVE  SkipInv'
<1>1. CASE IsPoll(a)
  BY <1>1, SkipDie, ActorsFacts DEF Fail
<1>2. CASE ~IsPoll(a)
  <2> DEFINE q == todo[a]
  <2>0. q \in Seq(Records) /\ q # << >> /\ Follows(q) /\ ActorInv(a) /\ a \in Streams /\ old[a] \in Nat
    BY <1>2, Numbers, ActorsFacts DEF Busy, SkipInv, ActorInv, TypeOK
  <2>1. /\ todo' = [todo EXCEPT ![a] = Tail(@)]
        /\ phase' = [phase EXCEPT ![a] = "record"]
        /\ fill' = [fill EXCEPT ![a] = << >>]
        /\ UNCHANGED << pass, pages, pos >>
        /\ dropped' = IF Len(todo[a]) > 1 THEN dropped \cup {Head(todo[a])} ELSE dropped
    BY <1>2 DEF Fail, Restart
  <2>2. \/ old[a] = 0 /\ conn' = [conn EXCEPT ![a] = "wait"] /\ old' = [old EXCEPT ![a] = Len(Tail(q))]
        \/ old[a] # 0 /\ UNCHANGED conn /\ old' = [old EXCEPT ![a] = @ - 1]
    BY <1>2 DEF Fail, Restart
  <2>3. Only(a)
    BY <2>0, <2>1, <2>2, ActorsFacts DEF Only, TypeOK, Reads, At
  <2>4. todo'[a] = Tail(q) /\ phase'[a] = "record" /\ fill'[a] = << >> /\ pos'[a] = pos[a]
    BY <2>1 DEF TypeOK
  <2>5. /\ Len(q) \in Nat \ {0} /\ Len(Tail(q)) = Len(q) - 1 /\ Head(q) = q[1] /\ Head(q) \in Records
        /\ \A i \in 1..Len(Tail(q)) : Tail(q)[i] = q[i + 1]
    BY <2>0, TailFacts
  <2>6. Follows(todo[a])' /\ Follows(fill[a])'
    <3>1. CASE Len(q) = 1
      BY <2>4, <2>5, <3>1 DEF Follows
    <3>2. CASE Len(q) # 1
      <4>1. PICK c \in Seq(Records) : c = q
        BY <2>0
      <4>2. Covered(Head(c))'
        <5>a. ASSUME NEW n \in Nat \ {0}, n # 1 PROVE n > 1
          BY <5>a
        <5>b. Len(q) \in Nat \ {0} /\ Len(q) # 1
          BY <2>5, <3>2, Zenon
        <5>0. Len(todo[a]) > 1
          BY <5>a, <5>b, Zenon
        <5>1. Head(c) \in dropped'
          BY <2>1, <4>1, <5>0
        <5> QED
          BY <5>1 DEF Covered
      <4>3. Follows(Tail(c))'
        BY <2>0, <4>1, <4>2, FollowsTail
      <4> QED
        BY <2>4, <4>1, <4>3 DEF Follows
    <3> QED
      BY <3>1, <3>2
  <2>7. (Reads(a) => \A r \in Payments : seed < r /\ r <= pos[a] => Covered(r) \/ Waiting(a, r))'
    <3> SUFFICES ASSUME Reads(a)', NEW r \in Payments, seed' < r, r <= pos'[a], ~Covered(r)'
                 PROVE  Waiting(a, r)'
      OBVIOUS
    <3>1. old[a] # 0 /\ conn' = conn /\ old'[a] = old[a] - 1
      BY <1>2, <2>0, <2>2 DEF Reads, At, TypeOK
    <3>2. seed < r /\ r <= pos[a] /\ ~Covered(r)
      <4>1. seed \in Int /\ seed' \in Int /\ r \in Int /\ r \in Records
        BY StepNumbers
      <4> QED
        BY <2>4, <4>1 DEF Grows
    <3>3. Waiting(a, r)
      BY <1>2, <2>0, <3>1, <3>2 DEF ActorInv, Reads, At
    <3>4. PICK i \in 1..Len(q) : old[a] < i /\ q[i] = r
      BY <3>3 DEF Waiting
    <3>5. i - 1 \in 1..Len(Tail(q)) /\ (i - 1) + 1 = i /\ old'[a] < i - 1
      BY <2>0, <2>5, <3>1, <3>4
    <3>6. todo'[a][i - 1] = r
      BY <2>4, <2>5, <3>4, <3>5
    <3> QED
      BY <1>2, <2>4, <3>5, <3>6 DEF Waiting
  <2>8. old'[a] <= Len(todo'[a])
    BY <1>2, <2>0, <2>2, <2>4, <2>5 DEF ActorInv, TypeOK
  <2>9. ActorInv(a)'
    BY <1>2, <2>4, <2>6, <2>7, <2>8 DEF ActorInv
  <2> QED
    BY <2>3, <2>9, SkipOne
<1> QED
  BY <1>1, <1>2

\* The backfill starts where all that it leaves out is explained.
LEMMA SkipFetch ==
  ASSUME TypeOK, TypeOK', PhaseOK, SkipInv, NEW a \in Actors, FetchRecent(a)
  PROVE  SkipInv'
<1> DEFINE lo == Greater(0, tip - Window)
<1>0. /\ UNCHANGED << tip, stored, conn, pass, pages, pos, todo, old >>
      /\ phase[a] = "gap" /\ phase' = [phase EXCEPT ![a] = "fill"]
      /\ dropped \subseteq dropped'
  BY DEF FetchRecent
<1>1. Grows /\ SkipsExplained' /\ (cursor' = NoCursor => seed' = 0)
  BY <1>0, SkipStored
<1>2. /\ ActorInv(a) /\ Busy(a) /\ todo[a] \in Seq(Records) /\ todo[a] # << >>
      /\ Follows(todo[a]) /\ Covered(Head(todo[a])) /\ Head(todo[a]) \in Records
  BY <1>0, Numbers, TailFacts DEF SkipInv, ActorInv, Busy
<1>3. \E f : fill' = [fill EXCEPT ![a] = f]
  BY DEF FetchRecent
<1>4. Only(a)
  BY <1>0, <1>3 DEF Only, TypeOK, Reads, At
<1>5. Follows(fill[a])'
  <2>1. CASE fill' = [fill EXCEPT ![a] = << >>]
    <3>1. fill'[a] = << >>
      BY <2>1 DEF TypeOK
    <3> QED
      BY <3>1 DEF Follows
  <2>2. CASE /\ fill' = [fill EXCEPT ![a] = Span(lo, tip)]
             /\ dropped' = dropped \cup { r \in Payments : Head(todo[a]) < r /\ r <= tip - Window }
    <3>1. lo \in 0..N /\ tip \in 0..N /\ lo <= tip /\ (lo # 0 => lo = tip - Window)
      BY Numbers DEF Greater
    <3>2. PICK l \in 0..N, h \in 0..N : l = lo /\ h = tip
      BY <3>1
    <3>3. AllBelow(l)'
      <4>1. SUFFICES ASSUME NEW r \in Payments, seed' < r, r <= l PROVE Covered(r)'
        BY DEF AllBelow
      <4>2. seed \in Int /\ r \in 1..N /\ N \in Nat /\ r \in Records /\ seed' = seed /\ Window \in Nat
        BY <1>0, Numbers, StepNumbers DEF stored
      <4>3. l = tip - Window
        BY <3>1, <3>2, <4>1, <4>2
      <4>4. CASE Head(todo[a]) < r
        BY <2>2, <3>2, <4>1, <4>3, <4>4 DEF Covered
      <4>5. CASE r = Head(todo[a])
        BY <1>1, <1>2, <4>2, <4>5 DEF Grows
      <4>6. CASE r < Head(todo[a])
        BY <1>1, <1>2, <4>1, <4>2, <4>6, HeadFollows DEF Grows
      <4>7. Head(todo[a]) \in Int
        BY <1>2, <4>2 DEF Records
      <4> QED
        BY <4>2, <4>4, <4>5, <4>6, <4>7
    <3>4. l <= h
      BY <3>1, <3>2
    <3>a. PICK q : q = Span(l, h)
      OBVIOUS
    <3>5. Follows(q)'
      BY <3>3, <3>4, <3>a, FollowsSpan
    <3>6. fill'[a] = q
      BY <2>2, <3>2, <3>a DEF TypeOK
    <3> QED
      BY <3>5, <3>6 DEF Follows
  <2> QED
    BY <2>1, <2>2 DEF FetchRecent
<1>6. Follows(todo[a])'
  <2>1. PICK q : q = todo[a]
    OBVIOUS
  <2>2. Follows(q)'
    BY <1>1, <1>2, <2>1, FollowsLater
  <2> QED
    BY <1>0, <2>1, <2>2 DEF Follows
<1>7. Busy(a)' /\ Covered(Head(todo[a]))'
  <2>1. PICK h \in Records : h = Head(todo[a])
    BY <1>2
  <2>2. Covered(h)'
    BY <1>1, <1>2, <2>1 DEF Grows
  <2> QED
    BY <1>0, <1>2, <2>1, <2>2 DEF Busy, Covered, Stored
<1>8. (Reads(a) => \A r \in Payments : seed < r /\ r <= pos[a] => Covered(r) \/ Waiting(a, r))'
  <2> SUFFICES ASSUME Reads(a)', NEW r \in Payments, seed' < r, r <= pos'[a] PROVE Covered(r)' \/ Waiting(a, r)'
    OBVIOUS
  <2>1. Covered(r) \/ Waiting(a, r)
    BY <1>0, <1>2 DEF ActorInv, Reads, At, stored
  <2>2. r \in Records
    BY StepNumbers
  <2> QED
    BY <1>0, <1>1, <2>1, <2>2 DEF Grows, Waiting
<1>9. ActorInv(a)'
  BY <1>0, <1>2, <1>5, <1>6, <1>7, <1>8 DEF ActorInv, At, Busy
<1> QED
  BY <1>1, <1>4, <1>9, SkipOne

\* One record of the backfill.
LEMMA SkipBackfill ==
  ASSUME TypeOK, TypeOK', SkipInv, NEW a \in Actors, Backfill(a)
  PROVE  SkipInv'
<1>0. /\ UNCHANGED << tip, dropped, conn, pass, pages, pos, todo, old, phase >>
      /\ fill[a] # << >> /\ fill' = [fill EXCEPT ![a] = Tail(@)] /\ phase[a] = "fill"
  BY DEF Backfill
<1>2. ActorInv(a) /\ fill[a] \in Seq(Records) /\ Follows(fill[a])
  BY Numbers DEF SkipInv, ActorInv
<1>3. PICK q \in Seq(Records) : q = fill[a]
  BY <1>2
<1>4. /\ Grows /\ SkipsExplained' /\ (cursor' = NoCursor => seed' = 0)
      /\ Head(q) \in Payments => Covered(Head(q))'
  <2>1. CASE Head(fill[a]) \notin Payments /\ UNCHANGED stored
    BY <1>0, <1>3, <2>1, SkipStored
  <2>2. CASE Head(fill[a]) \in Payments /\ Transaction(Head(fill[a]), FALSE)
    <3>1. Head(q) \in Payments /\ Transaction(Head(q), FALSE) /\ Follows(q) /\ q # << >> /\ dropped \subseteq dropped'
      BY <1>0, <1>2, <1>3, <2>2
    <3> QED
      BY <3>1, SkipTransaction
  <2> QED
    BY <2>1, <2>2 DEF Backfill
<1>5. Only(a)
  BY <1>0 DEF Only, TypeOK, Reads, At
<1>6. Follows(fill[a])'
  <2>1. Follows(Tail(q))'
    BY <1>0, <1>2, <1>3, <1>4, FollowsTail
  <2>2. fill'[a] = Tail(q)
    BY <1>0, <1>3 DEF TypeOK
  <2> QED
    BY <2>1, <2>2 DEF Follows
<1>7. Follows(todo[a])'
  <2>1. PICK c : c = todo[a]
    OBVIOUS
  <2>2. Follows(c)'
    BY <1>2, <1>4, <2>1, FollowsLater DEF ActorInv
  <2> QED
    BY <1>0, <2>1, <2>2 DEF Follows
<1>8. Busy(a)' /\ Covered(Head(todo[a]))'
  <2>1. Busy(a) /\ Covered(Head(todo[a])) /\ Head(todo[a]) \in Records
    BY <1>0, <1>2, Numbers, TailFacts DEF ActorInv, Busy
  <2>2. PICK h \in Records : h = Head(todo[a])
    BY <2>1
  <2>3. Covered(h)'
    BY <1>4, <2>1, <2>2 DEF Grows
  <2> QED
    BY <1>0, <2>1, <2>2, <2>3 DEF Busy, Covered, Stored
<1>9. (Reads(a) => \A r \in Payments : seed < r /\ r <= pos[a] => Covered(r) \/ Waiting(a, r))'
  <2> SUFFICES ASSUME Reads(a)', NEW r \in Payments, seed' < r, r <= pos'[a] PROVE Covered(r)' \/ Waiting(a, r)'
    OBVIOUS
  <2>1. seed \in Int /\ seed' \in Int /\ r \in Int /\ r \in Records
    BY StepNumbers
  <2>2. Covered(r) \/ Waiting(a, r)
    BY <1>0, <1>2, <1>4, <2>1 DEF ActorInv, Reads, At, Grows
  <2> QED
    BY <1>0, <1>4, <2>1, <2>2 DEF Grows, Waiting
<1>10. ActorInv(a)'
  BY <1>0, <1>2, <1>6, <1>7, <1>8, <1>9 DEF ActorInv, At, Busy
<1> QED
  BY <1>4, <1>5, <1>10, SkipOne

\* An actor that has found where to read on.
LEMMA SkipMove ==
  ASSUME TypeOK, TypeOK', SkipInv, NEW a \in Actors, NEW l, Move(a, l), ~Busy(a) \/ ~IsPoll(a),
         Grows, SkipsExplained', cursor' = NoCursor => seed' = 0,
         \A b \in Actors : b # a => pos'[b] = pos[b],
         l \in { "ask", "seed" } \/ AllBelow(pos[a])', UNCHANGED << todo, old, phase, fill >>
  PROVE  SkipInv'
<1>0. At(a)' = l /\ ActorInv(a)
  BY ActorsFacts DEF Move, At, TypeOK, SkipInv
<1>1. Only(a)
  <2>1. ASSUME NEW b \in Actors, b # a PROVE At(b)' = At(b) /\ (IsPoll(b) => pass'[b[1]] = pass[b[1]])
    <3>1. IsPoll(a) /\ IsPoll(b) => a[1] # b[1] /\ a[1] \in Procs /\ b[1] \in Procs
      BY <2>1, ActorsFacts
    <3>2. (~IsPoll(a) => a \in Streams) /\ (~IsPoll(b) => b \in Streams)
      BY ActorsFacts
    <3> QED
      BY <2>1, <3>1, <3>2 DEF Move, At, TypeOK
  <2> QED
    BY <2>1 DEF Only, Reads
<1>2. Follows(todo[a])' /\ Follows(fill[a])'
  <2>1. PICK q, f : q = todo[a] /\ f = fill[a]
    OBVIOUS
  <2>2. Follows(q)' /\ Follows(f)'
    BY <1>0, <2>1, FollowsLater DEF ActorInv
  <2> QED
    BY <2>1, <2>2 DEF Follows
<1>3. (phase[a] # "record" => Busy(a) /\ Covered(Head(todo[a])))'
  <2>1. ASSUME phase[a] # "record" PROVE Busy(a) /\ Covered(Head(todo[a])) /\ Head(todo[a]) \in Records
    BY <1>0, <2>1, Numbers, TailFacts DEF ActorInv, Busy
  <2>2. PICK h : h = Head(todo[a])
    OBVIOUS
  <2>3. phase[a] # "record" => Covered(h)'
    BY <2>1, <2>2 DEF Grows
  <2> QED
    BY <2>1, <2>2, <2>3 DEF Busy, Covered, Stored
<1>4. (Reads(a) => \A r \in Payments : seed < r /\ r <= pos[a] => Covered(r) \/ Waiting(a, r))'
  BY <1>0 DEF Reads, AllBelow
<1>5. (IF IsPoll(a) THEN Busy(a) => At(a) \in { "page", "last" } ELSE old[a] <= Len(todo[a]))'
  BY <1>0 DEF ActorInv, Busy
<1>6. ActorInv(a)'
  BY <1>2, <1>3, <1>4, <1>5 DEF ActorInv
<1> QED
  BY <1>1, <1>6, SkipOne

\* Every step keeps what the cursor has passed explained.
LEMMA SkipStep == TypeInv /\ TypeInv' /\ SkipInv /\ [Next]_vars => SkipInv'
<1> SUFFICES ASSUME TypeOK, TypeOK', PhaseOK, SkipInv, [Next]_vars PROVE SkipInv'
  BY DEF TypeInv
<1>a. ASSUME UNCHANGED << stored, dropped >>
      PROVE  Grows /\ SkipsExplained' /\ (cursor' = NoCursor => seed' = 0)
  BY <1>a, SkipStored
<1>b. ASSUME UNCHANGED << stored, dropped, actors >> PROVE SkipInv'
  <2>1. \A b \in Actors : ActorInv(b)'
    BY <1>a, <1>b, SkipOthers DEF SkipInv, actors, Reads, At
  <2> QED
    BY <1>a, <1>b, <2>1 DEF SkipInv
<1>c. ASSUME NEW p \in Procs, NEW left, Die(p, left), UNCHANGED << stored, dropped >> PROVE SkipInv'
  BY <1>a, <1>c, SkipDie
<1>d. ASSUME NEW s \in Streams, UNCHANGED << stored, dropped, pages, pos, todo, old, phase, fill >>,
             conn' = conn \/ \E l \in { "wait", "noop" } : conn' = [conn EXCEPT ![s] = l],
             \A q \in Procs : pass'[q] = pass[q] \/ (pass[q] = "stream" /\ pass'[q] = "idle")
      PROVE  SkipInv'
  <2>1. ASSUME NEW b \in Actors PROVE ActorInv(b)'
    <3>1. Reads(b)' => Reads(b)
      BY <1>d, ActorsFacts DEF Reads, At, TypeOK
    <3>2. CASE IsPoll(b) /\ pass'[b[1]] # pass[b[1]]
      <4>1. pass[b[1]] = "stream" /\ pass'[b[1]] = "idle" /\ ActorInv(b)
        BY <1>d, <3>2, ActorsFacts DEF SkipInv
      <4>2. ~Busy(b) /\ phase[b] = "record" /\ ~Reads(b)'
        BY <3>2, <4>1 DEF ActorInv, At, Reads
      <4>3. todo[b] = << >> /\ UNCHANGED << todo, phase, fill >>
        BY <1>d, <4>2 DEF Busy
      <4>4. Follows(fill[b])'
        <5>1. PICK f : f = fill[b] /\ Follows(f)
          BY <4>1 DEF ActorInv
        <5>2. Follows(f)'
          BY <1>a, <1>d, <5>1, FollowsLater
        <5> QED
          BY <4>3, <5>1, <5>2 DEF Follows
      <4> QED
        BY <3>2, <4>2, <4>3, <4>4 DEF ActorInv, Follows, Busy
    <3>3. CASE ~(IsPoll(b) /\ pass'[b[1]] # pass[b[1]])
      BY <1>a, <1>d, <3>1, <3>3, SkipOthers DEF SkipInv
    <3> QED
      BY <3>2, <3>3
  <2> QED
    BY <1>a, <1>d, <2>1 DEF SkipInv
<1>e. ASSUME NEW a \in Actors, FindCursor(a), ~Busy(a) \/ ~IsPoll(a),
             UNCHANGED << stored, dropped, todo, old, phase, fill >>
      PROVE  SkipInv'
  <2>1. pos' = [pos EXCEPT ![a] = Greater(0, cursor)]
    BY <1>e DEF FindCursor
  <2>2. pos'[a] = Greater(0, cursor) /\ \A b \in Actors : b # a => pos'[b] = pos[b]
    BY <2>1 DEF TypeOK
  <2>3. CASE cursor = NoCursor
    BY <1>a, <1>e, <2>2, <2>3, SkipMove DEF FindCursor
  <2>4. CASE cursor # NoCursor
    <3>1. pos'[a] = cursor /\ cursor' = cursor
      BY <1>e, <2>2, <2>4, Numbers DEF Greater, TypeOK, stored
    <3>2. AllBelow(pos[a])'
      BY <1>a, <1>e, <3>1 DEF SkipsExplained, AllBelow
    <3> QED
      BY <1>a, <1>e, <2>2, <2>4, <3>2, SkipMove DEF FindCursor
  <2> QED
    BY <2>3, <2>4
<1>1. CASE NewRecord \/ KeyExpire \/ LeaseLost \/ UNCHANGED vars
  BY <1>1, <1>b DEF NewRecord, KeyExpire, LeaseLost, vars, db
<1>2. ASSUME NEW p \in Procs, Crash(p) \/ Stop(p) PROVE SkipInv'
  BY <1>2, <1>c DEF Crash, Stop, db
<1>3. ASSUME NEW p \in Procs, Drain(p) PROVE SkipInv'
  BY <1>3, <1>b DEF Drain, db
<1>4. ASSUME NEW p \in Procs, Watcher(p) PROVE SkipInv'
  <2>0. << p, "boot" >> \in Streams /\ << p, "late" >> \in Streams /\ Poll(p) \in Actors /\ IsPoll(Poll(p))
    BY ActorsFacts
  <2>a. At(Poll(p)) = pass[p] /\ ActorInv(Poll(p))
    BY ActorsFacts DEF At, SkipInv
  <2>1. CASE StartStream(p)
    BY <2>0, <2>1, <1>d DEF StartStream, TakeLease, db
  <2>2. CASE PollStart(p)
    <3>1. ~Busy(Poll(p))
      BY <2>0, <2>a, <2>2 DEF PollStart, ActorInv
    <3> QED
      BY <2>0, <2>2, <3>1, <1>e DEF PollStart, db
  <2>3. CASE Fetch(p)
    <3> DEFINE a == Poll(p)
    <3>0. /\ pass[p] = "fetch" /\ ~Busy(a) /\ phase[a] = "record" /\ Reads(a)
          /\ UNCHANGED << tip, dropped, conn, pages, pos, old, phase, fill, cursor, recorded, seed >>
          /\ \E l \in { "stream", "last", "page" } : pass' = [pass EXCEPT ![p] = l]
      BY <2>0, <2>a, <2>3 DEF Fetch, GotoPass, ActorInv, Reads, db, stored
    <3>1. Grows /\ SkipsExplained' /\ (cursor' = NoCursor => seed' = 0)
      BY <3>0, StepNumbers DEF Grows, Covered, Stored, SkipInv, SkipsExplained, AllBelow
    <3>2. AllBelow(pos[a]) /\ AllBelow(pos[a])'
      <4>1. AllBelow(pos[a])
        BY <2>0, <2>a, <3>0 DEF ActorInv, AllBelow, Waiting
      <4> QED
        BY <4>1, <3>0 DEF AllBelow, Covered, Stored
    <3>3. \E q : todo' = [todo EXCEPT ![a] = q] \/ todo' = todo
      BY <2>3 DEF Fetch
    <3>4. Only(a)
      <4>1. ASSUME NEW b \in Actors, b # a PROVE IsPoll(b) => pass'[b[1]] = pass[b[1]]
        BY <4>1, <3>0, ActorsFacts DEF TypeOK
      <4>2. ASSUME NEW b \in Actors, b # a PROVE todo'[b] = todo[b]
        BY <4>2, <3>3 DEF TypeOK
      <4> QED
        BY <3>0, <4>1, <4>2 DEF Only, Reads, At
    <3>5. Follows(todo[a])'
      <4>1. CASE UNCHANGED todo
        <5>1. todo'[a] = << >>
          BY <3>0, <4>1 DEF Busy
        <5> QED
          BY <5>1 DEF Follows
      <4>2. CASE /\ pos[a] < tip
                 /\ todo' = [todo EXCEPT ![a] = Span(pos[a], Lesser(pos[a] + PageSize, tip))]
        <5>1. /\ pos[a] \in 0..N /\ Lesser(pos[a] + PageSize, tip) \in 0..N
              /\ pos[a] <= Lesser(pos[a] + PageSize, tip)
          BY <2>0, <4>2, Numbers DEF Lesser
        <5>2. PICK lo \in 0..N, hi \in 0..N : lo = pos[a] /\ hi = Lesser(pos[a] + PageSize, tip)
          BY <5>1
        <5>a. PICK q : q = Span(lo, hi)
          OBVIOUS
        <5>3. AllBelow(lo)' /\ lo <= hi
          BY <3>0, <3>2, <5>1, <5>2 DEF AllBelow
        <5>4. Follows(q)'
          BY <5>a, <5>3, FollowsSpan
        <5>5. todo'[a] = q
          BY <2>0, <4>2, <5>2, <5>a DEF TypeOK
        <5> QED
          BY <5>4, <5>5 DEF Follows
      <4> QED
        BY <2>3, <4>1, <4>2 DEF Fetch
    <3>6. Follows(fill[a])'
      BY <2>a, <3>0 DEF ActorInv, Follows, Covered, Stored
    <3>7. (Busy(a) => At(a) \in { "page", "last" })'
      <4>1. CASE UNCHANGED todo
        BY <3>0, <4>1 DEF Busy
      <4>2. CASE GotoPass(p, IF tip - pos[a] < PageSize THEN "last" ELSE "page")
        BY <2>0, <4>2, ActorsFacts DEF GotoPass, At, TypeOK
      <4> QED
        BY <2>3, <4>1, <4>2 DEF Fetch
    <3>8. ActorInv(a)'
      BY <2>0, <3>0, <3>2, <3>5, <3>6, <3>7 DEF ActorInv, AllBelow
    <3> QED
      BY <2>0, <3>1, <3>4, <3>8, SkipOne
  <2>4. CASE PageDone(p)
    <3> DEFINE a == Poll(p)
    <3>0. /\ pass[p] \in { "page", "last" } /\ ~Busy(a)
          /\ UNCHANGED << stored, dropped, conn, pos, todo, old, phase, fill >>
          /\ \E l \in { "stream", "fetch" } : pass' = [pass EXCEPT ![p] = l]
      BY <2>4 DEF PageDone, GotoPass, db
    <3>1. Grows /\ SkipsExplained' /\ (cursor' = NoCursor => seed' = 0)
      BY <1>a, <3>0
    <3>2. Only(a)
      <4>1. ASSUME NEW b \in Actors, b # a PROVE IsPoll(b) => pass'[b[1]] = pass[b[1]]
        BY <4>1, <3>0, ActorsFacts DEF TypeOK
      <4> QED
        BY <3>0, <4>1 DEF Only, Reads, At
    <3>3. ActorInv(a)'
      <4>1. Reads(a)
        BY <2>a, <3>0 DEF Reads
      <4>2. Follows(todo[a])' /\ Follows(fill[a])'
        BY <2>a, <3>0 DEF ActorInv, Follows, Covered, Stored, stored
      <4>3. \A r \in Payments : seed < r /\ r <= pos[a] => Covered(r)
        BY <2>0, <2>a, <4>1 DEF ActorInv, Waiting
      <4>4. (\A r \in Payments : seed < r /\ r <= pos[a] => Covered(r))'
        BY <3>0, <4>3 DEF Covered, Stored, stored
      <4>5. ~Busy(a)' /\ phase'[a] = "record"
        BY <2>a, <3>0 DEF Busy, ActorInv
      <4> QED
        BY <2>0, <4>2, <4>4, <4>5 DEF ActorInv
    <3> QED
      BY <2>0, <3>1, <3>2, <3>3, SkipOne
  <2>5. CASE PollEnd(p)
    <3>1. \A q \in Procs : pass'[q] = pass[q] \/ (pass[q] = "stream" /\ pass'[q] = "idle")
      BY <2>5 DEF PollEnd, GotoPass, TypeOK
    <3> QED
      BY <2>0, <2>5, <3>1, <1>d DEF PollEnd, TakeLease, db
  <2> QED
    BY <1>4, <2>1, <2>2, <2>3, <2>4, <2>5 DEF Watcher
<1>5. ASSUME NEW s \in Streams, Stream(s) PROVE SkipInv'
  <2>0. s \in Actors /\ ~IsPoll(s) /\ ActorInv(s) /\ At(s) = conn[s]
    BY ActorsFacts DEF SkipInv, At
  <2>1. CASE Connect(s)
    BY <2>0, <2>1, <1>e DEF Connect, db
  <2>2. CASE Heartbeat(s)
    BY <2>0, <2>2, <1>d DEF Heartbeat, db
  <2>3. CASE Emit(s)
    <3> DEFINE q == todo[s]
               x == pos[s] + 1
    <3>0. /\ conn[s] = "open" /\ pos' = [pos EXCEPT ![s] = x]
          /\ UNCHANGED << stored, dropped, pass, pages, phase, fill >>
          /\ q \in Seq(Records) /\ old[s] \in Nat /\ old[s] <= Len(q) /\ Len(q) \in Nat /\ pos[s] \in 0..N
      BY <2>0, <2>3, Numbers DEF Emit, db, ActorInv, TypeOK
    <3>1. Grows /\ SkipsExplained' /\ (cursor' = NoCursor => seed' = 0)
      BY <1>a, <3>0
    <3>2. /\ Follows(q) /\ Follows(fill[s])
          /\ phase[s] # "record" => Busy(s) /\ Covered(Head(q))
          /\ \A r \in Payments : seed < r /\ r <= pos[s] => Covered(r) \/ Waiting(s, r)
      BY <2>0, <3>0 DEF ActorInv, Reads
    <3>3. UNCHANGED << cursor, recorded, seed, dropped >>
      BY <3>0 DEF stored
    <3>4. CASE Restart(s, todo[s])
      <4>1. todo' = todo /\ conn' = [conn EXCEPT ![s] = "wait"] /\ old' = [old EXCEPT ![s] = Len(q)]
        BY <2>0, <3>4 DEF Restart, TypeOK
      <4>2. Only(s)
        BY <2>0, <3>0, <4>1, ActorsFacts DEF Only, TypeOK, Reads, At
      <4>3. ActorInv(s)'
        <5>1. ~Reads(s)' /\ old'[s] = Len(todo'[s])
          BY <2>0, <4>1 DEF Reads, At, TypeOK
        <5>2. Follows(todo[s])' /\ Follows(fill[s])'
          BY <3>0, <3>2, <3>3, <4>1 DEF Follows, Covered, Stored
        <5>3. (phase[s] # "record" => Busy(s) /\ Covered(Head(todo[s])))'
          BY <3>0, <3>2, <3>3, <4>1 DEF Busy, Covered, Stored
        <5> QED
          BY <2>0, <3>0, <5>1, <5>2, <5>3 DEF ActorInv
      <4> QED
        BY <2>0, <3>1, <4>2, <4>3, SkipOne
    <3>5. CASE /\ todo' = [todo EXCEPT ![s] = Append(@, pos[s] + 1)]
               /\ UNCHANGED << conn, old >>
      <4>1. Only(s)
        BY <3>0, <3>5 DEF Only, TypeOK, Reads, At
      <4>2. x \in Records
        <5>1. pos[s] < tip /\ tip \in 0..N /\ N \in Nat
          BY <2>3, Numbers DEF Emit
        <5> QED
          BY <3>0, <5>1 DEF Records
      <4>3. /\ todo'[s] = Append(q, x) /\ pos'[s] = x /\ old'[s] = old[s]
            /\ Len(Append(q, x)) = Len(q) + 1 /\ Append(q, x)[Len(q) + 1] = x
            /\ \A k \in 1..Len(q) : Append(q, x)[k] = q[k]
        BY <2>0, <3>0, <3>5, <4>2 DEF TypeOK
      <4>4. (\A r \in Payments : seed < r /\ r <= pos[s] => Covered(r) \/ Waiting(s, r))'
        <5>1. SUFFICES ASSUME NEW r \in Payments, seed' < r, r <= x, ~Covered(r)'
                       PROVE  \E k \in 1..(Len(q) + 1) : old[s] < k /\ Append(q, x)[k] = r
          BY <2>0, <4>3 DEF Waiting
        <5>2. r \in Int /\ seed < r /\ ~Covered(r)
          BY <3>3, <5>1, StepNumbers DEF Covered, Stored
        <5>3. CASE r = x
          <6>1. Len(q) + 1 \in 1..(Len(q) + 1) /\ old[s] < Len(q) + 1
            BY <3>0
          <6> QED
            BY <4>3, <5>3, <6>1
        <5>4. CASE r # x
          <6>1. r <= pos[s]
            BY <3>0, <5>1, <5>2, <5>4
          <6>2. PICK k \in 1..Len(q) : old[s] < k /\ q[k] = r
            BY <3>2, <5>2, <6>1 DEF Waiting
          <6>3. k \in 1..(Len(q) + 1)
            BY <3>0, <6>2
          <6> QED
            BY <4>3, <6>2, <6>3
        <5> QED
          BY <5>3, <5>4
      <4>5. Follows(todo[s])'
        <5>1. SUFFICES ASSUME NEW i \in 1..(Len(q) + 1), NEW r \in Payments, seed < r, r < Append(q, x)[i], ~Covered(r)
                       PROVE  \E k \in 1..(i - 1) : Append(q, x)[k] = r
          BY <3>3, <4>3 DEF Follows, Covered, Stored
        <5>2. CASE i \in 1..Len(q)
          <6>1. PICK k \in 1..(i - 1) : q[k] = r
            BY <3>2, <4>3, <5>1, <5>2 DEF Follows
          <6>2. k \in 1..Len(q)
            BY <3>0, <5>2, <6>1
          <6> QED
            BY <4>3, <6>1, <6>2
        <5>3. CASE i = Len(q) + 1
          <6>1. r \in Int /\ r <= pos[s]
            BY <3>0, <4>3, <5>1, <5>3, StepNumbers
          <6>2. PICK k \in 1..Len(q) : q[k] = r
            BY <3>2, <5>1, <6>1 DEF Waiting
          <6>3. k \in 1..(i - 1)
            BY <3>0, <5>3, <6>2
          <6> QED
            BY <4>3, <6>2, <6>3
        <5> QED
          BY <3>0, <5>1, <5>2, <5>3
      <4>6. (phase[s] # "record" => Busy(s) /\ Covered(Head(todo[s])))'
        <5>1. ASSUME phase[s] # "record" PROVE q # << >> /\ Head(Append(q, x)) = Head(q) /\ Append(q, x) # << >>
          BY <3>0, <3>2, <4>2, <5>1 DEF Busy
        <5>2. phase'[s] = phase[s]
          BY <3>0
        <5> QED
          BY <3>2, <3>3, <4>3, <5>1, <5>2 DEF Busy, Covered, Stored
      <4>7. Follows(fill[s])' /\ old'[s] <= Len(todo'[s])
        BY <3>0, <3>2, <3>3, <4>3 DEF Follows, Covered, Stored
      <4>8. ActorInv(s)'
        BY <2>0, <4>4, <4>5, <4>6, <4>7 DEF ActorInv
      <4> QED
        BY <2>0, <3>1, <4>1, <4>8, SkipOne
    <3> QED
      BY <2>3, <3>4, <3>5 DEF Emit
  <2> QED
    BY <1>5, <2>1, <2>2, <2>3 DEF Stream
<1>6. ASSUME NEW a \in Actors, Process(a) PROVE SkipInv'
  <2>0. PICK h : h = Head(todo[a])
    OBVIOUS
  <2>1. CASE Ignore(a)
    BY <1>a, <2>0, <2>1, SkipDone DEF Ignore, db
  <2>2. CASE Commit(a)
    <3>0. Busy(a) /\ h \in Payments /\ \E gap : Transaction(h, gap)
      BY <2>0, <2>2 DEF Commit
    <3>1. PICK q \in Seq(Records) : q = todo[a] /\ q # << >> /\ Follows(q)
      BY <3>0, Numbers DEF SkipInv, ActorInv, Busy
    <3>2. ASSUME dropped \subseteq dropped'
          PROVE  Grows /\ SkipsExplained' /\ (cursor' = NoCursor => seed' = 0) /\ Covered(h)'
      BY <2>0, <3>0, <3>1, <3>2, SkipTransaction
    <3>3. CASE Done(a) /\ UNCHANGED << key, dropped, used >>
      BY <2>0, <3>0, <3>2, <3>3, SkipDone
    <3>4. CASE /\ phase' = [phase EXCEPT ![a] = "gap"]
               /\ UNCHANGED << key, dropped, conn, pass, pages, pos, todo, old, fill, used >>
      <4>1. Only(a)
        BY <3>4 DEF Only, TypeOK, Reads, At
      <4>2. PICK f : f = fill[a]
        OBVIOUS
      <4>3. ActorInv(a) /\ Follows(q)' /\ Follows(f)'
        BY <3>1, <3>2, <3>4, <4>2, FollowsLater DEF SkipInv, ActorInv
      <4>4. Follows(todo[a])' /\ Follows(fill[a])'
        BY <3>1, <3>4, <4>2, <4>3 DEF Follows
      <4>5. Busy(a)' /\ Covered(Head(todo[a]))'
        BY <2>0, <3>0, <3>2, <3>4 DEF Busy, Covered, Stored
      <4>6. (Reads(a) => \A r \in Payments : seed < r /\ r <= pos[a] => Covered(r) \/ Waiting(a, r))'
        <5> SUFFICES ASSUME Reads(a)', NEW r \in Payments, seed' < r, r <= pos'[a]
                     PROVE  Covered(r)' \/ Waiting(a, r)'
          OBVIOUS
        <5>1. seed \in Int /\ seed' \in Int /\ r \in Int /\ r \in Records
          BY StepNumbers
        <5>2. Covered(r) \/ Waiting(a, r)
          BY <3>2, <3>4, <4>3, <5>1 DEF ActorInv, Reads, At, Grows
        <5> QED
          BY <3>2, <3>4, <5>1, <5>2 DEF Grows, Waiting
      <4>7. ActorInv(a)'
        BY <3>4, <4>3, <4>4, <4>5, <4>6 DEF ActorInv, At, Busy
      <4> QED
        BY <3>2, <3>4, <4>1, <4>7, SkipOne
    <3>5. CASE Fault("db") /\ Fail(a)
      <4>1. dropped \subseteq dropped'
        BY <3>5 DEF Fail
      <4> QED
        BY <3>0, <3>2, <3>5, <4>1, SkipFail
    <3> QED
      BY <2>2, <3>3, <3>4, <3>5 DEF Commit
  <2>3. CASE Throw(a)
    <3>1. Busy(a) /\ Fail(a) /\ UNCHANGED stored /\ dropped \subseteq dropped'
      BY <2>3 DEF Throw, Working, Fail
    <3> QED
      BY <3>1, SkipStored, SkipFail
  <2>4. CASE FetchRecent(a)
    BY <2>4, SkipFetch
  <2>5. CASE Backfill(a)
    BY <2>5, SkipBackfill
  <2>6. CASE ClearGap(a)
    <3>1. Busy(a) /\ Covered(h) /\ h \in Records /\ ActorInv(a)
      BY <2>0, <2>6, Numbers, TailFacts DEF ClearGap, SkipInv, ActorInv, Busy
    <3>2. UNCHANGED << cursor, recorded, seed, dropped >> /\ Done(a)
      BY <2>6 DEF ClearGap
    <3>3. Grows /\ SkipsExplained' /\ (cursor' = NoCursor => seed' = 0)
      BY <3>2, StepNumbers DEF Grows, Covered, Stored, SkipInv, SkipsExplained, AllBelow
    <3> QED
      BY <2>0, <3>1, <3>2, <3>3, SkipDone DEF Grows
  <2> QED
    BY <1>6, <2>1, <2>2, <2>3, <2>4, <2>5, <2>6 DEF Process
<1>7. ASSUME NEW a \in Actors, Seeding(a) PROVE SkipInv'
  <2>0. ActorInv(a) /\ At(a) \in { "ask", "seed" } /\ (~Busy(a) \/ ~IsPoll(a)) /\ UNCHANGED << todo, old, phase, fill >>
    BY <1>7 DEF Seeding, AskLatest, CreateCursor, SkipInv, ActorInv
  <2>1. CASE AskLatest(a)
    <3>1. \A b \in Actors : b # a => pos'[b] = pos[b]
      BY <2>1 DEF AskLatest, TypeOK
    <3>2. Move(a, "seed") /\ UNCHANGED << stored, dropped >>
      BY <2>1 DEF AskLatest, db
    <3> QED
      BY <1>a, <2>0, <3>1, <3>2, SkipMove
  <2>2. CASE CreateCursor(a)
    <3>0. Move(a, Ready(a)) /\ UNCHANGED << recorded, dropped >>
      BY <2>2 DEF CreateCursor
    <3>1. CASE cursor = NoCursor /\ cursor' = pos[a] /\ seed' = pos[a] /\ UNCHANGED pos
      <4>1. seed = 0 /\ pos[a] \in 0..N
        BY <3>1, Numbers DEF SkipInv
      <4>2. Grows
        BY <3>0, <3>1, <4>1 DEF Grows, Covered, Stored
      <4>3. AllBelow(pos[a])' /\ SkipsExplained'
        <5>1. \A r \in Payments : ~(pos[a] < r /\ r <= pos[a])
          BY <4>1, StepNumbers
        <5> QED
          BY <3>1, <5>1 DEF AllBelow, SkipsExplained
      <4>4. cursor' = NoCursor => seed' = 0
        BY <3>1, <4>1 DEF NoCursor
      <4> QED
        BY <2>0, <3>0, <3>1, <4>2, <4>3, <4>4, SkipMove
    <3>2. CASE cursor # NoCursor /\ pos' = [pos EXCEPT ![a] = cursor] /\ UNCHANGED << cursor, seed >>
      <4>1. Grows /\ SkipsExplained' /\ (cursor' = NoCursor => seed' = 0)
        BY <3>0, <3>2, StepNumbers DEF Grows, Covered, Stored, SkipInv, SkipsExplained, AllBelow
      <4>2. pos'[a] = cursor' /\ \A b \in Actors : b # a => pos'[b] = pos[b]
        BY <3>2 DEF TypeOK
      <4>3. AllBelow(pos[a])'
        BY <4>1, <4>2 DEF SkipsExplained, AllBelow
      <4> QED
        BY <2>0, <3>0, <4>1, <4>2, <4>3, SkipMove
    <3> QED
      BY <2>2, <3>1, <3>2 DEF CreateCursor
  <2> QED
    BY <1>7, <2>1, <2>2 DEF Seeding
<1> QED
  BY <1>1, <1>2, <1>3, <1>4, <1>5, <1>6, <1>7 DEF Next

\* Whatever an actor has read goes on where the table ends.
THEOREM SkipInvHolds == Spec => []SkipInv
<1>1. Init => SkipInv
  <2> SUFFICES ASSUME Init PROVE SkipInv
    OBVIOUS
  <2>1. SkipsExplained /\ seed = 0
    <3>1. \A r \in Payments : ~(r <= cursor)
      BY ConstantsOK DEF Init, NoCursor, Records
    <3> QED
      BY <3>1 DEF Init, SkipsExplained, AllBelow
  <2>2. ASSUME NEW a \in Actors PROVE ActorInv(a)
    <3>1. ~Reads(a)
      BY ActorsFacts DEF Init, Reads, At
    <3>2. todo[a] = << >> /\ fill[a] = << >> /\ phase[a] = "record" /\ (~IsPoll(a) => old[a] = 0)
      BY ActorsFacts DEF Init
    <3> QED
      BY <3>1, <3>2 DEF ActorInv, Follows, Busy
  <2> QED
    BY <2>1, <2>2 DEF SkipInv
<1> QED
  BY <1>1, SkipStep, TypeInvHolds, PTL DEF Spec

\* A payment the cursor has passed is stored, or a stream gave it up for a later
\* message, or a gap's backfill leapt over it: for any queue, page and window, any
\* number of processes and any faults.
THEOREM SkipsAreExplained == Spec => []SkipsExplained
<1>1. SkipInv => SkipsExplained
  BY DEF SkipInv
<1> QED
  BY <1>1, SkipInvHolds, PTL

(***************************************************************************)
(* History                                                                 *)
(***************************************************************************)
Seeded(a) == At(a) = "seed" => pos[a] = 0 \/ History <= pos[a]
Quiet == { "off", "noop", "wait", "idle", "ask" }
\* A step of one actor; others may be closed.
Alone(a) ==
  \A b \in Actors : b # a =>
    /\ todo'[b] = todo[b] /\ fill'[b] = fill[b] /\ pos'[b] = pos[b]
    /\ At(b)' = At(b) \/ At(b)' \in Quiet

\* Sequences above a bound.
LEMMA AboveTail ==
  ASSUME NEW k \in Int, NEW q \in Seq(Records), q # << >>, Above(q, k)
  PROVE  Above(Tail(q), k) /\ k < Head(q)
<1>1. /\ Len(q) \in Nat \ {0} /\ Len(Tail(q)) = Len(q) - 1 /\ Head(q) = q[1] /\ 1 \in 1..Len(q)
      /\ \A i \in 1..Len(Tail(q)) : Tail(q)[i] = q[i + 1]
  BY TailFacts
<1>2. \A i \in 1..Len(Tail(q)) : i + 1 \in 1..Len(q)
  BY <1>1
<1> QED
  BY <1>1, <1>2 DEF Above
\* A span is above where it starts.
LEMMA AboveSpan ==
  ASSUME NEW k \in Int, NEW lo \in 0..N, NEW hi \in 0..N, lo <= hi, k <= lo
  PROVE  Above(Span(lo, hi), k)
<1>1. Len(Span(lo, hi)) = hi - lo /\ \A i \in 1..(hi - lo) : Span(lo, hi)[i] = lo + i
  BY SpanFacts
<1> QED
  BY <1>1 DEF Above

\* An actor that stays, or is closed.
LEMMA HistoryKeep ==
  ASSUME NEW b \in Actors, todo'[b] = todo[b], fill'[b] = fill[b], pos'[b] = pos[b],
         At(b)' = At(b) \/ At(b)' \in Quiet
  PROVE  /\ Seeded(b) => Seeded(b)'
         /\ Recent(b) => Recent(b)'
         /\ Untouched(b) => Untouched(b)'
<1>1. Reads(b)' => Reads(b)
  BY DEF Reads, Quiet
<1>2. At(b)' = "seed" => At(b) = "seed"
  BY DEF Quiet
<1> QED
  BY <1>1, <1>2 DEF Seeded, Recent, Untouched, Above

\* One actor moves, and keeps its part.
LEMMA HistoryOne ==
  ASSUME TypeOK, TypeOK', HistoryInv, NEW a \in Actors, Alone(a), tip <= tip', Seeded(a)',
         cursor' = NoCursor => cursor = NoCursor /\ UNCHANGED << recorded, seed >> /\ Untouched(a)',
         seed' # 0 => seed # 0 /\ History <= cursor' /\ HistoryBounded' /\ Recent(a)'
  PROVE  HistoryInv'
<1>1. History <= tip'
  BY Numbers, ConstantsOK DEF HistoryInv, TypeOK
<1>2. ASSUME NEW b \in Actors, b # a
      PROVE  /\ Seeded(b) => Seeded(b)'
             /\ Recent(b) => Recent(b)'
             /\ Untouched(b) => Untouched(b)'
  BY <1>2, HistoryKeep DEF Alone
<1>3. \A b \in Actors : Seeded(b)'
  BY <1>2 DEF HistoryInv, Seeded
<1>4. cursor' = NoCursor => recorded' = {} /\ seed' = 0 /\ \A b \in Actors : Untouched(b)'
  BY <1>2 DEF HistoryInv
<1>5. seed' # 0 => \A b \in Actors : Recent(b)'
  BY <1>2 DEF HistoryInv
<1> QED
  BY <1>1, <1>3, <1>4, <1>5 DEF HistoryInv, Seeded

\* A step that stores nothing new.
LEMMA HistoryStill ==
  ASSUME TypeOK, TypeOK', HistoryInv, NEW a \in Actors, Alone(a), tip <= tip', Seeded(a)',
         UNCHANGED << cursor, recorded, seed >>,
         cursor = NoCursor => Untouched(a)', seed # 0 => Recent(a)'
  PROVE  HistoryInv'
<1>1. HistoryBounded' <=> HistoryBounded
  BY DEF HistoryBounded
<1> QED
  BY <1>1, HistoryOne DEF HistoryInv

\* A process that dies.
LEMMA HistoryDie ==
  ASSUME TypeOK, TypeOK', HistoryInv, NEW p \in Procs, NEW left, Die(p, left), UNCHANGED tip,
         cursor' = NoCursor => cursor = NoCursor /\ UNCHANGED << recorded, seed >>,
         seed' # 0 => seed # 0 /\ History <= cursor' /\ HistoryBounded'
  PROVE  HistoryInv'
<1>1. ASSUME NEW b \in Actors, b \in Of(p) PROVE Seeded(b)' /\ Recent(b)' /\ Untouched(b)'
  <2>1. todo'[b] = << >> /\ fill'[b] = << >>
    BY <1>1 DEF Die
  <2>2. b[1] = p
    BY <1>1 DEF Of
  <2>3. At(b)' \in { "off", "idle" }
    <3>1. CASE IsPoll(b)
      BY <2>2, <3>1 DEF Die, At, TypeOK
    <3>2. CASE ~IsPoll(b)
      BY <1>1, <3>2, ActorsFacts DEF Die, At
    <3> QED
      BY <3>1, <3>2
  <2> QED
    BY <2>1, <2>3 DEF Seeded, Recent, Untouched, Reads, Above
<1>2. ASSUME NEW b \in Actors, b \notin Of(p)
      PROVE  /\ Seeded(b) => Seeded(b)'
             /\ Recent(b) => Recent(b)'
             /\ Untouched(b) => Untouched(b)'
  <2>1. todo'[b] = todo[b] /\ fill'[b] = fill[b] /\ pos'[b] = pos[b]
    BY <1>2 DEF Die
  <2>2. b[1] # p
    BY <1>2 DEF Of
  <2>3. At(b)' = At(b)
    BY <1>2, <2>2, ActorsFacts DEF Die, TypeOK, At
  <2> QED
    BY <2>1, <2>3, HistoryKeep
<1>3. \A b \in Actors : Seeded(b)'
  BY <1>1, <1>2 DEF HistoryInv, Seeded
<1>4. cursor' = NoCursor => recorded' = {} /\ seed' = 0 /\ \A b \in Actors : Untouched(b)'
  BY <1>1, <1>2 DEF HistoryInv
<1>5. seed' # 0 => \A b \in Actors : Recent(b)'
  BY <1>1, <1>2 DEF HistoryInv
<1> QED
  BY <1>3, <1>4, <1>5 DEF HistoryInv, Seeded

\* The transaction of a record above the bound.
LEMMA HistoryTransaction ==
  ASSUME TypeOK, HistoryInv, cursor # NoCursor, NEW r \in Payments, NEW gap, Transaction(r, gap),
         seed # 0 => History + 1 - Window < r
  PROVE  /\ cursor' # NoCursor
         /\ seed' = seed
         /\ seed' # 0 => History <= cursor' /\ HistoryBounded'
<1>0. r \in 1..N /\ N \in Nat /\ History \in Int /\ cursor \in Int /\ Window \in Int
  BY Numbers
<1>1. seed' = seed /\ recorded' \subseteq recorded \cup {r}
  BY DEF Transaction, Insert
<1>2. cursor' # NoCursor /\ cursor <= cursor'
  BY <1>0 DEF Transaction, NoCursor
<1>3. seed # 0 => History <= cursor' /\ HistoryBounded'
  BY <1>0, <1>1, <1>2 DEF HistoryInv, HistoryBounded, Transaction
<1> QED
  BY <1>1, <1>2, <1>3

\* An actor done with a record.
LEMMA HistoryDone ==
  ASSUME TypeOK, TypeOK', SkipInv, HistoryInv, NEW a \in Actors, Busy(a), Done(a), UNCHANGED tip,
         cursor' # NoCursor, seed' = seed, seed' # 0 => History <= cursor' /\ HistoryBounded'
  PROVE  HistoryInv'
<1>0. todo[a] \in Seq(Records) /\ todo[a] # << >> /\ History \in Int /\ Window \in Nat /\ Head(todo[a]) \in Records
  BY Numbers, TailFacts DEF Busy
<1>1. /\ todo'[a] = Tail(todo[a]) /\ fill'[a] = << >> /\ At(a)' = At(a)
      /\ pos'[a] = pos[a] \/ pos'[a] = Head(todo[a])
  BY DEF Done, TypeOK, At
<1>2. Alone(a)
  BY DEF Alone, Done, TypeOK, At
<1>3. seed # 0 => Recent(a)'
  <2> SUFFICES ASSUME seed # 0 PROVE Recent(a)'
    OBVIOUS
  <2>1. Above(todo[a], History) /\ (Reads(a) => History <= pos[a])
    BY DEF HistoryInv, Recent
  <2>2. Above(Tail(todo[a]), History) /\ History < Head(todo[a])
    BY <1>0, <2>1, AboveTail
  <2>3. Reads(a)' => History <= pos'[a]
    BY <1>0, <1>1, <2>1, <2>2 DEF Reads, Records
  <2> QED
    BY <1>1, <2>2, <2>3 DEF Recent, Above
<1>4. Seeded(a)'
  <2>1. CASE IsPoll(a)
    BY <1>1, <2>1 DEF SkipInv, ActorInv, Seeded
  <2>2. CASE ~IsPoll(a)
    BY <1>1, <2>2 DEF Done, HistoryInv, Seeded
  <2> QED
    BY <2>1, <2>2
<1>5. tip <= tip'
  BY Numbers
<1> QED
  BY <1>2, <1>3, <1>4, <1>5, HistoryOne

\* A record that throws.
LEMMA HistoryFail ==
  ASSUME TypeOK, TypeOK', HistoryInv, NEW a \in Actors, Busy(a), Fail(a),
         cursor' # NoCursor, seed' = seed, seed' # 0 => History <= cursor' /\ HistoryBounded'
  PROVE  HistoryInv'
<1>0. UNCHANGED tip /\ tip <= tip'
  BY Numbers DEF Fail
<1>1. CASE IsPoll(a)
  BY <1>0, <1>1, HistoryDie, ActorsFacts DEF Fail
<1>2. CASE ~IsPoll(a)
  <2>0. todo[a] \in Seq(Records) /\ todo[a] # << >> /\ History \in Int /\ a \in Streams
    BY <1>2, Numbers, ActorsFacts DEF Busy
  <2>1. /\ todo' = [todo EXCEPT ![a] = Tail(@)] /\ fill' = [fill EXCEPT ![a] = << >>] /\ UNCHANGED << pos, pass >>
        /\ conn' = conn \/ conn' = [conn EXCEPT ![a] = "wait"]
    BY <1>2 DEF Fail, Restart
  <2>2. todo'[a] = Tail(todo[a]) /\ fill'[a] = << >> /\ pos'[a] = pos[a] /\ (At(a)' = At(a) \/ At(a)' = "wait")
    BY <1>2, <2>0, <2>1 DEF TypeOK, At
  <2>3. Alone(a)
    BY <2>0, <2>1, ActorsFacts DEF Alone, TypeOK, At
  <2>4. Seeded(a)'
    BY <2>2 DEF HistoryInv, Seeded
  <2>5. seed # 0 => Recent(a)'
    <3> SUFFICES ASSUME seed # 0 PROVE Recent(a)'
      OBVIOUS
    <3>1. Above(todo[a], History) /\ (Reads(a) => History <= pos[a])
      BY DEF HistoryInv, Recent
    <3>2. Above(Tail(todo[a]), History)
      BY <2>0, <3>1, AboveTail
    <3>3. Reads(a)' => History <= pos'[a]
      BY <2>2, <3>1 DEF Reads
    <3>4. Above(fill'[a], History + 1 - Window)
      BY <2>2 DEF Above
    <3> QED
      BY <2>2, <3>2, <3>3, <3>4 DEF Recent
  <2> QED
    BY <1>0, <2>3, <2>4, <2>5, HistoryOne
<1> QED
  BY <1>1, <1>2

\* An actor that has found where to read on, or has not.
LEMMA HistoryMove ==
  ASSUME TypeOK, TypeOK', HistoryInv, NEW a \in Actors, NEW l, Move(a, l), tip <= tip',
         UNCHANGED << cursor, recorded, seed, todo, fill >>,
         \A b \in Actors : b # a => pos'[b] = pos[b],
         l = "ask" \/ (l = "seed" /\ (pos'[a] = 0 \/ History <= pos'[a]))
                   \/ (l = Ready(a) /\ cursor # NoCursor /\ pos'[a] = cursor)
  PROVE  HistoryInv'
<1>0. At(a)' = l
  BY ActorsFacts DEF Move, At, TypeOK
<1>1. Alone(a)
  <2>1. ASSUME NEW b \in Actors, b # a PROVE At(b)' = At(b)
    <3>1. IsPoll(a) /\ IsPoll(b) => a[1] # b[1] /\ a[1] \in Procs /\ b[1] \in Procs
      BY <2>1, ActorsFacts
    <3>2. (~IsPoll(a) => a \in Streams) /\ (~IsPoll(b) => b \in Streams)
      BY ActorsFacts
    <3> QED
      BY <2>1, <3>1, <3>2 DEF Move, At, TypeOK
  <2> QED
    BY <2>1 DEF Alone
<1>2. Seeded(a)'
  BY <1>0 DEF Seeded, Ready
<1>3. cursor = NoCursor => Untouched(a)'
  BY <1>0 DEF HistoryInv, Untouched, Reads
<1>4. seed # 0 => Recent(a)'
  BY <1>0 DEF HistoryInv, Recent, Reads, Above
<1> QED
  BY <1>1, <1>2, <1>3, <1>4, HistoryStill

\* Every step keeps readers above what was there when the wallet was registered.
LEMMA HistoryStep == TypeInv /\ TypeInv' /\ SkipInv /\ HistoryInv /\ Grown /\ [Next]_vars => HistoryInv'
<1> SUFFICES ASSUME TypeOK, TypeOK', PhaseOK, SkipInv, HistoryInv, Grown, [Next]_vars PROVE HistoryInv'
  BY DEF TypeInv
<1>0. /\ N \in Nat /\ History \in 0..N /\ Window \in Nat \ {0} /\ PageSize \in Nat \ {0} /\ tip \in 0..N
      /\ tip' \in 0..N
  BY Numbers, ConstantsOK DEF TypeOK
<1>a. ASSUME tip <= tip', UNCHANGED << cursor, recorded, seed >>, UNCHANGED << pos, todo, fill >>,
             \A b \in Actors : At(b)' = At(b) \/ At(b)' \in Quiet
      PROVE  HistoryInv'
  <2>1. ASSUME NEW b \in Actors
        PROVE  /\ Seeded(b) => Seeded(b)'
               /\ Recent(b) => Recent(b)'
               /\ Untouched(b) => Untouched(b)'
    BY <1>a, <2>1, HistoryKeep
  <2>2. \A b \in Actors : Seeded(b)'
    BY <2>1 DEF HistoryInv, Seeded
  <2>3. cursor' = NoCursor => recorded' = {} /\ seed' = 0 /\ \A b \in Actors : Untouched(b)'
    BY <1>a, <2>1 DEF HistoryInv
  <2>4. seed' # 0 => History <= cursor' /\ HistoryBounded' /\ \A b \in Actors : Recent(b)'
    BY <1>a, <2>1 DEF HistoryInv, HistoryBounded
  <2>5. History <= tip'
    BY <1>0, <1>a DEF HistoryInv
  <2> QED
    BY <2>2, <2>3, <2>4, <2>5 DEF HistoryInv, Seeded
<1>b. ASSUME UNCHANGED actors, tip <= tip', UNCHANGED << cursor, recorded, seed >> PROVE HistoryInv'
  BY <1>a, <1>b DEF actors, At
<1>c. ASSUME NEW p \in Procs, NEW left, Die(p, left), UNCHANGED << tip, cursor, recorded, seed >> PROVE HistoryInv'
  <2>1. HistoryBounded' <=> HistoryBounded
    BY <1>c DEF HistoryBounded
  <2> QED
    BY <1>c, <2>1, HistoryDie DEF HistoryInv
<1>d. ASSUME NEW a \in Actors, FindCursor(a), UNCHANGED << tip, cursor, recorded, seed, todo, fill >>
      PROVE  HistoryInv'
  <2>1. pos' = [pos EXCEPT ![a] = Greater(0, cursor)]
    BY <1>d DEF FindCursor
  <2>2. pos'[a] = Greater(0, cursor) /\ \A b \in Actors : b # a => pos'[b] = pos[b]
    BY <2>1 DEF TypeOK
  <2>3. cursor # NoCursor => pos'[a] = cursor
    BY <2>2 DEF Greater, TypeOK
  <2>4. tip <= tip'
    BY <1>0, <1>d
  <2> QED
    BY <1>d, <2>2, <2>3, <2>4, HistoryMove DEF FindCursor
<1>e. ASSUME NEW s \in Streams, UNCHANGED << tip, cursor, recorded, seed, pos, todo, fill >>,
             conn' = conn \/ \E l \in { "wait", "noop" } : conn' = [conn EXCEPT ![s] = l],
             \A q \in Procs : pass'[q] = pass[q] \/ pass'[q] = "idle"
      PROVE  HistoryInv'
  <2>1. \A b \in Actors : At(b)' = At(b) \/ At(b)' \in Quiet
    BY <1>e, ActorsFacts DEF At, Quiet, TypeOK
  <2>2. tip <= tip'
    BY <1>0, <1>e
  <2> QED
    BY <1>a, <1>e, <2>1, <2>2
<1>f. ASSUME NEW a \in Actors, Reads(a) \/ Busy(a) \/ fill[a] # << >> PROVE cursor # NoCursor
  BY <1>f DEF HistoryInv, Untouched, Busy
<1>1. CASE NewRecord \/ KeyExpire \/ LeaseLost \/ UNCHANGED vars
  BY <1>1, <1>0, <1>b DEF NewRecord, KeyExpire, LeaseLost, vars, db, stored
<1>2. ASSUME NEW p \in Procs, Crash(p) \/ Stop(p) PROVE HistoryInv'
  BY <1>2, <1>c DEF Crash, Stop, db, stored
<1>3. ASSUME NEW p \in Procs, Drain(p) PROVE HistoryInv'
  BY <1>3, <1>0, <1>b DEF Drain, db, stored
<1>4. ASSUME NEW p \in Procs, Watcher(p) PROVE HistoryInv'
  <2>0. << p, "boot" >> \in Streams /\ << p, "late" >> \in Streams /\ Poll(p) \in Actors /\ IsPoll(Poll(p))
    BY ActorsFacts
  <2>a. At(Poll(p)) = pass[p] /\ At(Poll(p))' = pass'[p]
    BY ActorsFacts DEF At
  <2>1. CASE StartStream(p)
    BY <2>0, <2>1, <1>e DEF StartStream, TakeLease, db, stored
  <2>2. CASE PollStart(p)
    BY <2>0, <2>2, <1>d DEF PollStart, db, stored
  <2>3. CASE Fetch(p)
    <3> DEFINE a == Poll(p)
    <3>0. /\ pass[p] = "fetch" /\ Reads(a) /\ UNCHANGED << tip, conn, pos, fill, cursor, recorded, seed >>
          /\ \E l \in { "stream", "last", "page" } : pass' = [pass EXCEPT ![p] = l]
      BY <2>0, <2>a, <2>3 DEF Fetch, GotoPass, Reads, db, stored
    <3>1. cursor # NoCursor /\ tip <= tip'
      BY <1>0, <1>f, <2>0, <3>0
    <3>2. At(a)' \in { "stream", "last", "page" }
      BY <2>a, <3>0 DEF TypeOK
    <3>3. \E q : todo' = [todo EXCEPT ![a] = q] \/ todo' = todo
      BY <2>3 DEF Fetch
    <3>4. Alone(a)
      <4>1. ASSUME NEW b \in Actors, b # a PROVE At(b)' = At(b)
        BY <4>1, <3>0, ActorsFacts DEF TypeOK, At
      <4>2. ASSUME NEW b \in Actors, b # a PROVE todo'[b] = todo[b]
        BY <4>2, <3>3 DEF TypeOK
      <4> QED
        BY <3>0, <4>1, <4>2 DEF Alone
    <3>5. seed # 0 => Recent(a)'
      <4> SUFFICES ASSUME seed # 0 PROVE Recent(a)'
        OBVIOUS
      <4>0. Recent(a) /\ History <= pos[a] /\ pos[a] \in 0..N
        BY <2>0, <3>0, Numbers DEF HistoryInv, Recent
      <4>1. Above(todo'[a], History)
        <5>1. CASE UNCHANGED todo
          BY <4>0, <5>1 DEF Recent
        <5>2. CASE /\ pos[a] < tip
                   /\ todo' = [todo EXCEPT ![a] = Span(pos[a], Lesser(pos[a] + PageSize, tip))]
          <6>1. /\ Lesser(pos[a] + PageSize, tip) \in 0..N
                /\ pos[a] <= Lesser(pos[a] + PageSize, tip)
            BY <1>0, <4>0, <5>2 DEF Lesser
          <6>2. todo'[a] = Span(pos[a], Lesser(pos[a] + PageSize, tip))
            BY <2>0, <5>2 DEF TypeOK
          <6> QED
            BY <1>0, <4>0, <6>1, <6>2, AboveSpan
        <5> QED
          BY <2>3, <5>1, <5>2 DEF Fetch
      <4> QED
        BY <3>0, <4>0, <4>1 DEF Recent, Above
    <3>6. Seeded(a)'
      BY <3>2 DEF Seeded
    <3> QED
      BY <2>0, <3>0, <3>1, <3>4, <3>5, <3>6, HistoryStill
  <2>4. CASE PageDone(p)
    <3> DEFINE a == Poll(p)
    <3>0. /\ pass[p] \in { "page", "last" } /\ Reads(a)
          /\ UNCHANGED << tip, cursor, recorded, seed, conn, pos, todo, fill >>
          /\ \E l \in { "stream", "fetch" } : pass' = [pass EXCEPT ![p] = l]
      BY <2>a, <2>4 DEF PageDone, GotoPass, db, stored, Reads
    <3>1. cursor # NoCursor /\ tip <= tip'
      BY <1>0, <1>f, <2>0, <3>0
    <3>2. At(a)' \in { "stream", "fetch" }
      BY <2>a, <3>0 DEF TypeOK
    <3>3. Alone(a)
      <4>1. ASSUME NEW b \in Actors, b # a PROVE At(b)' = At(b)
        BY <4>1, <3>0, ActorsFacts DEF TypeOK, At
      <4> QED
        BY <3>0, <4>1 DEF Alone
    <3>4. seed # 0 => Recent(a)'
      BY <2>0, <3>0 DEF HistoryInv, Recent, Above
    <3>5. Seeded(a)'
      BY <3>2 DEF Seeded
    <3> QED
      BY <2>0, <3>0, <3>1, <3>3, <3>4, <3>5, HistoryStill
  <2>5. CASE PollEnd(p)
    <3>1. \A q \in Procs : pass'[q] = pass[q] \/ pass'[q] = "idle"
      BY <2>5 DEF PollEnd, GotoPass, TypeOK
    <3> QED
      BY <2>0, <2>5, <3>1, <1>e DEF PollEnd, TakeLease, db, stored
  <2> QED
    BY <1>4, <2>1, <2>2, <2>3, <2>4, <2>5 DEF Watcher
<1>5. ASSUME NEW s \in Streams, Stream(s) PROVE HistoryInv'
  <2>0. s \in Actors /\ ~IsPoll(s) /\ At(s) = conn[s] /\ At(s)' = conn'[s]
    BY ActorsFacts DEF At
  <2>1. CASE Connect(s)
    BY <2>0, <2>1, <1>d DEF Connect, db, stored
  <2>2. CASE Heartbeat(s)
    BY <2>0, <2>2, <1>e DEF Heartbeat, db, stored
  <2>3. CASE Emit(s)
    <3>0. /\ conn[s] = "open" /\ pos' = [pos EXCEPT ![s] = pos[s] + 1] /\ pos[s] < tip
          /\ UNCHANGED << tip, cursor, recorded, seed, pass, fill >>
          /\ todo[s] \in Seq(Records) /\ pos[s] \in 0..N /\ Reads(s)
      BY <2>0, <2>3, Numbers DEF Emit, db, stored, Reads
    <3>1. cursor # NoCursor /\ tip <= tip' /\ pos[s] + 1 \in Records /\ pos'[s] = pos[s] + 1
      BY <1>0, <1>f, <2>0, <3>0 DEF Records, TypeOK
    <3>2. /\ conn' = conn \/ conn' = [conn EXCEPT ![s] = "wait"]
          /\ todo' = todo \/ todo' = [todo EXCEPT ![s] = Append(@, pos[s] + 1)]
      BY <2>0, <2>3 DEF Emit, Restart, TypeOK
    <3>3. Alone(s)
      BY <2>0, <3>0, <3>2, ActorsFacts DEF Alone, At, TypeOK
    <3>4. Seeded(s)'
      BY <2>0, <3>0, <3>2 DEF Seeded, TypeOK
    <3>5. seed # 0 => Recent(s)'
      <4> SUFFICES ASSUME seed # 0 PROVE Recent(s)'
        OBVIOUS
      <4>0. Recent(s) /\ History <= pos[s]
        BY <2>0, <3>0 DEF HistoryInv, Recent
      <4>1. Above(todo'[s], History)
        <5>1. CASE todo' = todo
          BY <4>0, <5>1 DEF Recent
        <5>2. CASE todo' = [todo EXCEPT ![s] = Append(@, pos[s] + 1)]
          <6>1. /\ todo'[s] = Append(todo[s], pos[s] + 1) /\ Len(todo[s]) \in Nat
                /\ Len(Append(todo[s], pos[s] + 1)) = Len(todo[s]) + 1
                /\ Append(todo[s], pos[s] + 1)[Len(todo[s]) + 1] = pos[s] + 1
                /\ \A k \in 1..Len(todo[s]) : Append(todo[s], pos[s] + 1)[k] = todo[s][k]
            BY <2>0, <3>0, <3>1, <5>2 DEF TypeOK
          <6>2. History < pos[s] + 1
            BY <1>0, <3>0, <4>0
          <6> QED
            BY <4>0, <6>1, <6>2 DEF Recent, Above
        <5> QED
          BY <3>2, <5>1, <5>2
      <4>2. History <= pos'[s]
        BY <1>0, <3>0, <3>1, <4>0
      <4> QED
        BY <3>0, <4>0, <4>1, <4>2 DEF Recent, Above
    <3> QED
      BY <2>0, <3>0, <3>1, <3>3, <3>4, <3>5, HistoryStill
  <2> QED
    BY <1>5, <2>1, <2>2, <2>3 DEF Stream
<1>6. ASSUME NEW a \in Actors, Process(a) PROVE HistoryInv'
  <2>a. ASSUME UNCHANGED << cursor, recorded, seed >>, cursor # NoCursor
        PROVE  cursor' # NoCursor /\ seed' = seed /\ (seed' # 0 => History <= cursor' /\ HistoryBounded')
    BY <2>a DEF HistoryInv, HistoryBounded
  <2>b. phase[a] # "record" => Busy(a)
    BY DEF PhaseOK
  <2>1. CASE Ignore(a)
    BY <1>f, <2>a, <2>1, HistoryDone DEF Ignore, db, stored
  <2>2. CASE Commit(a)
    <3>0. Busy(a) /\ Head(todo[a]) \in Payments /\ \E gap : Transaction(Head(todo[a]), gap) /\ UNCHANGED tip
      BY <2>2 DEF Commit
    <3>1. cursor # NoCursor
      BY <1>f, <3>0
    <3>2. seed # 0 => History + 1 - Window < Head(todo[a])
      <4>1. seed # 0 => History < Head(todo[a])
        <5>1. todo[a] \in Seq(Records) /\ todo[a] # << >> /\ History \in Int
          BY <1>0, <3>0, Numbers DEF Busy
        <5>2. seed # 0 => Above(todo[a], History)
          BY DEF HistoryInv, Recent
        <5> QED
          BY <5>1, <5>2, AboveTail
      <4>2. Head(todo[a]) \in Int
        BY <3>0, StepNumbers
      <4> QED
        BY <1>0, <4>1, <4>2
    <3>3. cursor' # NoCursor /\ seed' = seed /\ (seed' # 0 => History <= cursor' /\ HistoryBounded')
      BY <3>0, <3>1, <3>2, HistoryTransaction
    <3>4. CASE Done(a)
      BY <3>0, <3>3, <3>4, HistoryDone
    <3>5. CASE /\ phase' = [phase EXCEPT ![a] = "gap"]
               /\ UNCHANGED << key, dropped, conn, pass, pages, pos, todo, old, fill, used >>
      <4>1. Alone(a) /\ Seeded(a)' /\ (seed' # 0 => Recent(a)')
        BY <3>3, <3>5 DEF Alone, At, Seeded, Recent, HistoryInv, Reads, Above
      <4>2. tip <= tip'
        BY <1>0, <3>0
      <4> QED
        BY <3>3, <4>1, <4>2, HistoryOne
    <3>6. CASE Fail(a)
      BY <3>0, <3>3, <3>6, HistoryFail
    <3> QED
      BY <2>2, <3>4, <3>5, <3>6 DEF Commit
  <2>3. CASE Throw(a)
    BY <1>f, <2>a, <2>3, HistoryFail DEF Throw, Working, stored
  <2>4. CASE FetchRecent(a)
    <3>0. /\ UNCHANGED << tip, cursor, recorded, seed, conn, pass, pos, todo >> /\ tip <= tip' /\ phase[a] # "record"
          /\ fill' = [fill EXCEPT ![a] = << >>] \/ fill' = [fill EXCEPT ![a] = Span(Greater(0, tip - Window), tip)]
      BY <1>0, <2>4 DEF FetchRecent, stored
    <3>1. cursor # NoCursor
      BY <1>f, <2>b, <3>0
    <3>2. Alone(a) /\ Seeded(a)'
      BY <3>0 DEF Alone, TypeOK, At, HistoryInv, Seeded
    <3>3. ASSUME seed # 0 PROVE Above(fill'[a], History + 1 - Window)
      <4>0. History < tip
        BY <2>b, <3>0, <3>3 DEF Grown
      <4>1. CASE fill'[a] = << >>
        BY <4>1 DEF Above
      <4>2. CASE fill'[a] = Span(Greater(0, tip - Window), tip)
        <5>1. /\ Greater(0, tip - Window) \in 0..N /\ Greater(0, tip - Window) <= tip
              /\ History + 1 - Window <= Greater(0, tip - Window) /\ History + 1 - Window \in Int
          BY <1>0, <4>0 DEF Greater
        <5> QED
          BY <1>0, <4>2, <5>1, AboveSpan
      <4> QED
        BY <3>0, <4>1, <4>2 DEF TypeOK
    <3>4. seed # 0 => Recent(a)'
      BY <3>0, <3>3 DEF HistoryInv, Recent, Reads, At, Above
    <3> QED
      BY <3>0, <3>1, <3>2, <3>4, HistoryStill
  <2>5. CASE Backfill(a)
    <3>0. /\ UNCHANGED << tip, conn, pass, pos, todo >> /\ tip <= tip' /\ fill[a] # << >> /\ fill[a] \in Seq(Records)
          /\ fill' = [fill EXCEPT ![a] = Tail(@)]
      BY <1>0, <2>5, Numbers DEF Backfill
    <3>1. cursor # NoCursor
      BY <1>f, <3>0
    <3>2. Alone(a) /\ Seeded(a)' /\ fill'[a] = Tail(fill[a])
      BY <3>0 DEF Alone, TypeOK, At, HistoryInv, Seeded
    <3>3. seed # 0 => Above(Tail(fill[a]), History + 1 - Window) /\ History + 1 - Window < Head(fill[a])
      <4>1. History + 1 - Window \in Int
        BY <1>0
      <4>2. seed # 0 => Above(fill[a], History + 1 - Window)
        BY DEF HistoryInv, Recent
      <4> QED
        BY <3>0, <4>1, <4>2, AboveTail
    <3>4. cursor' # NoCursor /\ seed' = seed /\ (seed' # 0 => History <= cursor' /\ HistoryBounded')
      <4>1. CASE UNCHANGED stored
        BY <2>a, <3>1, <4>1 DEF stored
      <4>2. CASE Head(fill[a]) \in Payments /\ Transaction(Head(fill[a]), FALSE)
        BY <3>1, <3>3, <4>2, HistoryTransaction
      <4> QED
        BY <2>5, <4>1, <4>2 DEF Backfill
    <3>5. seed # 0 => Recent(a)'
      BY <3>0, <3>2, <3>3 DEF HistoryInv, Recent, Reads, At, Above
    <3> QED
      BY <3>0, <3>2, <3>4, <3>5, HistoryOne
  <2>6. CASE ClearGap(a)
    BY <1>f, <2>a, <2>b, <2>6, HistoryDone DEF ClearGap
  <2> QED
    BY <1>6, <2>1, <2>2, <2>3, <2>4, <2>5, <2>6 DEF Process
<1>7. ASSUME NEW a \in Actors, Seeding(a) PROVE HistoryInv'
  <2>0. UNCHANGED << tip, todo, fill, recorded >> /\ tip <= tip' /\ pos[a] \in 0..N
    BY <1>0, <1>7, Numbers DEF Seeding, AskLatest, CreateCursor, db, stored
  <2>1. CASE AskLatest(a)
    <3>1. /\ \A b \in Actors : b # a => pos'[b] = pos[b]
          /\ pos'[a] = 0 \/ pos'[a] = tip
      BY <2>1 DEF AskLatest, TypeOK
    <3>2. pos'[a] = 0 \/ History <= pos'[a]
      BY <3>1 DEF HistoryInv
    <3>3. Move(a, "seed") /\ UNCHANGED << cursor, recorded, seed, todo, fill >>
      BY <2>1 DEF AskLatest, db, stored
    <3> QED
      BY <2>0, <3>1, <3>2, <3>3, HistoryMove
  <2>2. CASE CreateCursor(a)
    <3>0. Move(a, Ready(a)) /\ At(a) = "seed"
      BY <2>2 DEF CreateCursor
    <3>1. CASE cursor = NoCursor /\ cursor' = pos[a] /\ seed' = pos[a] /\ UNCHANGED pos
      <4>1. recorded = {} /\ (\A b \in Actors : Untouched(b)) /\ (pos[a] = 0 \/ History <= pos[a])
        BY <3>0, <3>1 DEF HistoryInv
      <4>2. At(a)' = Ready(a) /\ \A b \in Actors : b # a => At(b)' = At(b)
        <5>1. At(a)' = Ready(a)
          BY <3>0, ActorsFacts DEF Move, At, TypeOK
        <5>2. ASSUME NEW b \in Actors, b # a PROVE At(b)' = At(b)
          <6>1. IsPoll(a) /\ IsPoll(b) => a[1] # b[1] /\ a[1] \in Procs /\ b[1] \in Procs
            BY <5>2, ActorsFacts
          <6>2. (~IsPoll(a) => a \in Streams) /\ (~IsPoll(b) => b \in Streams)
            BY ActorsFacts
          <6> QED
            BY <3>0, <5>2, <6>1, <6>2 DEF Move, At, TypeOK
        <5> QED
          BY <5>1, <5>2
      <4>3. \A b \in Actors : Seeded(b)'
        BY <3>1, <4>2 DEF HistoryInv, Seeded, Ready
      <4>4. cursor' # NoCursor
        BY <2>0, <3>1 DEF NoCursor
      <4>5. seed' # 0 => History <= cursor' /\ HistoryBounded'
        BY <2>0, <3>1, <4>1 DEF HistoryBounded
      <4>6. ASSUME seed' # 0, NEW b \in Actors PROVE Recent(b)'
        <5>1. todo'[b] = << >> /\ fill'[b] = << >>
          BY <2>0, <4>1 DEF Untouched
        <5>2. Reads(b)' => b = a
          BY <4>1, <4>2 DEF Untouched, Reads
        <5>3. Reads(b)' => History <= pos'[b]
          BY <3>1, <4>1, <4>6, <5>2
        <5> QED
          BY <5>1, <5>3 DEF Recent, Above
      <4> QED
        BY <2>0, <4>3, <4>4, <4>5, <4>6 DEF HistoryInv, Seeded
    <3>2. CASE cursor # NoCursor /\ pos' = [pos EXCEPT ![a] = cursor] /\ UNCHANGED << cursor, seed >>
      <4>1. pos'[a] = cursor /\ \A b \in Actors : b # a => pos'[b] = pos[b]
        BY <3>2 DEF TypeOK
      <4> QED
        BY <2>0, <3>0, <3>2, <4>1, HistoryMove
    <3> QED
      BY <2>2, <3>1, <3>2 DEF CreateCursor
  <2> QED
    BY <1>7, <2>1, <2>2 DEF Seeding
<1> QED
  BY <1>1, <1>2, <1>3, <1>4, <1>5, <1>6, <1>7 DEF Next

\* Records get into a page or queue from above a position that is above the history.
LEMMA GrownStep == TypeInv /\ TypeInv' /\ HistoryInv /\ Grown /\ [Next]_vars => Grown'
<1> SUFFICES ASSUME TypeOK, TypeOK', PhaseOK, HistoryInv, Grown, [Next]_vars PROVE Grown'
  BY DEF TypeInv
<1>0. History \in Int /\ tip \in Int /\ tip' \in Int /\ \A a \in Actors : pos[a] \in Int
  BY Numbers, ConstantsOK DEF TypeOK
<1>a. ASSUME tip <= tip', seed' = seed, \A a \in Actors : Busy(a)' => Busy(a) PROVE Grown'
  BY <1>0, <1>a DEF Grown
<1>b. ASSUME NEW a \in Actors, Reads(a), pos[a] < tip, tip' = tip, seed' = seed PROVE Grown'
  BY <1>0, <1>b DEF Grown, HistoryInv, Recent
<1>c. ASSUME NEW p, NEW left, Die(p, left) PROVE \A a \in Actors : Busy(a)' => Busy(a)
  BY <1>c DEF Die, Busy
<1>d. ASSUME NEW a \in Actors, Busy(a), Done(a) \/ Fail(a) PROVE \A b \in Actors : Busy(b)' => Busy(b)
  <2>1. CASE IsPoll(a) /\ Fail(a)
    BY <1>c, <2>1 DEF Fail
  <2>2. CASE todo' = [todo EXCEPT ![a] = Tail(@)]
    BY <1>d, <2>2 DEF Busy, TypeOK
  <2> QED
    BY <1>d, <2>1, <2>2 DEF Done, Fail, Restart
<1>e. ASSUME UNCHANGED todo PROVE \A b \in Actors : Busy(b)' => Busy(b)
  BY <1>e DEF Busy
<1>1. CASE NewRecord \/ KeyExpire \/ LeaseLost \/ UNCHANGED vars
  BY <1>1, <1>0, <1>a, <1>e DEF NewRecord, KeyExpire, LeaseLost, vars, actors, db, stored
<1>2. ASSUME NEW p \in Procs, Crash(p) \/ Stop(p) \/ Drain(p) PROVE Grown'
  <2>1. tip' = tip /\ seed' = seed
    BY <1>2 DEF Crash, Stop, Drain, db, stored
  <2>2. UNCHANGED todo \/ \E left : Die(p, left)
    BY <1>2 DEF Crash, Stop, Drain, actors
  <2> QED
    BY <1>0, <1>a, <1>c, <1>e, <2>1, <2>2
<1>3. ASSUME NEW p \in Procs, Watcher(p) PROVE Grown'
  <2>1. CASE StartStream(p) \/ PollStart(p) \/ PageDone(p) \/ PollEnd(p)
    BY <2>1, <1>0, <1>a, <1>e DEF StartStream, PollStart, PageDone, PollEnd, db, stored
  <2>2. CASE Fetch(p)
    <3>0. tip' = tip /\ seed' = seed /\ Poll(p) \in Actors /\ Reads(Poll(p))
      BY <2>2, ActorsFacts DEF Fetch, db, stored, Reads, At
    <3>1. CASE UNCHANGED todo
      BY <1>0, <1>a, <1>e, <3>0, <3>1
    <3>2. CASE pos[Poll(p)] < tip
      BY <1>b, <3>0, <3>2
    <3> QED
      BY <2>2, <3>1, <3>2 DEF Fetch
  <2> QED
    BY <1>3, <2>1, <2>2 DEF Watcher
<1>4. ASSUME NEW s \in Streams, Stream(s) PROVE Grown'
  <2>0. s \in Actors /\ At(s) = conn[s]
    BY ActorsFacts DEF At
  <2>1. CASE Connect(s) \/ Heartbeat(s)
    BY <2>1, <1>0, <1>a, <1>e DEF Connect, Heartbeat, db, stored
  <2>2. CASE Emit(s)
    BY <2>0, <2>2, <1>b DEF Emit, db, stored, Reads
  <2> QED
    BY <1>4, <2>1, <2>2 DEF Stream
<1>5. ASSUME NEW a \in Actors, Process(a) PROVE Grown'
  <2>1. tip' = tip /\ seed' = seed
    BY <1>5 DEF Process, Ignore, Commit, Throw, FetchRecent, Backfill, ClearGap, Transaction, Fail, db, stored
  <2>2. phase[a] # "record" => Busy(a)
    BY DEF PhaseOK
  <2>3. UNCHANGED todo \/ (Busy(a) /\ (Done(a) \/ Fail(a)))
    BY <1>5, <2>2 DEF Process, Ignore, Commit, Throw, Working, FetchRecent, Backfill, ClearGap
  <2> QED
    BY <1>0, <1>a, <1>d, <1>e, <2>1, <2>3
<1>6. ASSUME NEW a \in Actors, Seeding(a) PROVE Grown'
  <2>0. tip' = tip /\ UNCHANGED todo
    BY <1>6 DEF Seeding, AskLatest, CreateCursor
  <2>1. CASE seed' = seed
    BY <1>0, <1>a, <1>e, <2>0, <2>1
  <2>2. CASE cursor = NoCursor
    BY <2>0, <2>2 DEF HistoryInv, Untouched, Busy, Grown
  <2> QED
    BY <1>6, <2>1, <2>2 DEF Seeding, AskLatest, CreateCursor, db, stored
<1> QED
  BY <1>1, <1>2, <1>3, <1>4, <1>5, <1>6 DEF Next

\* Nobody reads before there is a row, and all read on from it.
THEOREM HistoryInvHolds == Spec => []HistoryInv
<1>1. Init => HistoryInv
  <2> SUFFICES ASSUME Init PROVE HistoryInv
    OBVIOUS
  <2>1. \A a \in Actors : At(a) \in { "off", "idle" } /\ todo[a] = << >> /\ fill[a] = << >>
    BY ActorsFacts DEF Init, At
  <2>2. History <= tip
    BY ConstantsOK DEF Init
  <2> QED
    BY <2>1, <2>2 DEF Init, HistoryInv, Untouched, Reads
<1>2. Init => Grown
  BY ActorsFacts DEF Init, Grown
<1> QED
  BY <1>1, <1>2, HistoryStep, GrownStep, SkipInvHolds, TypeInvHolds, PTL DEF Spec

\* Of a wallet's history less than one backfill window is ingested, gaps and the
\* race of several actors for the first cursor included, unless the cursor was
\* created while Horizon failed.
THEOREM HistoryIsBounded == Spec => []HistoryBounded
<1>1. HistoryInv => HistoryBounded
  BY DEF HistoryInv, HistoryBounded
<1> QED
  BY <1>1, HistoryInvHolds, PTL

==============================================================================
