------------------------------ MODULE Ingestion ------------------------------
(***************************************************************************)
(* Ingestion of one watched wallet (apps/api/src/workers/watcher.worker.ts) *)
(* by replicated watcher processes.  Every process polls Horizon from the  *)
(* persisted cursor and tries to hold a live stream: one when it starts    *)
(* ("boot") and one after its first poll ("late").  Both paths end in      *)
(* processPaymentRecord, which takes the wallet lock and stores the        *)
(* payment, its outbox events and the cursor in one transaction.  The      *)
(* stream lease of lib/redlock.ts and the wallet lock of lib/lock.ts are   *)
(* the same Redis key.                                                     *)
(* A Horizon record stands for its paging token: records are 1..N.         *)
(***************************************************************************)
EXTENDS Integers, Sequences, FiniteSets

CONSTANTS
  Procs,          \* watcher processes, each respawned by its supervisor
  N,              \* records Horizon will ever have for the wallet
  History,        \* records Horizon has before the wallet is registered
  Payments,       \* the records that are payments; the others are ignored
  Tx,             \* transaction of each record
  Ledger,         \* ledger of each record
  MaxLedgerJump,  \* DEFAULT_MAX_LEDGER_JUMP
  Window,         \* BOUNDED_BACKFILL_LIMIT
  PageSize,       \* CURSOR_PAGE_SIZE
  MaxPages,       \* MAX_CATCHUP_PAGES
  MaxQueued,      \* maxQueuedMessages
  Faults,         \* which of FaultKinds may happen
  MaxFaults       \* how often, all kinds together

FaultKinds ==
  { "crash",    \* a process dies
    "stop",     \* a process is told to stop (SIGTERM, SIGINT)
    "db",       \* a statement or its reply is lost, or the lock is contended
    "horizon",  \* every Horizon node fails, or a connection goes silent
    "lease" }   \* a lease is not renewed in time

Records == 1..N
NoCursor == -1

ASSUME ConstantsOK ==
  /\ N \in Nat
  /\ History \in 0..N
  /\ Payments \subseteq Records
  /\ DOMAIN Tx = Records
  /\ Ledger \in [Records -> Nat]
  /\ MaxLedgerJump \in Nat
  /\ { Window, PageSize, MaxPages, MaxQueued } \subseteq Nat \ {0}
  /\ Faults \subseteq FaultKinds
  /\ MaxFaults \in Nat

VARIABLES
  tip,       \* newest record on Horizon
  cursor,    \* IngestionCursor.pagingToken, NoCursor while there is no row
  status,    \* IngestionCursor.status
  recorded,  \* Payment rows, as the records they were made from
  lease,     \* the stream that holds the Redis key, as a set
  orphan,    \* the Redis key is left from a dead process
  conn,      \* of each stream: its connection
  pass,      \* of each process: where its poll is
  pages,     \* of each process: pages this poll has processed
  pos,       \* of each actor: in-memory cursor, or last record streamed
  todo,      \* of each actor: rest of the page, or queue of messages
  old,       \* of each stream: leading messages of an earlier generation
  phase,     \* of each actor: progress of processPaymentRecord on Head(todo)
  fill,      \* of each actor: rest of its bounded backfill
  draining,  \* processes that have been told to stop
  lapsed,    \* history: streams that go on without the lease they had
  seed,      \* history: token the cursor was created with
  dropped,   \* history: records a stream gave up, or a backfill leapt over
  used       \* history: faults so far

stored == << cursor, status, recorded, seed >>
db == << stored, dropped >>
key == << lease, orphan, draining, lapsed >>
actors == << conn, pass, pages, pos, todo, old, phase, fill >>
vars == << tip, db, key, actors, used >>

Streams == Procs \X { "boot", "late" }
Poll(p) == << p, "poll" >>
Actors == Streams \cup { Poll(p) : p \in Procs }
Of(p) == { a \in Actors : a[1] = p }
IsPoll(a) == a[2] = "poll"

Init ==
  /\ tip = History
  /\ cursor = NoCursor
  /\ status = "active"
  /\ recorded = {}
  /\ lease = {}
  /\ orphan = FALSE
  /\ conn = [s \in Streams |-> "off"]
  /\ pass = [p \in Procs |-> "idle"]
  /\ pages = [p \in Procs |-> 0]
  /\ pos = [a \in Actors |-> 0]
  /\ todo = [a \in Actors |-> << >>]
  /\ old = [s \in Streams |-> 0]
  /\ phase = [a \in Actors |-> "record"]
  /\ fill = [a \in Actors |-> << >>]
  /\ draining = {} /\ lapsed = {}
  /\ seed = 0
  /\ dropped = {}
  /\ used = 0

Fault(kind) == kind \in Faults /\ used < MaxFaults /\ used' = used + 1
KeyFree == lease = {} /\ ~orphan
Span(lo, hi) == [i \in 1..(hi - lo) |-> lo + i]
Lesser(a, b) == IF a <= b THEN a ELSE b
Greater(a, b) == IF a <= b THEN b ELSE a

NewRecord ==
  /\ tip < N
  /\ tip' = tip + 1
  /\ UNCHANGED << db, key, actors, used >>

\* The process dies: its memory is gone.  Its lease stays until it expires, and
\* so does the wallet lock of a transaction it was in.
Die(p, left) ==
  /\ conn' = [s \in Streams |-> IF s \in Of(p) THEN "off" ELSE conn[s]]
  /\ pass' = [pass EXCEPT ![p] = "idle"]
  /\ pages' = [pages EXCEPT ![p] = 0]
  /\ pos' = [a \in Actors |-> IF a \in Of(p) THEN 0 ELSE pos[a]]
  /\ todo' = [a \in Actors |-> IF a \in Of(p) THEN << >> ELSE todo[a]]
  /\ old' = [s \in Streams |-> IF s \in Of(p) THEN 0 ELSE old[s]]
  /\ phase' = [a \in Actors |-> IF a \in Of(p) THEN "record" ELSE phase[a]]
  /\ fill' = [a \in Actors |-> IF a \in Of(p) THEN << >> ELSE fill[a]]
  /\ lease' = lease \ Of(p)
  /\ orphan' = (orphan \/ left)
  /\ draining' = draining \ {p}
  /\ lapsed' = lapsed \ Of(p)

Holds(p) == lease \cap Of(p) # {}

Crash(p) ==
  /\ Fault("crash")
  /\ \/ Die(p, Holds(p))
     \/ KeyFree /\ Die(p, TRUE)
  /\ UNCHANGED << tip, db >>

(***************************************************************************)
(* A shutdown signal: DistributedLockManager releases the leases at once,  *)
(* the lifecycle starts no further poll and waits for the one in flight, a *)
(* bounded time.  The streams run on until its cleanup closes them.        *)
(***************************************************************************)
Drain(p) ==
  /\ p \notin draining
  /\ Fault("stop")
  /\ draining' = draining \cup {p}
  /\ lapsed' = lapsed \cup (lease \cap Of(p))
  /\ lease' = lease \ Of(p)
  /\ UNCHANGED << tip, db, orphan, actors >>

Stop(p) ==
  /\ p \in draining
  /\ Die(p, FALSE)
  /\ UNCHANGED << tip, db, used >>

\* The TTL of a dead process's key passes.
KeyExpire ==
  /\ orphan
  /\ orphan' = FALSE
  /\ UNCHANGED << tip, db, lease, draining, lapsed, actors, used >>

\* DistributedLock: a renewal fails, the heartbeat stops and the key expires.
\* The stream is not told.
LeaseLost ==
  /\ lease # {}
  /\ Fault("lease")
  /\ lease' = {}
  /\ lapsed' = lapsed \cup lease
  /\ UNCHANGED << tip, db, orphan, draining, actors >>

(***************************************************************************)
(* ensureCursor, for a stream that connects or a poll: the persisted       *)
(* token, or else the newest record on Horizon ('0' when Horizon fails),   *)
(* with which the row is created unless another actor has done so.         *)
(***************************************************************************)
At(a) == IF IsPoll(a) THEN pass[a[1]] ELSE conn[a]
Ready(a) == IF IsPoll(a) THEN "fetch" ELSE "open"
Move(a, l) ==
  /\ conn' = IF IsPoll(a) THEN conn ELSE [conn EXCEPT ![a] = l]
  /\ pass' = IF IsPoll(a) THEN [pass EXCEPT ![a[1]] = l] ELSE pass

FindCursor(a) ==
  /\ pos' = [pos EXCEPT ![a] = Greater(0, cursor)]
  /\ Move(a, IF cursor = NoCursor THEN "ask" ELSE Ready(a))

AskLatest(a) ==
  /\ At(a) = "ask"
  /\ \/ pos' = [pos EXCEPT ![a] = tip] /\ UNCHANGED used
     \/ pos' = [pos EXCEPT ![a] = 0] /\ Fault("horizon")
  /\ Move(a, "seed")
  /\ UNCHANGED << tip, db, key, pages, todo, old, phase, fill >>

\* The caller goes on from the token it asked for, whichever row there is.
CreateCursor_OwnToken(a) ==
  /\ At(a) = "seed"
  /\ \/ cursor = NoCursor /\ cursor' = pos[a] /\ seed' = pos[a]
     \/ cursor # NoCursor /\ UNCHANGED << cursor, seed >>
  /\ Move(a, Ready(a))
  /\ UNCHANGED << tip, status, recorded, dropped, key, pages, pos, todo, old, phase, fill, used >>

\* upsert with an empty update: the row's token counts.
CreateCursor(a) ==
  /\ At(a) = "seed"
  /\ \/ cursor = NoCursor /\ cursor' = pos[a] /\ seed' = pos[a] /\ UNCHANGED pos
     \/ cursor # NoCursor /\ pos' = [pos EXCEPT ![a] = cursor] /\ UNCHANGED << cursor, seed >>
  /\ Move(a, Ready(a))
  /\ UNCHANGED << tip, status, recorded, dropped, key, pages, todo, old, phase, fill, used >>

(***************************************************************************)
(* startHorizonSSEStream                                                   *)
(***************************************************************************)
\* The lease, or no stream at all: the key is taken, by a lease or just now
\* by a record in process, or Redis does not answer.
TakeLease_Ignored(s) ==
  /\ lease' = {s}
  /\ conn' = [conn EXCEPT ![s] = "wait"]
  /\ UNCHANGED << orphan, draining, lapsed >>

TakeLease(s) ==
  \/ /\ KeyFree
     /\ lease' = {s}
     /\ conn' = [conn EXCEPT ![s] = "wait"]
     /\ UNCHANGED << orphan, draining, lapsed >>
  \/ conn' = [conn EXCEPT ![s] = "noop"] /\ UNCHANGED key

\* runWatcher starts the streams before its first poll.
StartStream(p) ==
  LET s == << p, "boot" >> IN
  /\ conn[s] = "off"
  /\ TakeLease(s)
  /\ UNCHANGED << tip, db, pass, pages, pos, todo, old, phase, fill, used >>

\* connect: ensureCursor, then a connection from its token.
Connect(s) ==
  /\ conn[s] = "wait"
  /\ FindCursor(s)
  /\ UNCHANGED << tip, db, key, pages, todo, old, phase, fill, used >>

\* restartFromPersistedCursor: a new generation; the messages already queued
\* stay, as messages of an old one.
Restart(s, queue) ==
  /\ conn' = [conn EXCEPT ![s] = "wait"]
  /\ todo' = [todo EXCEPT ![s] = queue]
  /\ old' = [old EXCEPT ![s] = Len(queue)]

\* enqueueMessage: at the limit the message is dropped and the stream starts
\* over from the persisted cursor.
Emit(s) ==
  /\ conn[s] = "open"
  /\ pos[s] < tip
  /\ pos' = [pos EXCEPT ![s] = @ + 1]
  /\ \/ /\ Len(todo[s]) < MaxQueued
        /\ todo' = [todo EXCEPT ![s] = Append(@, pos[s] + 1)]
        /\ UNCHANGED << conn, old >>
     \/ Len(todo[s]) >= MaxQueued /\ Restart(s, todo[s])
  /\ UNCHANGED << tip, db, key, pass, pages, phase, fill, used >>

\* resetHeartbeat: thirty seconds without a message.  The generation stays.
Heartbeat(s) ==
  /\ conn[s] = "open"
  /\ IF pos[s] < tip THEN Fault("horizon") ELSE UNCHANGED used
  /\ conn' = [conn EXCEPT ![s] = "wait"]
  /\ UNCHANGED << tip, db, key, pass, pages, pos, todo, old, phase, fill >>

(***************************************************************************)
(* processPaymentRecord, for the head of a page or of a stream's queue     *)
(***************************************************************************)
Busy(a) == todo[a] # << >>

\* The record is done; a poll also moves its in-memory cursor.
Done(a) ==
  /\ todo' = [todo EXCEPT ![a] = Tail(@)]
  /\ phase' = [phase EXCEPT ![a] = "record"]
  /\ fill' = [fill EXCEPT ![a] = << >>]
  /\ pos' = IF IsPoll(a) THEN [pos EXCEPT ![a] = Head(todo[a])] ELSE pos
  /\ old' = IF IsPoll(a) THEN old ELSE [old EXCEPT ![a] = Greater(0, @ - 1)]
  /\ UNCHANGED << conn, pass, pages >>

Fail_Swallowed(a) == Done(a) /\ UNCHANGED << tip, key, dropped >>

\* The record throws.  In a poll nothing catches it and the process dies; the
\* stream's queue goes on with the next message, and the stream restarts
\* unless the message was of an old generation.
Fail(a) ==
  /\ \/ IsPoll(a) /\ Die(a[1], Holds(a[1])) /\ UNCHANGED dropped
     \/ /\ ~IsPoll(a)
        /\ IF old[a] = 0
             THEN Restart(a, Tail(todo[a]))
             ELSE /\ todo' = [todo EXCEPT ![a] = Tail(@)]
                  /\ old' = [old EXCEPT ![a] = @ - 1]
                  /\ UNCHANGED conn
        /\ phase' = [phase EXCEPT ![a] = "record"]
        /\ fill' = [fill EXCEPT ![a] = << >>]
        /\ dropped' = IF Len(todo[a]) > 1 THEN dropped \cup {Head(todo[a])} ELSE dropped
        /\ UNCHANGED << key, pass, pages, pos >>
  /\ UNCHANGED tip

\* detectLedgerGap; no ledger can be read from the token '0'.
HasGap(r) == cursor > 0 /\ Ledger[r] - Ledger[cursor] > MaxLedgerJump

\* createMany with skipDuplicates on the unique txHash.
Insert(r) ==
  recorded' = IF \E q \in recorded : Tx[q] = Tx[r] THEN recorded ELSE recorded \cup {r}

Transaction_AnyCursor(r, gap) ==
  /\ Insert(r)
  /\ cursor' = r
  /\ status' = IF gap THEN "gap_detected" ELSE "active"
  /\ UNCHANGED seed

\* The transaction under the wallet lock: payment, outbox events, cursor.
Transaction(r, gap) ==
  /\ Insert(r)
  /\ \/ /\ cursor <= r
        /\ cursor' = r
        /\ status' = IF gap THEN "gap_detected" ELSE "active"
     \/ r < cursor /\ UNCHANGED << cursor, status >>
  /\ UNCHANGED seed

\* Operations that are no payments return early; the cursor stays.
Ignore(a) ==
  /\ Busy(a)
  /\ phase[a] = "record"
  /\ Head(todo[a]) \notin Payments
  /\ Done(a)
  /\ UNCHANGED << tip, db, key, used >>

Commit(a) ==
  LET r == Head(todo[a]) IN
  /\ Busy(a)
  /\ phase[a] = "record"
  /\ r \in Payments
  /\ KeyFree
  /\ Transaction(r, HasGap(r))
  /\ \/ ~HasGap(r) /\ Done(a) /\ UNCHANGED << key, dropped, used >>
     \/ /\ HasGap(r)
        /\ phase' = [phase EXCEPT ![a] = "gap"]
        /\ UNCHANGED << key, dropped, conn, pass, pages, pos, todo, old, fill, used >>
     \/ Fault("db") /\ Fail(a)
  /\ UNCHANGED tip

\* The lock is not to be had, or a statement fails: processPaymentRecord throws.
Working(a) == Busy(a) /\ (phase[a] = "record" => Head(todo[a]) \in Payments)
Throw(a) ==
  /\ Working(a)
  /\ UNCHANGED stored
  /\ \/ Fault("db")
     \/ /\ phase[a] = "record" \/ (phase[a] = "fill" /\ fill[a] # << >> /\ Head(fill[a]) \in Payments)
        /\ ~KeyFree
        /\ UNCHANGED used
  /\ Fail(a)

(***************************************************************************)
(* recoverFromLedgerGap                                                    *)
(***************************************************************************)
FetchRecent_OneMore(a) ==
  /\ phase[a] = "gap"
  /\ fill' = [fill EXCEPT ![a] = Span(Greater(0, tip - Window - 1), tip)]
  /\ phase' = [phase EXCEPT ![a] = "fill"]
  /\ UNCHANGED << tip, stored, dropped, key, conn, pass, pages, pos, todo, old, used >>

\* getRecentPayments: the newest records, or none when Horizon fails.  What lies
\* between the record and the window is left out.
FetchRecent(a) ==
  /\ phase[a] = "gap"
  /\ \/ /\ fill' = [fill EXCEPT ![a] = Span(Greater(0, tip - Window), tip)]
        /\ dropped' = dropped \cup { r \in Payments : Head(todo[a]) < r /\ r <= tip - Window }
        /\ UNCHANGED used
     \/ fill' = [fill EXCEPT ![a] = << >>] /\ Fault("horizon") /\ UNCHANGED dropped
  /\ phase' = [phase EXCEPT ![a] = "fill"]
  /\ UNCHANGED << tip, stored, key, conn, pass, pages, pos, todo, old >>

\* Each is processed with skipGapCheck.
Backfill(a) ==
  /\ phase[a] = "fill"
  /\ fill[a] # << >>
  /\ \/ Head(fill[a]) \notin Payments /\ UNCHANGED stored
     \/ Head(fill[a]) \in Payments /\ KeyFree /\ Transaction(Head(fill[a]), FALSE)
  /\ fill' = [fill EXCEPT ![a] = Tail(@)]
  /\ UNCHANGED << tip, dropped, key, conn, pass, pages, pos, todo, old, phase, used >>

ClearGap(a) ==
  /\ phase[a] = "fill"
  /\ fill[a] = << >>
  /\ status' = "active"
  /\ Done(a)
  /\ UNCHANGED << tip, cursor, recorded, seed, dropped, key, used >>

(***************************************************************************)
(* The poll: processWalletPayments, then a stream if none was tried yet    *)
(***************************************************************************)
GotoPass(p, l) == pass' = [pass EXCEPT ![p] = l]

PollStart(p) ==
  /\ pass[p] = "idle"
  /\ conn[<< p, "boot" >>] # "off"
  /\ p \notin draining
  /\ FindCursor(Poll(p))
  /\ pages' = [pages EXCEPT ![p] = 0]
  /\ UNCHANGED << tip, db, key, todo, old, phase, fill, used >>

\* getPaymentsSinceResult: an outage, nothing new, or a page.
Fetch(p) ==
  LET from == pos[Poll(p)] IN
  /\ pass[p] = "fetch"
  /\ \/ Fault("horizon") /\ GotoPass(p, "stream") /\ UNCHANGED << db, todo >>
     \/ /\ from = tip
        /\ status' = "active"
        /\ GotoPass(p, "stream")
        /\ UNCHANGED << cursor, recorded, seed, dropped, todo, used >>
     \/ /\ from < tip
        /\ todo' = [todo EXCEPT ![Poll(p)] = Span(from, Lesser(from + PageSize, tip))]
        /\ GotoPass(p, IF tip - from < PageSize THEN "last" ELSE "page")
        /\ UNCHANGED << db, used >>
  /\ UNCHANGED << tip, key, conn, pages, pos, old, phase, fill >>

\* A full page is followed by another one, MAX_CATCHUP_PAGES at most.
PageDone(p) ==
  /\ pass[p] \in { "page", "last" }
  /\ ~Busy(Poll(p))
  /\ pages' = [pages EXCEPT ![p] = @ + 1]
  /\ GotoPass(p, IF pass[p] = "page" /\ pages[p] + 1 < MaxPages THEN "fetch" ELSE "stream")
  /\ UNCHANGED << tip, db, key, conn, pos, todo, old, phase, fill, used >>

PollEnd(p) ==
  LET s == << p, "late" >> IN
  /\ pass[p] = "stream"
  /\ \/ conn[s] = "off" /\ TakeLease(s)
     \/ conn[s] # "off" /\ UNCHANGED << conn, key >>
  /\ GotoPass(p, "idle")
  /\ UNCHANGED << tip, db, pages, pos, todo, old, phase, fill, used >>

Process(a) ==
  \/ Ignore(a) \/ Commit(a) \/ Throw(a)
  \/ FetchRecent(a) \/ Backfill(a) \/ ClearGap(a)

Watcher(p) ==
  StartStream(p) \/ PollStart(p) \/ Fetch(p) \/ PageDone(p) \/ PollEnd(p)

Stream(s) == Connect(s) \/ Emit(s) \/ Heartbeat(s)

Seeding(a) == AskLatest(a) \/ CreateCursor(a)

Next ==
  \/ NewRecord \/ KeyExpire \/ LeaseLost
  \/ \E p \in Procs : Watcher(p) \/ Crash(p) \/ Drain(p) \/ Stop(p)
  \/ \E s \in Streams : Stream(s)
  \/ \E a \in Actors : Process(a) \/ Seeding(a)

\* Supervisors respawn, intervals fire, awaits settle, keys expire, drains end.
Fairness ==
  /\ WF_vars(KeyExpire)
  /\ \A p \in Procs : WF_vars(Watcher(p)) /\ WF_vars(Stop(p))
  /\ \A s \in Streams : WF_vars(Connect(s) \/ Emit(s))
  /\ \A a \in Actors : WF_vars(Process(a)) /\ WF_vars(Seeding(a))

Spec == Init /\ [][Next]_vars
FairSpec == Spec /\ Fairness

-----------------------------------------------------------------------------
(* Properties.                                                             *)

\* Every variable keeps the shape the schema and the worker give it.
TypeOK ==
  /\ tip \in 0..N
  /\ cursor \in {NoCursor} \cup 0..N
  /\ status \in { "active", "gap_detected" }
  /\ recorded \subseteq Payments
  /\ lease \subseteq Streams
  /\ orphan \in BOOLEAN
  /\ draining \subseteq Procs
  /\ lapsed \subseteq Streams
  /\ conn \in [Streams -> { "off", "noop", "wait", "ask", "seed", "open" }]
  /\ pass \in [Procs -> { "idle", "ask", "seed", "fetch", "page", "last", "stream" }]
  /\ pages \in [Procs -> 0..MaxPages]
  /\ pos \in [Actors -> 0..N]
  /\ todo \in [Actors -> Seq(Records)]
  /\ old \in [Streams -> Nat]
  /\ phase \in [Actors -> { "record", "gap", "fill" }]
  /\ fill \in [Actors -> Seq(Records)]
  /\ seed \in 0..N
  /\ dropped \subseteq Records
  /\ used \in 0..MaxFaults

\* The persisted token never moves backwards, whatever stale page, queued
\* message or backfill is committed by whichever process.
CursorMonotonic == [][cursor' >= cursor]_vars

\* What the cursor has passed since it was created is in the table ("without
\* silently skipping payments", ADR 0001), by its own record or by another one
\* of its transaction.  A stream that fails on a record while a later one is
\* queued breaks it: the later one moves the cursor past the failed one.
Stored(r) == \E q \in recorded : Tx[q] = Tx[r]
NothingSkipped == \A r \in Payments : seed < r /\ r <= cursor => Stored(r)

\* A payment the cursor has passed and nobody stored has one of two causes: a
\* stream failed on it while later messages were queued behind it, or a gap's
\* backfill looked back less far than the gap.  No crash, stale page, overlap of
\* streams, failed poll or dropped message adds a third.
Covered(r) == Stored(r) \/ r \in dropped
AllBelow(k) == \A r \in Payments : seed < r /\ r <= k => Covered(r)
SkipsExplained == AllBelow(cursor)

(* Why: whatever an actor has read goes on where the table ends, as far as *)
(* it has not been read before in the same queue.                          *)
Follows(q) ==
  \A i \in 1..Len(q) : \A r \in Payments :
    seed < r /\ r < q[i] => Covered(r) \/ \E k \in 1..(i - 1) : q[k] = r

\* What an open stream has passed on is stored or waits in its generation; what a
\* poll has passed is stored.
Reads(a) == At(a) \in { "open", "fetch", "page", "last", "stream" }
Waiting(a, r) == ~IsPoll(a) /\ \E i \in 1..Len(todo[a]) : old[a] < i /\ todo[a][i] = r
ActorInv(a) ==
  /\ Follows(todo[a]) /\ Follows(fill[a])
  /\ phase[a] # "record" => Busy(a) /\ Covered(Head(todo[a]))
  /\ Reads(a) => \A r \in Payments : seed < r /\ r <= pos[a] => Covered(r) \/ Waiting(a, r)
  /\ IF IsPoll(a) THEN Busy(a) => At(a) \in { "page", "last" } ELSE old[a] <= Len(todo[a])

\* The inductive invariant behind SkipsExplained.
SkipInv ==
  /\ SkipsExplained
  /\ cursor = NoCursor => seed = 0
  /\ \A a \in Actors : ActorInv(a)

\* Registering a wallet does not replay its history (the promise of ensureCursor):
\* of what Horizon had by then less than one backfill window is ingested, gaps
\* included, unless the cursor was created while Horizon failed, from the token
\* '0'.  Several actors may ask Horizon before one of them creates the row.
HistoryBounded == \A r \in recorded : seed = 0 \/ History + 1 - Window < r

(* Why: nobody reads before there is a row, and all read on from it.       *)
Above(q, k) == \A i \in 1..Len(q) : k < q[i]
Recent(a) ==
  /\ Above(todo[a], History) /\ Above(fill[a], History + 1 - Window)
  /\ Reads(a) => History <= pos[a]
\* Who has a record to process has one from after the registration, so that a window
\* holds that record too.
Grown == seed # 0 /\ (\E a \in Actors : Busy(a)) => History < tip
Untouched(a) == todo[a] = << >> /\ fill[a] = << >> /\ ~Reads(a)
HistoryInv ==
  /\ History <= tip
  /\ \A a \in Actors : At(a) = "seed" => pos[a] = 0 \/ History <= pos[a]
  /\ cursor = NoCursor => recorded = {} /\ seed = 0 /\ \A a \in Actors : Untouched(a)
  /\ seed # 0 => History <= cursor /\ HistoryBounded /\ \A a \in Actors : Recent(a)

\* Two streams of one wallet are live together, across processes, restarts and the
\* two attempts of one process, only when one of them goes on without its lease: it
\* was not renewed in time, or its process was told to stop and released it ahead
\* of closing the stream.
Live(s) == conn[s] \notin { "off", "noop" }
OneStream ==
  \A s, t \in Streams : s # t /\ Live(s) /\ Live(t) => {s, t} \cap lapsed # {}

\* Its inductive form.
LeaseInv ==
  \A s \in Streams : /\ Live(s) => lease = {s} \/ s \in lapsed
                     /\ Busy(s) => Live(s)

\* Every payment Horizon shows for a watched wallet is ingested in the end
\* ("promptly and exactly once", ADR 0001).
EventuallyIngested ==
  \A r \in Payments :
    (cursor # NoCursor /\ seed < r /\ r <= tip) ~> (r \in recorded)
==============================================================================
