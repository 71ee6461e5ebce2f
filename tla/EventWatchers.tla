---------------------------- MODULE EventWatchers ----------------------------
(***************************************************************************)
(* The watchers that store one row per contract event and then notify:      *)
(* token allowances (workers/soroban-allowance-watcher.worker.ts) and       *)
(* staking rewards (workers/staking-reward.worker.ts), for one contract.    *)
(* The newest row is the watcher's only cursor.  Polls come from a timer    *)
(* and may overlap.  The table's unique key is (contract, ledger, from, to, *)
(* amount), with neither the event nor the kind of the alert in it.         *)
(***************************************************************************)
EXTENDS Naturals, Sequences, FiniteSets, FiniteSetsExt

CONSTANTS
  Watched,    \* the contract's events in order: [ledger, paid, high, until], where
              \* paid stands for from, to and amount
  Foreign,    \* events that another worker stores a row for
  LastLedger, \* bound: the ledger that closes last
  EventPage,  \* events getEvents returns at most
  Lookback,   \* DEFAULT_LOOKBACK_LEDGERS
  Warning,    \* EXPIRY_WARNING_LEDGERS
  Polls,      \* polls under way at one time
  MaxPolls    \* bound: polls begun

VARIABLES
  watcher,    \* "allowance" or "staking"
  closed,     \* the latest ledger
  snapshots,  \* alerts that created their SorobanEventSnapshot row
  foreign,    \* keys of rows that other workers created
  pollCount,  \* polls begun so far
  polling,    \* "idle", "fetch", "create", "notify" per poll
  asOf,       \* latestLedger of the poll
  firstLedger, \* its startLedger
  todo,       \* its alerts still to do, as pairs of event and kind
  tally,      \* how often the reward tracker has added each event
  noticed,    \* history: notifications per alert
  detected,   \* history: alerts some poll had to do
  missed,     \* history: alerts whose row or notice failed, whose event a page cut off
              \* or was older than the lookback before there was a row
  overlapping \* history: a poll began while another was under way

watchState ==
  << watcher, closed, snapshots, foreign, pollCount, polling, asOf, firstLedger, todo, tally,
     noticed, detected, missed, overlapping >>
EventIds == 1..Len(Watched)
EventAlerts == EventIds \X {1, 2}
Ledgers(S) == { Watched[e].ledger : e \in S }

\* The unique key of an event's row, and the keys that are taken.
RowOf(e) == << Watched[e].ledger, Watched[e].paid >>
Stored == { a[1] : a \in snapshots }
Taken(e) == RowOf(e) \in foreign \/ \E d \in Stored : RowOf(d) = RowOf(e)

EventWatchersInit ==
  /\ watcher \in { "allowance", "staking" }
  /\ closed = 0 /\ snapshots = {} /\ foreign = {} /\ pollCount = 0
  /\ polling = [p \in Polls |-> "idle"]
  /\ asOf = [p \in Polls |-> 0] /\ firstLedger = [p \in Polls |-> 0]
  /\ todo = [p \in Polls |-> {}]
  /\ tally = [e \in EventIds |-> 0] /\ noticed = [a \in EventAlerts |-> 0]
  /\ detected = {} /\ missed = {} /\ overlapping = FALSE

LedgerIsClosed ==
  /\ closed < LastLedger
  /\ closed' = closed + 1
  /\ UNCHANGED << watcher, snapshots, foreign, polling, asOf, firstLedger, todo, tally, noticed, detected, missed, overlapping, pollCount >>

\* Another worker stores a row with the key of an event, a transfer say.
OtherRow(e) ==
  /\ Watched[e].ledger <= closed /\ ~Taken(e)
  /\ foreign' = foreign \cup {RowOf(e)}
  /\ UNCHANGED << watcher, closed, snapshots, polling, asOf, firstLedger, todo, tally, noticed, detected, missed, overlapping, pollCount >>

EvaluateNewApproval(e) == Watched[e].high
EvaluateApprovalExpiry(e, ledgerNow) ==
  Watched[e].until > ledgerNow /\ Watched[e].until - ledgerNow <= Warning

\* detectAllowanceAlertsFromEventBatch: an event has up to two alerts.
AllowanceAlerts(e, ledgerNow) ==
  { << e, k >> : k \in { i \in {1, 2} :
      IF i = 1 THEN EvaluateNewApproval(e) ELSE EvaluateApprovalExpiry(e, ledgerNow) } }

StartLedgerOf_SameLedger(ledgerNow) ==
  IF snapshots # {} THEN Max(Ledgers(Stored))
  ELSE IF ledgerNow > Lookback THEN ledgerNow - Lookback ELSE 1

StartLedgerOf_Skips(ledgerNow) ==
  IF snapshots # {} THEN Max(Ledgers(Stored)) + 2
  ELSE IF ledgerNow > Lookback THEN ledgerNow - Lookback ELSE 1

\* After the newest row, or the lookback when there is none.
StartLedgerOf(ledgerNow) ==
  IF snapshots # {} THEN Max(Ledgers(Stored)) + 1
  ELSE IF ledgerNow > Lookback THEN ledgerNow - Lookback ELSE 1

\* A poll reads the latest ledger and its start; there may be nothing to do.
BeginPoll(p) ==
  /\ polling[p] = "idle" /\ closed > 0 /\ pollCount < MaxPolls
  /\ pollCount' = pollCount + 1
  /\ StartLedgerOf(closed) <= closed
  /\ polling' = [polling EXCEPT ![p] = "fetch"]
  /\ asOf' = [asOf EXCEPT ![p] = closed]
  /\ firstLedger' = [firstLedger EXCEPT ![p] = StartLedgerOf(closed)]
  /\ overlapping' = (overlapping \/ \E q \in Polls : polling[q] # "idle")
  /\ missed' = missed \cup { a \in EventAlerts : snapshots = {} /\ Watched[a[1]].ledger < StartLedgerOf(closed) }
  /\ UNCHANGED << watcher, closed, snapshots, foreign, todo, tally, noticed, detected >>

\* The events from the start on, as many as one page holds.
Fetched(p) ==
  { e \in EventIds : Watched[e].ledger >= firstLedger[p] /\ Watched[e].ledger <= closed }
PageOf(p) == { e \in Fetched(p) : Cardinality({ d \in Fetched(p) : d < e }) < EventPage }

\* Events of the page's last ledger that did not fit on it.
CutOff(p) ==
  { e \in EventIds \ PageOf(p) :
      PageOf(p) # {} /\ Watched[e].ledger = Max(Ledgers(PageOf(p))) }

AlertsOfPage(page, ledgerNow) ==
  UNION { IF watcher = "allowance" THEN AllowanceAlerts(e, ledgerNow) ELSE { << e, 1 >> } : e \in page }

\* getEvents and the detection; the reward tracker adds what it parses up.  An
\* RPC error is an empty page.
FetchEvents(p) ==
  /\ polling[p] = "fetch"
  /\ \/ /\ todo' = [todo EXCEPT ![p] = AlertsOfPage(PageOf(p), asOf[p])]
        /\ polling' = [polling EXCEPT ![p] = IF todo'[p] = {} THEN "idle" ELSE "create"]
        /\ tally' = IF watcher = "staking" THEN [e \in EventIds |-> IF e \in PageOf(p) THEN tally[e] + 1 ELSE tally[e]] ELSE tally
        /\ detected' = detected \cup todo'[p]
        /\ missed' = missed \cup (CutOff(p) \X {1, 2})
     \/ polling' = [polling EXCEPT ![p] = "idle"] /\ UNCHANGED << todo, tally, detected, missed >>
  /\ UNCHANGED << watcher, closed, snapshots, foreign, asOf, firstLedger, noticed, overlapping, pollCount >>

\* The alerts are done in the order of their events.
Earliest(alerts) ==
  CHOOSE a \in alerts : \A b \in alerts : a[1] < b[1] \/ (a[1] = b[1] /\ a[2] <= b[2])
NextAlert(p) == Earliest(todo[p])
AlertDone(p) ==
  /\ todo' = [todo EXCEPT ![p] = @ \ {NextAlert(p)}]
  /\ polling' = [polling EXCEPT ![p] = IF todo[p] = {NextAlert(p)} THEN "idle" ELSE "create"]

CreateRow_Again(p) ==
  /\ polling[p] = "create"
  /\ \/ /\ snapshots' = snapshots \cup {NextAlert(p)}
        /\ polling' = [polling EXCEPT ![p] = "notify"]
        /\ UNCHANGED << todo, missed >>
     \/ /\ missed' = missed \cup {NextAlert(p)}
        /\ AlertDone(p)
        /\ UNCHANGED snapshots
  /\ UNCHANGED << watcher, closed, foreign, asOf, firstLedger, tally, noticed, detected, overlapping, pollCount >>

\* The row is created; one that exists (P2002), and any other error, passes over the
\* alert.
CreateRow(p) ==
  /\ polling[p] = "create"
  /\ \/ /\ ~Taken(NextAlert(p)[1])
        /\ snapshots' = snapshots \cup {NextAlert(p)}
        /\ polling' = [polling EXCEPT ![p] = "notify"]
        /\ UNCHANGED << todo, missed >>
     \/ /\ missed' = IF Taken(NextAlert(p)[1]) THEN missed ELSE missed \cup {NextAlert(p)}
        /\ AlertDone(p)
        /\ UNCHANGED snapshots
  /\ UNCHANGED << watcher, closed, foreign, asOf, firstLedger, tally, noticed, detected, overlapping, pollCount >>

NotifyEvent(p) ==
  /\ polling[p] = "notify"
  /\ AlertDone(p)
  /\ noticed' = [noticed EXCEPT ![NextAlert(p)] = @ + 1]
  /\ UNCHANGED << watcher, closed, snapshots, foreign, asOf, firstLedger, tally, detected, missed, overlapping, pollCount >>

\* The notifier throws: the contract's pass is over.
NotifyThrows(p) ==
  /\ polling[p] = "notify"
  /\ polling' = [polling EXCEPT ![p] = "idle"]
  /\ todo' = [todo EXCEPT ![p] = {}]
  /\ missed' = missed \cup todo[p]
  /\ UNCHANGED << watcher, closed, snapshots, foreign, asOf, firstLedger, tally, noticed, detected, overlapping, pollCount >>

\* The worker dies with its polls and its tracker, and is started again.
WatcherRestarts ==
  /\ polling # [p \in Polls |-> "idle"]
  /\ polling' = [p \in Polls |-> "idle"]
  /\ todo' = [p \in Polls |-> {}]
  /\ missed' = missed \cup UNION { todo[p] : p \in Polls }
  /\ tally' = [e \in EventIds |-> 0]
  /\ UNCHANGED << watcher, closed, snapshots, foreign, asOf, firstLedger, noticed, detected, overlapping, pollCount >>

EventWatchersNext ==
  \/ LedgerIsClosed \/ WatcherRestarts
  \/ \E e \in Foreign : OtherRow(e)
  \/ \E p \in Polls :
       BeginPoll(p) \/ FetchEvents(p) \/ CreateRow(p) \/ NotifyEvent(p) \/ NotifyThrows(p)

-----------------------------------------------------------------------------
(* Properties.                                                             *)

\* No alert is notified twice, however polls overlap and fail: the row decides.
EventToldOnce == \A a \in EventAlerts : noticed[a] <= 1

\* The row of an alert was taken by another alert, of the same event or of one with
\* the same key, or by another worker: the watcher takes it for its own and is silent.
Eclipsed(a) ==
  \/ RowOf(a[1]) \in foreign
  \/ \E b \in snapshots : b # a /\ RowOf(b[1]) = RowOf(a[1])

\* What a poll had to do, and below the newest row every reward and every approval of
\* a high value, was notified; what fell out is an alert whose row or notice failed,
\* whose event a full page cut off or the first lookback left out, or that another
\* row eclipsed.
PassedIsTold ==
  \A a \in EventAlerts :
    \/ a \in detected
    \/ /\ a[2] = 1 /\ (watcher = "staking" \/ Watched[a[1]].high)
       /\ snapshots # {} /\ Watched[a[1]].ledger <= Max(Ledgers(Stored))
    => noticed[a] = 1 \/ a \in missed \/ Eclipsed(a) \/ \E p \in Polls : a \in todo[p]

\* A distribution is counted once into the cumulative yield, unless a row could
\* not be stored or was another worker's, a notice failed or polls overlapped.
CountedOnce ==
  \A e \in EventIds : tally[e] > 1 => << e, 1 >> \in missed \/ RowOf(e) \in foreign \/ overlapping
=============================================================================
