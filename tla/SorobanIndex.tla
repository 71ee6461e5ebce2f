---------------------------- MODULE SorobanIndex ----------------------------
(***************************************************************************)
(* indexSorobanTopicsForContract (workers/soroban-indexer.worker.ts) for    *)
(* one contract: pages of its events are stored under a unique key, then    *)
(* the checkpoint is moved; a pass may fail or be killed at any await.      *)
(***************************************************************************)
EXTENDS Naturals, Sequences, FiniteSets, FiniteSetsExt

CONSTANTS
  Log,             \* the contract's events in order: [ledger, hash, ok]
  Tip,             \* the last ledger
  PageSize,        \* PAGE_SIZE
  BackfillWindow   \* BACKFILL_WINDOW

VARIABLES
  latest,      \* the latest ledger of the network
  cursor,      \* SorobanTopicIndexCursor.ledgerSeq, NoCursor when there is no row
  rows,        \* SorobanTopicIndex: pairs of ledger and topicsHash
  pass,        \* "idle", "page" (getEvents next), "cursor" (setCursor next)
  from, end,   \* fromLedger and endLedger of the pass
  start,       \* stats.startLedger
  reached,     \* stats.cursor
  first,       \* history: where the pass that wrote the first checkpoint began
  cut          \* history: ledgers whose events did not fit on one page

NoCursor == Tip + 1

SorobanInit ==
  /\ latest = 1 /\ cursor = NoCursor /\ rows = {}
  /\ pass = "idle" /\ from = 0 /\ end = 0 /\ start = 0 /\ reached = 0
  /\ first = NoCursor /\ cut = {}

LedgerCloses ==
  /\ latest < Tip
  /\ latest' = latest + 1
  /\ UNCHANGED << cursor, rows, pass, from, end, start, reached, first, cut >>

\* resolveStartLedger, for the latest ledger the RPC answered.
StartLedger(seen) ==
  IF cursor # NoCursor THEN cursor + 1
  ELSE IF seen > BackfillWindow THEN seen - BackfillWindow + 1 ELSE 1

\* The node of the RPC that answers may be behind the network.
StartPass(seen) ==
  /\ pass = "idle"
  /\ pass' = "page" /\ end' = seen
  /\ start' = StartLedger(seen) /\ from' = StartLedger(seen)
  /\ reached' = StartLedger(seen) - 1
  /\ UNCHANGED << latest, cursor, rows, first, cut >>

\* getEvents: the first PageSize events of the range, by their places in the log.
Wanted == { i \in DOMAIN Log : Log[i].ledger >= from /\ Log[i].ledger <= end }
Page == { i \in Wanted : Cardinality({ j \in Wanted : j < i }) < PageSize }
LedgersOf(events) == { Log[i].ledger : i \in events }

\* The decoded events are stored, duplicates skipped; the next page begins at the
\* ledger AFTER the last event, so the rest of that event's ledger is passed over.
IndexPage ==
  /\ pass = "page"
  /\ Page # {} /\ from <= end
  /\ LET good == { i \in Page : Log[i].ok } IN
       /\ rows' = rows \cup { << Log[i].ledger, Log[i].hash >> : i \in good }
       /\ reached' = Max({reached} \cup LedgersOf(good))
  /\ LET newest == Max(LedgersOf(Page)) IN
       /\ from' = newest + 1
       /\ pass' = (IF newest >= end THEN "cursor" ELSE "page")
       /\ cut' = (IF newest \in LedgersOf(Wanted \ Page)
                    THEN cut \cup {newest} ELSE cut)
  /\ UNCHANGED << latest, cursor, end, start, first >>

EndOfPages ==
  /\ pass = "page" /\ Page = {}
  /\ pass' = "cursor"
  /\ UNCHANGED << latest, cursor, rows, from, end, start, reached, first, cut >>

SetCursor ==
  /\ pass = "cursor"
  /\ cursor' = reached /\ pass' = "idle"
  /\ first' = (IF cursor = NoCursor THEN start ELSE first)
  /\ UNCHANGED << latest, rows, from, end, start, reached, cut >>

\* An error of the RPC or the database is logged, or the process is killed: the
\* checkpoint stays.
PassFails_SavesCursor ==
  /\ pass # "idle"
  /\ pass' = "idle" /\ cursor' = (IF end > start THEN end ELSE cursor)
  /\ first' = (IF cursor = NoCursor THEN start ELSE first)
  /\ UNCHANGED << latest, rows, from, end, start, reached, cut >>

PassFails ==
  /\ pass # "idle"
  /\ pass' = "idle"
  /\ UNCHANGED << latest, cursor, rows, from, end, start, reached, first, cut >>

SorobanNext ==
  \/ LedgerCloses \/ (\E seen \in 1..latest : StartPass(seen)) \/ IndexPage \/ EndOfPages \/ SetCursor \/ PassFails

-----------------------------------------------------------------------------
(* Properties.                                                             *)

\* Below the checkpoint every decodable event is stored, through failed and
\* repeated passes, except in a ledger that did not fit on one page.
CheckpointCovers ==
  cursor # NoCursor =>
    \A i \in DOMAIN Log :
      Log[i].ok /\ Log[i].ledger \in first..cursor =>
        << Log[i].ledger, Log[i].hash >> \in rows \/ Log[i].ledger \in cut

=============================================================================
