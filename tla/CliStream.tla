------------------------------ MODULE CliStream ------------------------------
(***************************************************************************)
(* `stream watch` of the CLI (packages/cli/src/commands/stream.ts,          *)
(* lib/resilient-stream.ts and cursor-store.ts): payments 1, 2, ... are     *)
(* handled and the checkpoint follows, through dropped connections, failed  *)
(* saves, kills and restarts.  The server, which is not in the repository,  *)
(* resumes after the cursor (without one, with what comes from now on), or  *)
(* ignores it and starts anywhere.                                          *)
(***************************************************************************)
EXTENDS Naturals, Sequences

CONSTANTS
  MaxPublished,  \* bound: payments that happen
  DedupWindow,   \* ids the process remembers
  MaxRetries,    \* failed attempts tolerated in a row
  MaxRuns,       \* bound: starts of the command
  MaxHandled     \* bound: times a payment is handled

VARIABLES
  published,  \* payments so far
  runs,       \* starts so far
  stage,      \* "down", "connect", "stream", "handled" (before the save), "wait"
  position,   \* the last payment this connection has delivered
  cliCursor,  \* the cursor in memory, 0 for none
  seenIds,    \* RecentIds, the oldest first
  keeps,      \* the run has a cursor store
  retries,    \* attempt
  saved,      \* the checkpoint file, 0 for none
  handled,    \* how often each payment was handled
  ran,        \* history: the payments of this run, after the one its checkpoint names
  skipped,    \* history: payments a live tail or a chosen cursor left out
  unsaved,    \* history: payments handled beyond the cursor a later run resumed from
  resent      \* history: payments the server sent again below the cursor

Published == 1..MaxPublished
IdsOf(s) == { s[k] : k \in 1..Len(s) }

Remember_Short(s, i) == IF Len(s) + 1 >= DedupWindow THEN Append(Tail(s), i) ELSE Append(s, i)

\* RecentIds.add of an id it has not: the oldest is forgotten past the capacity.
Remember(s, i) == IF Len(s) + 1 > DedupWindow THEN Tail(Append(s, i)) ELSE Append(s, i)

CliInit ==
  /\ published = 0 /\ runs = 0 /\ stage = "down" /\ position = 0
  /\ cliCursor = 0 /\ seenIds = << >> /\ keeps = FALSE /\ retries = 0 /\ saved = 0
  /\ handled = [i \in Published |-> 0]
  /\ ran = << >> /\ skipped = {} /\ unsaved = {} /\ resent = {}

Publish ==
  /\ published < MaxPublished
  /\ published' = published + 1
  /\ UNCHANGED << runs, stage, position, cliCursor, seenIds, keeps, retries, saved,
                  handled, ran, skipped, unsaved, resent >>

Beyond(c) == { i \in Published : handled[i] > 0 /\ i > c }
Untold(lo, hi) == { i \in lo..hi : handled[i] = 0 }

\* A run from cursor c that remembers these ids, with a store or without.
Begin(c, ids, store) ==
  /\ stage = "down" /\ runs < MaxRuns
  /\ runs' = runs + 1 /\ stage' = "connect" /\ retries' = 0
  /\ cliCursor' = c /\ seenIds' = ids /\ keeps' = store
  /\ unsaved' = IF c = 0 THEN unsaved ELSE unsaved \cup Beyond(c)
  /\ UNCHANGED << published, position, saved, handled, resent >>

Start_NoSeed ==
  /\ Begin(saved, << >>, TRUE)
  /\ ran' = IF saved = 0 THEN << >> ELSE << saved >>
  /\ UNCHANGED skipped

\* The checkpoint is loaded and its last id remembered.
Start ==
  /\ Begin(saved, IF saved = 0 THEN << >> ELSE << saved >>, TRUE)
  /\ ran' = IF saved = 0 THEN << >> ELSE << saved >>
  /\ UNCHANGED skipped

\* --cursor, which no id is remembered with; "now" (c = 0); without a store under
\* --no-resume; and a checkpoint that cannot be read (c = 0, with a store).
StartAt(c, store) ==
  /\ Begin(c, << >>, store)
  /\ ran' = << >>
  /\ skipped' = skipped \cup Untold(1, c)

\* What the server sends although the cursor, or its absence, did not ask for it.
Again(p) == (p + 1)..(IF cliCursor = 0 THEN published ELSE cliCursor)
LastIds == IdsOf(SubSeq(ran, IF Len(ran) > DedupWindow THEN Len(ran) - DedupWindow + 1 ELSE 1, Len(ran)))

\* A connection: the server starts after payment p.
ConnectStream(p) ==
  /\ stage = "connect"
  /\ stage' = "stream" /\ position' = p
  /\ skipped' = skipped \cup Untold(cliCursor + 1, p)
  /\ resent' = IF Again(p) \subseteq LastIds THEN resent ELSE resent \cup Again(p)
  /\ UNCHANGED << published, runs, cliCursor, seenIds, keeps, retries, saved, handled, ran, unsaved >>

\* The next payment: suppressed when its id is remembered, else handled, after
\* which cursor and ids move on.
Receive ==
  LET i == position + 1
  IN  /\ stage = "stream" /\ i <= published
      /\ position' = i /\ retries' = 0
      /\ \/ /\ i \in IdsOf(seenIds)
            /\ UNCHANGED << stage, cliCursor, seenIds, handled, ran >>
         \/ /\ i \notin IdsOf(seenIds) /\ handled[i] < MaxHandled
            /\ stage' = "handled"
            /\ handled' = [handled EXCEPT ![i] = @ + 1] /\ ran' = Append(ran, i)
            /\ seenIds' = Remember(seenIds, i) /\ cliCursor' = i
      /\ UNCHANGED << published, runs, keeps, saved, skipped, unsaved, resent >>

\* The process is over, and what it had in memory gone.
Ends ==
  /\ stage' = "down" /\ position' = 0 /\ cliCursor' = 0 /\ seenIds' = << >>
  /\ keeps' = FALSE /\ retries' = 0 /\ ran' = << >>
  /\ UNCHANGED << published, runs, handled, skipped, unsaved, resent >>

HandlerThrows_SavedFirst ==
  /\ stage = "stream" /\ position < published /\ position + 1 \notin IdsOf(seenIds)
  /\ Ends
  /\ saved' = IF keeps THEN position + 1 ELSE saved

\* A handler that throws ends the command, before the cursor moves.
HandlerThrows ==
  /\ stage = "stream" /\ position < published /\ position + 1 \notin IdsOf(seenIds)
  /\ Ends /\ UNCHANGED saved

\* The checkpoint is renamed into place, or the save fails with a warning.
SaveCursor ==
  /\ stage = "handled"
  /\ stage' = "stream"
  /\ saved' \in { saved } \cup { c \in { cliCursor } : keeps }
  /\ UNCHANGED << published, runs, position, cliCursor, seenIds, keeps, retries,
                  handled, ran, skipped, unsaved, resent >>

\* Opening or reading fails, or the server closes: a backoff.
StreamFails ==
  /\ stage \in { "connect", "stream" } /\ retries < MaxRetries
  /\ retries' = retries + 1
  /\ stage' = "wait"
  /\ UNCHANGED << published, runs, position, cliCursor, seenIds, keeps, saved,
                  handled, ran, skipped, unsaved, resent >>

\* One failure too many, or one no retry can help.
GiveUp ==
  /\ stage \in { "connect", "stream" }
  /\ Ends /\ UNCHANGED saved

BackoffOver ==
  /\ stage = "wait"
  /\ stage' = "connect"
  /\ UNCHANGED << published, runs, position, cliCursor, seenIds, keeps, retries, saved,
                  handled, ran, skipped, unsaved, resent >>

\* A second signal, a crash, or an abort seen between two payments.
Killed ==
  /\ stage # "down"
  /\ Ends /\ UNCHANGED saved

CliNext ==
  \/ Publish \/ Start \/ Receive \/ HandlerThrows \/ SaveCursor
  \/ StreamFails \/ BackoffOver \/ GiveUp \/ Killed
  \/ \E c \in 0..published : ConnectStream(c) \/ \E store \in BOOLEAN : StartAt(c, store)

-----------------------------------------------------------------------------
(* Properties.                                                             *)

\* At least once: below a payment that was handled, or a checkpoint that was
\* saved, every payment was handled; only a live tail, or a cursor the user chose,
\* leaves some out.
NoGapBelow ==
  \A i \in Published :
    (\E j \in Published : (handled[j] > 0 \/ j = saved) /\ i <= j) => handled[i] > 0 \/ i \in skipped

\* A payment is handled again only when a later run resumed below it, for its
\* checkpoint was not saved or the user chose so, or when the server sent again
\* what the cursor did not ask for and the last DedupWindow ids do not cover.
TwiceNeedsReplay ==
  \A i \in Published : handled[i] > 1 => i \in unsaved \cup resent
=============================================================================
