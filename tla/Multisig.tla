------------------------------ MODULE Multisig ------------------------------
(***************************************************************************)
(* The watcher of pending multisig transactions                             *)
(* (workers/multisig-watcher.worker.ts) for one transaction of one          *)
(* treasury.  The poll is a setInterval that does not wait for the pass     *)
(* before, so passes overlap; users re-submit the envelope meanwhile.       *)
(***************************************************************************)
EXTENDS Naturals, FiniteSets, FiniteSetsExt

CONSTANTS
  Passes,      \* polls that may be under way at once
  Cosigners,   \* on-chain signers, each with a watcher
  Weight,      \* their weights
  Required,    \* the threshold of the treasury's level
  MaxTracks    \* submissions of the envelope

VARIABLES
  envelope,    \* who has signed envelopeXdr in the row
  txStatus,    \* status of the row: "pending" or "threshold_met"
  notified,    \* notifiedJson
  poll,        \* the await each pass is at
  heldXdr,     \* the envelope it loaded
  heldList,    \* previouslyNotified
  toNotify,    \* watchers it has still to notify
  told,        \* watchers it has notified
  tracks,      \* submissions so far
  reminders,   \* history: reminders sent to each signer
  disturbed    \* history: passes overlapped, or one ended early

rowVars == << envelope, txStatus, notified >>
heldVars == << heldXdr, heldList, toNotify, told >>
multisigVars == << rowVars, poll, heldVars, tracks, reminders, disturbed >>

MultisigInit ==
  /\ envelope = {} /\ txStatus = "pending" /\ notified = {}
  /\ poll = [p \in Passes |-> "idle"]
  /\ heldXdr = [p \in Passes |-> {}] /\ heldList = [p \in Passes |-> {}]
  /\ toNotify = [p \in Passes |-> {}] /\ told = [p \in Passes |-> {}]
  /\ tracks = 0
  /\ reminders = [s \in Cosigners |-> 0] /\ disturbed = FALSE

WeightOf(S) == MapThenSumSet(LAMBDA s : Weight[s], S)

CountSignatures_Strict(S) == WeightOf(S) > Required
\* countMultisigSignatures: thresholdMet.
CountSignatures(S) == WeightOf(S) >= Required

PollGoto(p, l) == poll' = [poll EXCEPT ![p] = l]
EndPass(p) ==
  /\ PollGoto(p, "idle")
  /\ heldXdr' = [heldXdr EXCEPT ![p] = {}] /\ heldList' = [heldList EXCEPT ![p] = {}]
  /\ toNotify' = [toNotify EXCEPT ![p] = {}] /\ told' = [told EXCEPT ![p] = {}]

\* trackPendingTransaction upserts the row with the envelope it was given.
Track(S) ==
  /\ tracks < MaxTracks
  /\ tracks' = tracks + 1
  /\ envelope' = S
  /\ txStatus' = (IF CountSignatures(S) THEN "threshold_met" ELSE "pending")
  /\ UNCHANGED << notified, poll, heldVars, reminders, disturbed >>

\* The pass loads the rows that are pending.
LoadPending(p) ==
  /\ poll[p] = "idle" /\ txStatus = "pending"
  /\ heldXdr' = [heldXdr EXCEPT ![p] = envelope]
  /\ PollGoto(p, "find")
  /\ disturbed' = (disturbed \/ \E q \in Passes : poll[q] # "idle")
  /\ UNCHANGED << rowVars, heldList, toNotify, told, tracks, reminders >>

\* processPendingTransaction: what has been notified, then the progress.
FindNotified(p) ==
  /\ poll[p] = "find"
  /\ heldList' = [heldList EXCEPT ![p] = notified]
  /\ PollGoto(p, "update")
  /\ UNCHANGED << rowVars, heldXdr, toNotify, told, tracks, reminders, disturbed >>

\* The update is unconditional and counts the envelope the pass loaded.
UpdateProgress(p) ==
  /\ poll[p] = "update"
  /\ txStatus' = (IF CountSignatures(heldXdr[p]) THEN "threshold_met" ELSE "pending")
  /\ LET remaining == (Cosigners \ heldXdr[p]) \ heldList[p] IN
       IF CountSignatures(heldXdr[p]) \/ remaining = {}
         THEN EndPass(p)
         ELSE /\ toNotify' = [toNotify EXCEPT ![p] = remaining]
              /\ PollGoto(p, "notify")
              /\ UNCHANGED << heldXdr, heldList, told >>
  /\ UNCHANGED << envelope, notified, tracks, reminders, disturbed >>

Notify(p) ==
  /\ poll[p] = "notify"
  /\ \E s \in toNotify[p] :
       /\ toNotify' = [toNotify EXCEPT ![p] = @ \ {s}]
       /\ told' = [told EXCEPT ![p] = @ \cup {s}]
       /\ reminders' = [reminders EXCEPT ![s] = IF @ < 2 THEN @ + 1 ELSE @]
       /\ PollGoto(p, IF toNotify[p] = {s} THEN "record" ELSE "notify")
  /\ UNCHANGED << rowVars, heldXdr, heldList, tracks, disturbed >>

RecordNotified_Replaces(p) ==
  /\ poll[p] = "record"
  /\ notified' = told[p]
  /\ EndPass(p)
  /\ UNCHANGED << envelope, txStatus, tracks, reminders, disturbed >>

RecordNotified(p) ==
  /\ poll[p] = "record"
  /\ notified' = heldList[p] \cup told[p]
  /\ EndPass(p)
  /\ UNCHANGED << envelope, txStatus, tracks, reminders, disturbed >>

\* notify or the database throws, or the worker is killed.
PassBreaks(p) ==
  /\ poll[p] # "idle"
  /\ EndPass(p)
  /\ disturbed' = TRUE
  /\ UNCHANGED << rowVars, tracks, reminders >>

PollStep(p) ==
  LoadPending(p) \/ FindNotified(p) \/ UpdateProgress(p) \/ Notify(p) \/ RecordNotified(p)

MultisigNext ==
  \/ \E S \in SUBSET Cosigners : Track(S)
  \/ \E p \in Passes : PollStep(p) \/ PassBreaks(p)


-----------------------------------------------------------------------------
(* Properties.                                                             *)

Enough(S) == MapThenSumSet(LAMBDA s : Weight[s], S) >= Required

\* Once the stored envelope carries enough weight the row ends as threshold_met,
\* although a pass that loaded an older envelope may write pending over it.
MultisigSettles == <>[](Enough(envelope) => txStatus = "threshold_met")

\* A signer is reminded of a transaction once, whatever envelopes are submitted,
\* unless two passes overlapped or one broke between the reminder and its record.
ReminderOnce == ~disturbed => \A s \in Cosigners : reminders[s] <= 1
=============================================================================
