----------------------------- MODULE WalletSlots -----------------------------
(***************************************************************************)
(* acquireWalletSlot and releaseWalletSlot (lib/rate-budget.ts) around      *)
(* processAlertDispatch, for the dispatches of one wallet in one process.   *)
(***************************************************************************)
EXTENDS Naturals, FiniteSets

CONSTANTS
  Dispatches,
  MaxConcurrent,  \* maxConcurrentPerWallet
  Burst,          \* walletBurstLimit
  MaxTries        \* turns of the loop within maxWaitMs

VARIABLES
  active,     \* activeWalletDispatches
  inWindow,   \* walletDispatchesInWindow, 0 when the window is over
  dispatch,   \* "idle", "waiting", "slot" or "forced"
  tries

slotVars == << active, inWindow, dispatch, tries >>

SlotsInit ==
  /\ active = 0 /\ inWindow = 0
  /\ dispatch = [d \in Dispatches |-> "idle"]
  /\ tries = [d \in Dispatches |-> 0]

Arrive(d) ==
  /\ dispatch[d] = "idle"
  /\ dispatch' = [dispatch EXCEPT ![d] = "waiting"]
  /\ tries' = [tries EXCEPT ![d] = 0]
  /\ UNCHANGED << active, inWindow >>

\* One turn of the loop: a slot, or a wait of 100 ms.
TrySlot(d) ==
  /\ dispatch[d] = "waiting" /\ tries[d] < MaxTries
  /\ IF active < MaxConcurrent /\ inWindow < Burst
       THEN /\ active' = active + 1 /\ inWindow' = inWindow + 1
            /\ dispatch' = [dispatch EXCEPT ![d] = "slot"]
            /\ UNCHANGED tries
       ELSE /\ tries' = [tries EXCEPT ![d] = @ + 1]
            /\ UNCHANGED << active, inWindow, dispatch >>

ForceEntry_Uncounted(d) ==
  /\ dispatch[d] = "waiting" /\ tries[d] = MaxTries
  /\ dispatch' = [dispatch EXCEPT ![d] = "forced"]
  /\ UNCHANGED << active, inWindow, tries >>

ForceEntry_Never(d) ==
  /\ dispatch[d] = "waiting" /\ tries[d] = MaxTries
  /\ tries' = [tries EXCEPT ![d] = 0]
  /\ UNCHANGED << active, inWindow, dispatch >>

\* maxWaitMs is over: the dispatch goes on over the cap and outside the window.
ForceEntry(d) ==
  /\ dispatch[d] = "waiting" /\ tries[d] = MaxTries
  /\ active' = active + 1
  /\ dispatch' = [dispatch EXCEPT ![d] = "forced"]
  /\ UNCHANGED << inWindow, tries >>

\* The finally clause of processAlertDispatch.
Release(d) ==
  /\ dispatch[d] \in { "slot", "forced" }
  /\ active' = (IF active <= 1 THEN 0 ELSE active - 1)
  /\ dispatch' = [dispatch EXCEPT ![d] = "idle"]
  /\ UNCHANGED << inWindow, tries >>

WindowOver ==
  /\ inWindow > 0
  /\ inWindow' = 0
  /\ UNCHANGED << active, dispatch, tries >>

SlotsNext ==
  \/ \E d \in Dispatches : Arrive(d) \/ TrySlot(d) \/ ForceEntry(d) \/ Release(d)
  \/ WindowOver


-----------------------------------------------------------------------------
(* Properties.                                                             *)

\* The counter is the number of dispatches inside, forced ones included, so that a
\* release never frees the slot of another.
SlotsBalance == active = Cardinality({ d \in Dispatches : dispatch[d] \in { "slot", "forced" } })

\* No dispatch waits for ever, even if the ones inside never end.
DispatchEnters == \A d \in Dispatches : dispatch[d] = "waiting" ~> dispatch[d] # "waiting"
=============================================================================
