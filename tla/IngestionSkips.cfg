SPECIFICATION Spec
CONSTANTS
  p1 = p1
  Procs <- OneProc
  N = 3
  History = 0
  Payments = {1, 2, 3}
  Tx <- OwnTx
  Ledger <- Near
  MaxLedgerJump = 5
  Window = 3
  PageSize = 2
  MaxPages = 2
  MaxQueued = 2
  Faults = {"db", "lease"}
  MaxFaults = 2
INVARIANTS NothingSkipped
