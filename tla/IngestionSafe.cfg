SPECIFICATION Spec
CONSTANTS
  p1 = p1
  Procs <- OneProc
  N = 4
  History = 2
  Payments = {1, 2, 3}
  Tx <- OwnTx
  Ledger <- Gaps
  MaxLedgerJump = 5
  Window = 1
  PageSize = 2
  MaxPages = 1
  MaxQueued = 2
  Faults = {"crash", "stop", "db", "horizon", "lease"}
  MaxFaults = 2
INVARIANTS OneStream HistoryBounded SkipsExplained
PROPERTIES CursorMonotonic
