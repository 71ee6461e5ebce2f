SPECIFICATION FairSpec
CONSTANTS
  p1 = p1
  Procs <- OneProc
  N = 2
  History = 0
  Payments = {1, 2}
  Tx <- OwnTx
  Ledger <- Near
  MaxLedgerJump = 5
  Window = 2
  PageSize = 2
  MaxPages = 2
  MaxQueued = 2
  Faults = {}
  MaxFaults = 0
PROPERTIES EventuallyIngested
