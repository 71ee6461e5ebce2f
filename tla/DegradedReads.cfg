SPECIFICATION Spec
CONSTANTS
  Rotations = {r1, r2, r3}
  MaxToken = 4
  Recoveries = {q1, q2}
  Codes = {c1, c2}
  MaxGuesses = 2
  MaxWindows = 4
  Calls = {k1, k2, k3}
  Copies = {d1, d2, d3}
  Servers = {s1, s2}
  Drift = 1
  NonceTTL = 4
  RoundTrip = 1
  Stamp = 3
  Horizon = 9
  FailureThreshold = 2
  RecoveryThreshold = 2
  LagThreshold = 5
  RecoveryProbes = 2
  Lags = {1, 30, 61, 999}
  MaxMutations = 3
  MaxBuffer = 2
  Unhandled = {2}
  Executions = {e1, e2}
  Threshold = 2
  MaxEvents = 5
  MaxBatchSize = 2
  Dispatches = {w1, w2, w3}
  MaxConcurrent = 1
  Burst = 2
  MaxTries = 2
  Tasks = {t1, t2}
  MaxInFlight = 1
  Log <- MCLog
  Tip = 5
  PageSize = 2
  BackfillWindow = 3
  Accounts = {"p", "q", "r"}
  SignerLists <- MCSignerLists
  MaxProposals = 2
  Passes = {p1, p2}
  Cosigners = {"p", "q"}
  Weight <- MCWeight
  Required = 3
  MaxTracks = 2
  Appenders = {"a1", "a2", "a3", "a4"}
  PaymentOf <- MCPaymentOf
  MaxAttempts = 2
  Jobs = {j1, j2}
  Runners = {"worker", "inline"}
  MaxActive = 1
  Nodes = {n1, n2}
  Records = 2
  MaxRemembered = 1
  MaxOpened = 2
  MaxConnects = 5
  Visits = {v1, v2}
  MaxChallenges = 2
  Generations = {g1, g2}
  Confirms = {h1, h2}
  Unlinks = {u1}
  MaxPublished = 3
  DedupWindow = 2
  MaxRetries = 1
  MaxRuns = 2
  MaxHandled = 2
  Watched <- MCWatched
  Foreign = {1}
  LastLedger = 3
  EventPage = 2
  Lookback = 2
  Warning = 2
  Polls = {b1, b2}
  MaxPolls = 3
  Payloads = {"a", "b", "c", "d", "e"}
  MaxLeaves = 4
  MaxEdits = 2
  Rotators = {1, 2, 3}
  Deliveries = {x1}
  Parts = {"failover"}
INVARIANTS
  DegradedReadsReplica
CHECK_DEADLOCK FALSE
