SPECIFICATION FairSpec
CONSTANTS
  r1 = r1
  r2 = r2
  Events = {1, 2, 3}
  Relays <- TwoRelays
  BatchSize = 2
  Faults = {"crash", "db", "dbReply", "redis", "slow"}
  MaxFaults = 2
INVARIANTS ProcessedMeansRelayed DuplicatesAccounted
PROPERTIES EventuallyProcessed
