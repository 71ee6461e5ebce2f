SPECIFICATION FairSpec
CONSTANTS
  job = job
  replay = replay
  operator = operator
  p1 = p1
  p2 = p2
  Jobs <- AllJobs
  First = job
  Operators = {operator}
  Processes <- TwoProcesses
  Setups <- SomeSetups
INVARIANTS NoSilentLoss SendsOnce LettersSound
PROPERTIES SuppressionSticks AlertJobsSettle
