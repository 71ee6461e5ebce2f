SPECIFICATION Spec
CONSTANTS
  j1 = j1
  j2 = j2
  j3 = j3
  Jobs <- TwoJobs
  MaxRuns = 2
  GateRetry = 1
  Channel = "email"
  Faults = {"crash", "lostReply", "db"}
SYMMETRY JobSymmetry
INVARIANTS TypeOK OneDispatcher SingleDelivered DeliveredMeansSent
PROPERTIES ImplementsAbstract
