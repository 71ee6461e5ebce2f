SPECIFICATION PipelineSpec
CONSTANTS
  Events = {1}
  Payment = 1
  Relays = {r1, r2}
  BatchSize = 2
  Faults = {"crash", "db", "redis"}
  MaxFaults = 2
  Jobs = {1, 2, 3}
  MaxRuns = 2
  GateRetry = 1
  Channel = "email"
INVARIANTS ClaimExclusive PipelineSafe
PROPERTIES PaymentSettles
