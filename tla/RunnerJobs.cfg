CONSTANTS
  Job = {j1}
  Runner = {r1, r2}
  Faulty = {r1}
  NoRunner = NoRunner
  NoJob = NoJob
  MaxJobs = 1
  MaxAttempts = 2
  MaxClaims = 3
  Lease = 6
  Beat = 2
  CallMax = 1
  QueueTtl = 1
  MaxOverlap = 4
  MaxFaults = 1
SPECIFICATION LiveSpec
CHECK_DEADLOCK FALSE
INVARIANTS
  TypeOK
  BriefOverlap
  HealthyKeeps
PROPERTIES
  EndsOnce
  Ends
