SPECIFICATION Spec
CONSTANTS
  j1 = j1
  j2 = j2
  p1 = p1
  p2 = p2
  Jobs <- TwoJobs
  Procs <- OneProc
  MaxTokens = 2
  Total = 1
  PoolSize = 2
  MaxActive = 1
  MaxConcurrent = 1
  LateProcs = {}
INVARIANTS QueueIsBounded
