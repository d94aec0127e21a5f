SPECIFICATION MCSpec
CONSTANTS
  j1 = j1
  j2 = j2
  p1 = p1
  p2 = p2
  Jobs <- TwoJobs
  Procs <- TwoProcs
  MaxTokens = 2
  Total = 2
  PoolSize = 2
  MaxActive = 2
  MaxConcurrent = 1
  LateProcs <- OneProc
INVARIANTS TypeOK HolderAgrees CancelledOnlyWhenAsked
PROPERTIES ObsoleteWorkerIsHarmless LeaseRevivedByHolder NoCaseAfterCancel ImplementsLifecycle
