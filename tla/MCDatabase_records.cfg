SPECIFICATION MCSpec
CHECK_DEADLOCK FALSE
SYMMETRY Symmetry
CONSTANTS
  s1 = s1
  s2 = s2
  v1 = v1
  v2 = v2
  n1 = n1
  n2 = n2
  b1 = b1
  b2 = b2
  b3 = b3
  r1 = r1
  r2 = r2
  Loader = Loader
  None = None
  c1 = c1
  k1 = k1
  k2 = k2
  p1 = p1
  p2 = p2
  w1 = w1
  r3 = r3
  q1 = q1
  q2 = q2
  x1 = x1
  x2 = x2
  x3 = x3
  S1 = S1
  S2 = S2
  NoBase = NoBase
  Variants <- TwoVariants
  Nodes <- TwoNodes
  Batches <- TwoBatches
  Requests <- TwoRequests
  Scenarios <- OneScenario
  Payloads <- AllKinds
  Documents <- SomeDocuments
  AuthoredFiles <- TwoFiles
  NoSession = NoSession
  Sessions <- TwoRequests
  Contents <- OneContent
  NVariants = 2
  MaxBases = 2
  MaxPreds = 4
  MaxTrials = 2
  MaxInputs = 1
  Promotions = TRUE
  Runs <- ThreeRuns
  Exports <- ThreeExports
  Unset = Unset
  Keys <- TwoKeys
  Reports <- TwoReports
  Editors <- TwoRequests
  Recorders <- TwoRecorders
  Withdraw <- OneWithdrawal
  Nobody = Nobody
  HistoryLimit = 2
  Calibrations <- TwoRequests
  Stored <- SomeParams
  Authored <- SomeAuthored
INVARIANTS
  TypeOK LocksBelong
  HistoryIsAChain ReviewStands TrialsHold OneActiveBasis
  FilesMatchRows RacingRunsSucceed
  ReportsFollow
  VersionsAreSerial
PROPERTIES
  OverlaysStayFit DigestsStayTrue AppliedIsFinal AppliedAsReviewed EditsSurvive ReportFreezesRegister
