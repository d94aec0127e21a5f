SPECIFICATION MCSpec
CHECK_DEADLOCK FALSE
SYMMETRY Symmetry
CONSTANTS
  A = A
  B = B
  C = C
  D = D
  a1 = a1
  a2 = a2
  a3 = a3
  k1 = k1
  k2 = k2
  Stopper = Stopper
  None = None
  Absent = Absent
  NoRule = NoRule
  Batches <- ThreeThreads
  NPoints = 1
  Sizes <- SmallAndLarge
  NoThread = NoThread
  RequestThreads <- ThreeThreads
  MaxCommits = 1
  Callers <- ThreeThreads
  Cases <- TwoKeys
  Capacity = 1
  NoCaller = NoCaller
  Requests <- ThreeThreads
  Processes <- TwoKeys
  NoOne = NoOne
  Limit = 2
  Subscribers <- ThreeThreads
  Keys <- TwoKeys
  MaxFlights = 2
  HostLimit = 2
  Databases <- MCDatabases
  Loads <- MCLoads
  MaxWrites = 2
  MaxCalls = 3
  Comparisons <- Either
  History = 1
  Nodes <- ThreeNodes
  Flows <- MCFlows
  Orders <- Stages
  Workloads <- MCGraphs
  Tokens <- MCTokens
  Places <- MCCapacity
  VariantIds <- ThreeNodes
  Writable <- MCWritable
  MaxOverwrites = 2
INVARIANTS
  LeasedStaysOpen DrainedBeforeFallback AnsweredWritesRuleEvaluations OneFlight
  TimelineHolds SlotsAreKept
  PagesAreHonest SharedFairly AnswersMatchTheRows RulesAgree VerdictHolds WalksAreRight
PROPERTIES PublishesHonestly RulesNeverGoBack
