SPECIFICATION MCSpec
CHECK_DEADLOCK FALSE
CONSTANTS
  a1 = a1
  a2 = a2
  Stopper = Stopper
  k1 = k1
  k2 = k2
  c1 = c1
  j1 = j1
  p1 = p1
  None = None
  NoSession = NoSession
  Sessions <- TwoSessions
  Contents <- OneContent
  NVariants = 2
  MaxBases = 1
  MaxPreds = 3
  MaxTrials = 1
  MaxInputs = 0
  Promotions = TRUE
PROPERTIES ThreadsEnd ShutdownsEnd
