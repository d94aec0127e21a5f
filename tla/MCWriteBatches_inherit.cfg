SPECIFICATION Spec
CONSTANTS
  s1 = s1
  s2 = s2
  v1 = v1
  v2 = v2
  n1 = n1
  n2 = n2
  b1 = b1
  b2 = b2
  b3 = b3
  r1 = r1
  r2 = r2
  Loader = Loader
  None = None
  Variants <- TwoVariants
  Nodes <- TwoNodes
  Batches <- TwoBatches
  Requests <- TwoRequests
  Scenarios <- OneScenario
  Payloads <- Overlays
  Documents <- SomeDocuments
  AuthoredFiles <- TwoFiles
INVARIANTS InheritanceIsAcyclic
