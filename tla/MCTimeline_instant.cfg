SPECIFICATION TimelineSpec
CHECK_DEADLOCK FALSE
CONSTANTS
    A = A
    B = B
    C = C
    D = D
    Workloads <- MCInstant
    Tokens <- MCTokens
    Places <- MCCapacity
INVARIANT PathEnds
