SPECIFICATION FairSpec
CONSTANTS
    Count = 2
    Queries = 1
    Rounds = 1
    Found <- MCFound
INVARIANTS
    PassedMeansRestored
    LeftMeansReported
PROPERTIES
    ProbeEnds
CHECK_DEADLOCK FALSE
