SPECIFICATION FairSpec
CONSTANTS
    Consumers = {c1, c2, c3}
    NoConsumer = NoConsumer
    Endpoints = {e1, e2, e3}
    NoEndpoint = NoEndpoint
INVARIANTS
    RefsCountHolders
    HeldSocketOpen
PROPERTY
    WaitersServed
CHECK_DEADLOCK FALSE
