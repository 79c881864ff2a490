SPECIFICATION FairSpec
CONSTANTS
    half = half
    full = full
    swing = swing
    bad = bad
    light = light
    s1 = s1
    s2 = s2
    Callers = {a, b}
    Closers = {k}
    Worker = Worker
    Nobody = Nobody
    Commands = {half, bad, light}
    Coalescible = {half, bad}
    Invalid = {bad}
    BacklightCommands = {light}
    Query = Query
    Poll = Poll
    Offered = {half, bad, light, Query, Poll}
    States = {s1, s2}
    NoState = NoState
    Confirming <- ConfirmingStates
    QueryRetries = 2
    CommandRetries = 2
INVARIANTS
    SuccessIsConfirmed
    OneSubscription
PROPERTIES
    SilentAfterClose
    CallsReturn
    CloseReturns
CHECK_DEADLOCK FALSE
