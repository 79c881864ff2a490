SPECIFICATION Spec
CONSTANTS
    half = half
    full = full
    swing = swing
    bad = bad
    light = light
    s1 = s1
    s2 = s2
    Callers = {a, b, c}
    Closers = {k, l}
    Worker = Worker
    Nobody = Nobody
    Commands = {half, swing}
    Coalescible = {half}
    Invalid = {}
    BacklightCommands = {}
    Query = Query
    Poll = Poll
    Offered = {half, swing}
    States = {s1, s2}
    NoState = NoState
    Confirming <- ConfirmingStates
    QueryRetries = 1
    CommandRetries = 1
SYMMETRY CallerSymmetry
PROPERTY ImplementsService
INVARIANTS
    NoOrphanWaiter
CHECK_DEADLOCK FALSE
