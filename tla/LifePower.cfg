SPECIFICATION MCSpec
CONSTANTS
    Callers = {a, b}
    Poller = Poller
    Hosts = {h1, h2}
    Unknown = Unknown
    Home = h1
    MaxToggles = 1
    MaxMoves = 1
INVARIANTS
    AmbiguityReported
    ShownUnlessUnconfirmed
    CloseQuiet
PROPERTIES
    EverythingEnds
    EventuallyFresh
CHECK_DEADLOCK FALSE
