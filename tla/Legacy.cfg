SPECIFICATION Spec
CONSTANTS
    Hosts = {h1, h2}
    Identities = {i1, i2}
    Check = 6
    Timeout = 24
    Request = 1
INVARIANTS
    SilenceNoticed
    IdentitySaved
    NothingLeftBehind
    AskedAgain
