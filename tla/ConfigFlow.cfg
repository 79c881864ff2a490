SPECIFICATION Spec
CONSTANTS
    Flows = {f1, f2}
    Legacy = {d1, d2}
    Life = {d1}
    Scheduled = {d1}
    None = None
INVARIANTS
    EntryKeepsDevice
    OneFlowPerIdentity
PROPERTIES
    EntryKeepsMac
    MacSharedTwoWays
