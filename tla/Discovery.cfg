SPECIFICATION FairSpec
CONSTANTS
    m1 = m1
    m2 = m2
    l1 = l1
    m3 = m3
    l2 = l2
    l3 = l3
    Macs = {m1, m2, m3}
    LifeIds = {l1, l2, l3}
    MacOf <- MCMacOf
    NoMac = NoMac
    MaxDevices = 2
INVARIANTS
    NothingLeftOpen
    NothingHidden
    OfferedOnce
PROPERTIES
    RaceEnds
CHECK_DEADLOCK FALSE
