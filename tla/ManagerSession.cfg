SPECIFICATION Spec
CONSTANTS
    Slots = {s1, s2}
    Timers = {t1}
    Unset = Unset
    Blank = Blank
    Attempts = 2
    MaxDelayed = 1
    MaxChanges = 2
INVARIANTS
    OthersKept
    ConfirmedIsTrue
CHECK_DEADLOCK FALSE
