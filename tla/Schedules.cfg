SPECIFICATION SchedulesSpec
CONSTANTS
    Slots = {s1, s2}
    Timers = {t1}
    Blank = Blank
    Attempts = 3
INVARIANTS
    ReportTruthful
    SuccessWasTrue
CHECK_DEADLOCK FALSE
