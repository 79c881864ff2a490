SPECIFICATION ViewSpec
CONSTANTS
    None = None
    Selected = {"M25", "X83C", "X50", "G30"}
    Percentages = {0, 50}
    Window = 3
    MaxRecent = 2
    CommandTimeout = 6
    Found <- MCFound
    Pressed <- MCPressed
    Presses = 1
    Calls = 1
INVARIANTS
    ObeyedIsShown
    PercentagesAgree
PROPERTIES
    TakesAllButRepeats
CHECK_DEADLOCK FALSE
