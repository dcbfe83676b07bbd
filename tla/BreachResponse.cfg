SPECIFICATION Spec
CONSTANTS
    a1 = a1
    a2 = a2
    d1 = d1
    d2 = d2
    d3 = d3
    t1 = t1
    t3 = t3
    c1 = c1
    c2 = c2
    Applications = {a1, a2}
    Records = {d1, d2, d3}
    AppOf <- OneElsewhere
    Tasks = {t1, t3}
    TaskAppOf <- OneTaskElsewhere
    Flat = {t1}
    Calls = {c1, c2}
    Range = Range
    BoardConfigured = TRUE
    ScanLimit = 3
    MaxFaults = 1
INVARIANTS
    FlagsHaveAlerts
    EachCountedOnce
    ReturnedCallFlagged
    ReturnedCallNotified
SYMMETRY Symmetry
CHECK_DEADLOCK FALSE
