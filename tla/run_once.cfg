SPECIFICATION Spec
CONSTANTS
    l1 = l1
    l2 = l2
    l3 = l3
    Absent = Absent
    Empty = Empty
    Launchers <- ThreeLaunchers
    UpdateRate = 3
    StaleAfter = 5
    Lateness = 1
    MaxTime = 7
SYMMETRY Interchangeable
INVARIANTS OneUnlessTogether RunningIsVisible
PROPERTY RefusedOnlyWhileRunning
CHECK_DEADLOCK FALSE
