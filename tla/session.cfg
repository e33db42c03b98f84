SPECIFICATION FairSpec
CONSTANTS
    Sess = {s1}
    Id = {1, 2}
    Content = {c1, Blank}
    Absent = Absent
    Blank = Blank
    CapN = 1
    Clock = {1}
    OneClock = TRUE
    KeepFloorMark = TRUE
    MaxCommits = 2
    MaxCompacts = 2
    MaxLosses = 1
    MaxRemembers = 2
INVARIANTS TypeOK SeenIsShown FloorIsThereOrDue 
PROPERTIES OverflowDrains
