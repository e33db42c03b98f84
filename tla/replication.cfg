SPECIFICATION FairSpec
CONSTANTS
    Brain = {a, b}
    Id = {id1, id2}
    Content = {c1, c2}
    Absent = Absent
    Clock = {1, 2}
    Legacy = {}
    Interleave = TRUE
    ListFails = TRUE
    MaxEdits = 2
    MaxFaults = 2
INVARIANTS TypeOK
PROPERTIES ImportNeverRegresses Converges TiesReachReview
