SPECIFICATION Spec
CONSTANTS
    Brain = {a, b}
    Id = {id1, id2}
    Content = {c1, c2}
    Absent = Absent
    Clock = {1, 2}
    Legacy = {}
    Interleave = FALSE
    ListFails = FALSE
    MaxEdits = 3
    MaxFaults = 1
SYMMETRY Symmetry
INVARIANTS StampsAreAuthored
PROPERTIES ImplementsLww
