SPECIFICATION Spec
CONSTANTS
    Id = {id1, id2}
    Content = {c1, c2}
    Absent = Absent
    MaxBase = 2
    MaxIncoming = 3
    MaxAt = 2
    BaseLists <- MCBaseLists
    Lists <- MCLists
SYMMETRY Symmetry
INVARIANTS NewestWins BaseKeepsTies NothingDroppedSilently  ReimportIsNoop
CHECK_DEADLOCK FALSE
