SPECIFICATION Spec
CONSTANTS
    Group = {g1, g2, g3}
    NoGroup = NoGroup
    MaxSlice = 4
    PerGroup = 2
    MaxMatched = 7
    Matches <- MCMatches
INVARIANTS NothingWasted NoCrowding BestOfGroup FocusLeadsSlice
CHECK_DEADLOCK FALSE
