SPECIFICATION Spec
CONSTANTS
    Id = {1, 2, 3}
    SeedId = 2
    glob = glob
    other = other
    Leaf = {dispatcher, other}
    SoftLeaf = {dispatcher}
    Dispatcher = dispatcher
    Body = {glob, on}
    On = on
    Blank = Blank
    None = None
    Commits <- MCCommits
    Quoting = {}
    MarkersKept = TRUE
    MaxCommits = 3
    MaxEdits = 3
    MaxChanges = 4
INVARIANTS ToldIsDenied TiersAgree
PROPERTIES UserTextKept BlockIsCurrent
