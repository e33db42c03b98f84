SPECIFICATION FairSpec
CONSTANTS
    Face = {f1, f2}
    Id = {id1}
    None = None
    MaxPuts = 2
    MaxAsks = 2
    MaxFaults = 1
 
PROPERTIES DeleteIsComplete GetIsMonotone  DeletesFinish
CHECK_DEADLOCK FALSE
