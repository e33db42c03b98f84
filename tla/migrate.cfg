SPECIFICATION FairSpec
CONSTANTS
    Proc = {p1, p2}
    M = 5
    MaxFaults = 2
INVARIANTS LedgerIsTrue OpenMeansCurrent
PROPERTIES EventuallyOpens
