SPECIFICATION Spec
CONSTANTS
    Proc = {p1}
    M = 5
    MaxFaults = 1
PROPERTIES LegacyStepsNotRerun
