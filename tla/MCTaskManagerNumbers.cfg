CONSTANTS
    UintMax = 4
    r1 = r1
    r2 = r2
    r3 = r3
    Requests <- MCRequests
    Categories <- MCCategories
    MaxCrashes = 1
    Null = Null
SPECIFICATION Spec
SYMMETRY MCSymmetry
INVARIANT TaskNumbersDistinct
CHECK_DEADLOCK FALSE
