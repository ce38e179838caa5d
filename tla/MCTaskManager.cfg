CONSTANTS
    UintMax = 4
    r1 = r1
    r2 = r2
    r3 = r3
    Requests <- MCRequests
    Categories <- MCCategories
    MaxCrashes = 1
    Null = Null
SPECIFICATION Spec
SYMMETRY MCSymmetry
INVARIANTS
    TypeOK
    ListsCountRequests
    NumbersCoverFiles
    AnsweredTaskKept
\* The system stops when every request is answered.
CHECK_DEADLOCK FALSE
