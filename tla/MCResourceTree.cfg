CONSTANT
    Paths <- MCPaths
SPECIFICATION Spec
INVARIANTS
    TypeOK
    WholeComesBack
    DeadHasHole
PROPERTY
    DeadForGood
