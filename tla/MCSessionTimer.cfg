CONSTANTS
    UintMax = 3
    s1 = s1
    s2 = s2
    c1 = c1
    p1 = p1
    Sessions <- MCSessions
    Logouts <- MCLogouts
    Patches <- MCPatches
    Timeouts <- MCTimeouts
    InitTimeout = 1
    RemainMax = 2
    Null = Null
SPECIFICATION FairSpec
INVARIANTS
    TypeOK
    UnsharedSessionKept
    
PROPERTY SessionEnds
\* What undefined behaviour is ends the behaviour, and so does the last client.
CHECK_DEADLOCK FALSE
