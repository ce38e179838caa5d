CONSTANTS
    UintMax = 2
    s1 = s1
    s2 = s2
    c1 = c1
    p1 = p1
    Sessions <- MCOneSession
    Logouts <- MCLogouts
    Patches <- MCNone
    Timeouts <- MCTimeouts
    InitTimeout = 1
    RemainMax = 2
    Null = Null
SPECIFICATION Spec
INVARIANT LogoutEndsSession
\* What undefined behaviour is ends the behaviour, and so does the last client.
CHECK_DEADLOCK FALSE
