CONSTANTS
    UintMax = 2
    UserNames <- MCUserNames
    r1 = r1
    CustomRoles <- MCCustomRoles
    AskedRoles <- MCAskedRoles
    Asked <- MCAsked
    Timeouts <- MCTimeouts
    Toggles <- MCToggles
    InitTimeout = 1
    MaxAccounts = 2
    Null = Null
SPECIFICATION FairSpec
PROPERTIES
    SessionsEnd
    DirectorySpec
