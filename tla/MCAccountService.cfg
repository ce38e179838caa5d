CONSTANTS
    UintMax = 3
    UserNames <- MCUserNames
    r1 = r1
    CustomRoles <- MCCustomRoles
    AskedRoles <- MCAskedRoles
    Asked <- MCAsked
    Timeouts <- MCTimeouts
    Toggles <- MCNoToggles
    InitTimeout = 1
    MaxAccounts = 2
    Null = Null
SPECIFICATION Spec
INVARIANTS
    TypeOK
    UserNamesUnique
    NumbersTrackRecord
    FilesMirrorRecord
    SessionWithinTimeout
    PredefinedRolesStay
PROPERTY LogoutIsFinal
