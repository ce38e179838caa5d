CONSTANT
    Groups <- MCGroups
SPECIFICATION Spec
INVARIANTS
    TypeOK
    AcceptedIsApplied
    OneDirectory
    PasswordLimitsOrdered
    CopyTellsModule
    NothingUninitialised
PROPERTIES
    RestartKeeps
    ServersOrClock
    RefusedChangesNothing
