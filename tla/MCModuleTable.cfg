CONSTANTS
    a1 = a1
    a2 = a2
    q1 = q1
    Addresses <- MCOneAddress
    Collections <- MCCollections
    AddOrder <- MCAddOrder
    RemoveOrder <- MCRemoveOrder
    Requests <- MCRequests
    MaxModule = 2
    MaxMembers = 2
    Blank = Blank
    Null = Null
SPECIFICATION FairSpec
INVARIANTS TypeOK CheckHoldsEntries
PROPERTIES
    FileCatchesUp
    DownModuleLeaves
    UpModuleStays
