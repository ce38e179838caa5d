CONSTANTS
    a1 = a1
    a2 = a2
    q1 = q1
    Addresses <- MCAddresses
    Collections <- MCOneCollection
    AddOrder <- MCOneOrder
    RemoveOrder <- MCOneOrder
    Requests <- MCRequests
    MaxModule = 2
    MaxMembers = 2
    Blank = Blank
    Null = Null
SPECIFICATION Spec
INVARIANT CheckGoesOn
