SPECIFICATION Spec
CONSTANTS
    initialUID = 1
    initialTs = 1
    leaseUIDAtATime = 1
    leaseTsAtATime = 1
    WordSize = 16
    MaxNum = 2
    MaxNamespaces = 2
    StoreFails = TRUE
INVARIANTS
    TypeOK
    LeaseCoversGrants
    NamespacesCovered
    ReadsSeeCommits
    ReadTsAssigned
    UIDsAdmitted
    InitialSchemaPresent
PROPERTIES
    UIDsIncrease
    TimestampsIncrease
    NamespaceIDsIncrease
