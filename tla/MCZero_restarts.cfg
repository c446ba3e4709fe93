SPECIFICATION Spec
CONSTANTS
    initialUID = 2
    initialTs = 3
    leaseUIDAtATime = 2
    leaseTsAtATime = 2
    WordSize = 64
    MaxNum = 1
    MaxNamespaces = 1
    StoreFails = FALSE
INVARIANT ReopenReadsCommits
