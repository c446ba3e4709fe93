SPECIFICATION Spec
CONSTANTS
    Exclusive = {m1, m2}
    Shared = {c1}
    Unlocked = {l1}
    initialUID = 1
    initialTs = 2
    leaseUIDAtATime = 1
    leaseTsAtATime = 1
    MaxTurns = 4
INVARIANTS
    NoIdentifierTwice
    StoreCoversIssued
PROPERTY CallsReturn
