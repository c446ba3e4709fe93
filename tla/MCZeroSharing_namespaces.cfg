SPECIFICATION Spec
CONSTANTS
    Exclusive = {}
    Shared = {c1, c2}
    Unlocked = {}
    initialUID = 2
    initialTs = 3
    leaseUIDAtATime = 2
    leaseTsAtATime = 2
    MaxTurns = 2
INVARIANT NamespacesDistinct
