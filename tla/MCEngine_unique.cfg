SPECIFICATION Spec
CONSTANTS
    Value = {a, b}
    initialUID = 2
    MaxUID = 3
    MaxNamespaces = 1
    MaxEdges = 2
    Upserter = {u1}
    NoValue = NoValue
INVARIANTS
    UniqueHolds
    BlankNodesAreNew
