SPECIFICATION Spec
CONSTANTS
    Width = 5
    Policies <- MCPolicies
    Writer = {w1, w2}
    Text = {a, s}
    Short = {s}
    NoText = NoText
    NoVector = NoVector
INVARIANTS
    ClusterAgrees
    RetriesBackOff
PROPERTIES
    AloneAgrees
    WritesReturn
