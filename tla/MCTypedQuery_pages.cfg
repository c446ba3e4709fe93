SPECIFICATION Spec
CONSTANTS
    Row = {1, 2, 3, 4, 5}
    InOrder <- MCInOrder
    Stored = {2, 3, 4, 5}
    valuesOf <- MCValuesOf
    neighboursOf <- MCNeighboursOf
    Clauses <- MCClauses
    Alternatives <- MCAlternatives
    Name = {"n1", "n2"}
    BadName = "var"
    defaultPageSize = 2
    Limits = {0, 3}
    Offsets = {0, 1}
    Roots <- MCRoots
    MaxCalls = 2
    MaxWrites = 1
INVARIANTS
    FilterMeansCalls
    StreamsSnapshot
    RequestsAgree
PROPERTIES
    ReadsPages
