SPECIFICATION OpsSpec
CONSTANTS
    Value = {k, j}
    initialUID = 2
    MaxUID = 4
    MaxNamespaces = 0
    MaxEdges = 1
    NoValue = NoValue
    NoOne = NoOne
    ConsumedKey = k
    EnsuredKey = j
    Upserter = {g1, g2}
    Consumer = {c1, c2}
    maxAttempts = 2
    KeySchema = "unique"
    Unarbitrated = FALSE
    Faults = TRUE
    Inserts = TRUE
INVARIANTS
    SingleWinner
    RemovalReported
    OneInserts
PROPERTIES
    ImplementsSingleUse
    ConsumersReturn
