SPECIFICATION ClientSpec
CONSTANTS
    Caller = {g1, g2}
    Connection <- MCConnection
    poolSize = 1
    Calls = {"write", "update", "request", "raw", "query", "txn", "drop", "close"}
    DropsFail = TRUE
    NoConnection = NoConnection
INVARIANTS
    ConnectionsExclusive
    ConnectionsAccounted
    CacheTrue
PROPERTIES
    UsesPool
    CallsReturn
