SPECIFICATION Spec
CONSTANTS
    Goroutine = {g1, g2}
    Key = {k1}
    NoKey = NoKey
    NoOne = NoOne
    Shutdowns = TRUE
    MaxEngines = 2
INVARIANTS
    OneAtATime
PROPERTY CallsReturn
