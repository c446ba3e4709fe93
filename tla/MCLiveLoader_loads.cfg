SPECIFICATION Spec
CONSTANTS
    File = {1, 2, 3}
    x = x
    y = y
    Name = {x, y}
    SubjectsOf <- SubjectsOfFiles
    maxRoutines = 2
    batchSize = 1
    numBatchesInBuf = 2
    NqchSize = 1
    NqbufSize = 1
    Faults = {"chunk", "lease", "mutate", "cancel"}
INVARIANTS
    NilMeansLoaded
    OneNodePerName
    AppliedInOrder
    NoSendOnClosed
PROPERTY LoadsToTheEnd
CHECK_DEADLOCK FALSE
