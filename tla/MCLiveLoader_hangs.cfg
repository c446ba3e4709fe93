SPECIFICATION Spec
CONSTANTS
    File = {1, 2}
    x = x
    y = y
    Name = {x, y}
    SubjectsOf <- SubjectsOfFiles
    maxRoutines = 2
    batchSize = 1
    numBatchesInBuf = 2
    NqchSize = 1
    NqbufSize = 3
    Faults = {"mutate"}
PROPERTY LoadReturns
CHECK_DEADLOCK FALSE
