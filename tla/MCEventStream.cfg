CONSTANTS
    Consumer = {c1, c2}
    eventReadBatchSize = 2
    continuityMaxAttempts = 1
    maxLen = 0
    MaxEvents = 2
    Foreign = FALSE

SPECIFICATION StreamSpec
SYMMETRY Symmetry
VIEW View

INVARIANTS
    StreamTypeOK
    NothingMissed

PROPERTIES
    HandoverLosesNothing
    HandledInOrder
