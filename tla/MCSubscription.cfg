CONSTANTS
    Consumer = {c1}
    eventReadBatchSize = 2
    continuityMaxAttempts = 2
    maxLen = 1
    MaxEvents = 3
    Foreign = TRUE

SPECIFICATION StreamSpec

PROPERTIES
    ContinuityMeansComplete
    EventsReachHandler
