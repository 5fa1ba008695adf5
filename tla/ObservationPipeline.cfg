SPECIFICATION Spec
CONSTANTS
    BatchSize = 2
    MaxQueueSize = 2
    MaxQueueBytes = 2
    Priorities = {0, 3}
    MaxArrivals = 3
    MaxWorkers = 2
INVARIANTS NoStrandedFlush AckMeansProcessed NoOrphanWorker EventsAreCurrent NoWriteToClosedStore
PROPERTIES WrittenAtMostOnce ShutdownEnds EventuallyFlushed
