SPECIFICATION Spec
CONSTANTS
    BatchSize = 2
    MaxQueueSize = 3
    MaxQueueBytes = 4
    ObservedAt = {0, 1}
    SizeBytes = {1, 2, 5}
    MaxArrivals = 4
    MaxDropCount = 2
INVARIANTS WithinLimits
PROPERTIES BatchesAreChronological ShedsLowestPriorityFirst ImplementsBuffer
