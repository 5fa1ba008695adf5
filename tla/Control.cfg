SPECIFICATION Spec
CONSTANTS
    RequestCount = 3
    TaskCount = 4
    GatewayTasks = 1
    Concurrency = 2
    MaxBusy = 1
    MaxTime = 1
    MaxDeletions = 1
    BatchSize = 1
    RouteCount = 3
    MaxPrice = 1
    MaxMessages = 2
    Casts = {{"client", "locker"}, {"locker", "bench", "faults"}, {"gateway", "bench", "faults"}, {"operator", "bench", "faults"}, {"operator", "optimizer"}, {"client", "optimizer", "faults"}, {"traffic", "operator", "trace"}}
INVARIANTS SummariesAreFounded RepairAllIsComplete WinnerIsNotBeaten
PROPERTIES SettledRunsAreFinal ServerEnds
CHECK_DEADLOCK FALSE
