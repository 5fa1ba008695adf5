SPECIFICATION FairSpec
CONSTANTS
    Sources <- MCSources
    LoopbackSources <- MCLoopback
    Hostnames <- MCHostnames
    Message <- MCMessage
    Config <- MCConfig
    Workload <- MCWorkload
    HealthLimit <- MCHealthLimit
    MaxWindow = 3
    CaptureIds <- MCCaptureIds
    Slots = {s1, s2}
    None = None
    AuthWindow = 3
    Threshold = 3
    InitialBackoff = 1
    MaxBackoff = 2
    AuthMaxEntries = 2
    CaptureTtl = 1
    MaxCaptures = 1
    MaxStoreBytes = 3
PROPERTY SlotFreedOnClose
CHECK_DEADLOCK FALSE
