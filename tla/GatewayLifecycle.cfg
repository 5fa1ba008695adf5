SPECIFICATION Spec
CONSTANTS
    Port = {1, 2}
    Connections = {1, 2}
    NoPort = NoPort
    Invalid = Invalid
INVARIANTS ServesListeningAddress ReportedReloadIsApplied CleanExitIsDrained
PROPERTIES ShutdownEnds
