SPECIFICATION Spec
CONSTANTS
    Proc = {p1, p2}
    Mcp = {p2}
    Provider = {a, b, c}
    Run = {b}
    Flags = {plain, reload, dry}
    DryRun = {dry}
    Plain = {plain, dry}
    Command <- MCCommand
    MaxAttempts = 3
    None = None
INVARIANTS ExecutedAtMostOnce SuccessIsBacked
PROPERTIES RestoresUndoApplies OutcomesAreFinal
SYMMETRY Symmetry
CHECK_DEADLOCK FALSE
