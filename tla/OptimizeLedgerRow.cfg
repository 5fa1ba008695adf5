SPECIFICATION Spec
CONSTANTS
    Proc = {p1, p2}
    Mcp = {p2}
    Provider = {a, b}
    Run = {b}
    Flags = {plain, reload, dry}
    DryRun = {dry}
    Plain = {plain, dry}
    Command <- MCCommand
    MaxAttempts = 3
    None = None
CHECK_DEADLOCK FALSE
PROPERTY ChangedIsInLedger
