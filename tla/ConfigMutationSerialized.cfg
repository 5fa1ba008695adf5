SPECIFICATION Spec
CONSTANTS
    Proc = {p1, p2}
    Remote = {}
    Ghost = ghost
    Entity = {m1}
    Route = {r1}
    Setting = {1}
    SlowOps = FALSE
    None = None
PROPERTY ReadMutateWriteSerialized
CHECK_DEADLOCK FALSE
