SPECIFICATION Spec
CONSTANTS
    Proc = {p1, p2}
    Remote = {p2}
    Ghost = ghost
    Entity = {m1}
    Route = {r1}
    Setting = {1}
    SlowOps = TRUE
    None = None
INVARIANTS CatalogIsConsistent NoLeakedLock
CHECK_DEADLOCK FALSE
