CONSTANTS
    h1 = h1
    h2 = h2
    InstIds = {1, 2, 3, 4}
    SessIds = {1, 2, 3, 4}
    MaxCounter = 2
    Hosts = {h1, h2}
    Uses <- MCUses
    Targets = {"sims", "sims_keepalive"}
SPECIFICATION Spec
INVARIANTS
    NestedSessionsAccounted
    AllReleased
PROPERTIES
    KeepAliveCounts
    CallsReturn
