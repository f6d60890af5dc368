\* One client lists the keys while another creates and deletes them; every call returns.
CONSTANTS
    NULL = NULL
    NoKey = NoKey
    Lister = i1
    Instances = {i1, i2}
    Storages = {s1}
    Names = {n1, n2}
    Keys = {k1}
    HandleIds = {h1}
    EnumIds = {e1}
    FlagChoices <- ExclusiveAccess
    Uses <- OneLister
    Misusers = {}
    MaxGenerates = 3
SPECIFICATION FairSpec
INVARIANTS
    TemporariesFreed
    ListExact
PROPERTY
    CallsReturn
