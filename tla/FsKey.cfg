\* Two sessions run key_in_persistent and open its object.
CONSTANTS
    NULL = NULL
    NoKey = NoKey
    First = i1
    Instances = {i1, i2}
    Storages = {s1}
    Names = {0, 1}
    Keys = {k1, k2}
    Data = {d1}
    HandleIds = {h1, h2}
    EnumIds = {e1}
    LoopCount = 2
    FlagChoices <- ExclusiveOrShared
    Uses <- KeyTesters
    Misusers = {}
SYMMETRY Symmetry
SPECIFICATION Spec
INVARIANTS
    HandlesAccounted
    OwnKeyDeleted
