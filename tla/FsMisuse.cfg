\* One client that sends every object command with any handle; every call returns.
CONSTANTS
    NULL = NULL
    NoKey = NoKey
    First = i1
    Instances = {i1}
    Storages = {s1}
    Names = {0, 1}
    Keys = {k1}
    Data = {d1}
    HandleIds = {h1, h2}
    EnumIds = {e1}
    LoopCount = 2
    FlagChoices <- ExclusiveOrShared
    Uses <- EveryObjectCommand
    Misusers = {i1}
SPECIFICATION FairSpec
INVARIANTS
    TemporariesFreed
    LoopLeavesNothing
PROPERTY
    CallsReturn
