\* One client writes to objects that another one, which passes any handle, changes.
CONSTANTS
    NULL = NULL
    NoKey = NoKey
    First = i1
    Instances = {i1, i2}
    Storages = {s1}
    Names = {0, 1}
    Keys = {k1}
    Data = {d1}
    HandleIds = {h1, h2}
    EnumIds = {e1}
    LoopCount = 2
    FlagChoices <- ExclusiveOnly
    Uses <- WriterAndOthers
    Misusers = {i2}
SYMMETRY Symmetry
SPECIFICATION Spec
INVARIANTS
    DisciplineNeverPanics
PROPERTY
    ExclusiveObjectsStable
