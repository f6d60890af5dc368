\* A client that works on one key with its own handles, and one that calls every
\* function of the library with any handle.
CONSTANTS
    NULL = NULL
    NoKey = NoKey
    Lister = i1
    Instances = {i1, i2}
    Storages = {s1}
    Names = {n1}
    Keys = {k1, k2}
    HandleIds = {h1, h2}
    EnumIds = {e1}
    FlagChoices <- AnyAccess
    Uses <- OneOfEach
    Misusers = {i2}
    MaxGenerates = 2
SYMMETRY Symmetry
SPECIFICATION Spec
INVARIANTS
    HandlesAccounted
    ExclusiveKeyIntact
    DisciplineNeverPanics
    EnumeratorsAccounted
