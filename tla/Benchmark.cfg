CONSTANTS
    i1 = i1
    i2 = i2
    h1 = h1
    NULL = NULL
    Instances = {i1, i2}
    Storages = {"private"}
    Names = {"BenchmarkTestFile"}
    Keys = {}
    HandleIds = {h1}
    EnumIds = {}
    File <- MCFile
    Requests <- MCRequests
    DefaultSize = 2
    SizeWidth = 4
SPECIFICATION Spec
INVARIANTS
    NothingLeftBehind
    ResultsTrue
    RewriteKeepsFile
PROPERTIES
    LeftoverOverwritten
    CommandReturns
