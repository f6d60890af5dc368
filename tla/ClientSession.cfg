CONSTANTS
    OpAddrs <- MCOpAddrs
    ObjAddrs <- MCObjAddrs
    TaHead = 10
    ValMod = 8
    AttrLists <- MCAttrLists
    PackLists <- MCPackLists
    RawBuffers <- MCRawBuffers
    MaxRounds = 2
    DataSizes = {0, 2, 3, 4, 6, 8}
    Block = 2
    MaxDigests = 2
    Sizes = {0, 1, 2}
    SizeMod = 4
    SockIds = {1, 2}
    SockSizes = {1, 2}
    SockHandles = {"a", "b"}
    BufSize = 2
SPECIFICATION Spec
VIEW View
INVARIANTS
    PerfHandlesReliable
    DeathExplained
    ClientKnowsState
    AttributesInBuffer
    PackedIsAccepted
    SocketsAccounted
