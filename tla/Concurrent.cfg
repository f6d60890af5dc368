\* Two threads that call again and again.
CONSTANTS
    Threads <- TwoThreads
    MaxRounds = 1
SPECIFICATION FairSpec
INVARIANTS
    TypeOK
    CountsRunningCalls
    PeakIsReported
    NothingAllocatedOnReturn
PROPERTY
    CallsReturn
