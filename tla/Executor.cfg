SPECIFICATION FairSpec
CONSTANTS
    Requests = {r1, r2}
    LoopThreads = 1
    MayPanic = TRUE
INVARIANTS
    NoLostWakeup
    JoinNeverBlocks

    
