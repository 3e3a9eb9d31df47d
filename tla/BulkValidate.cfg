SPECIFICATION Spec
CONSTANTS
    MaxTxs = 3
    U32 = 256
    Wallets <- MCWallets
    Kernels <- MCKernels
INVARIANTS
    OutputsPartitioned
    ReportComplete
    MergeExact
    
    SweepClosed
    NoSilentGap
CHECK_DEADLOCK FALSE
