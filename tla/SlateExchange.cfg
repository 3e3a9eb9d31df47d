SPECIFICATION Spec
CONSTANTS
    Slates = {s1, i1, i2}
    Invoices = {i1, i2}
    Acceptable = {i1}
    Outputs = {o1}
    Threads = {t1, t2}
    Listener = listener
    Nobody = nobody
    NoSlate = noslate
    Lossy = TRUE
    Crashes = TRUE
SYMMETRY Symmetry
INVARIANTS
    LiveInputsDisjoint
    NoOrphanLock
    NoEarlyReply
    UnsentNeverPosted
    LiveReserved

    
