SPECIFICATION FairSpec
CONSTANTS
    Threads = {repl}
    Listener = listener
    Nobody = nobody
    Accounts = {default, savings}
    DefaultAccount = default
    NoAccount = noaccount
    Backends = {b1, b2}
    NoBackend = nobackend
    Updating = TRUE
    SpawnFails = FALSE
    RefreshesTxs = TRUE
CHECK_DEADLOCK FALSE
PROPERTIES
    WalletReleased
