SPECIFICATION FairSpec
CONSTANTS
    Threads = {repl}
    Listener = listener
    Nobody = nobody
    Accounts = {default, savings}
    DefaultAccount = default
    NoAccount = noaccount
    Backends = {b1, b2}
    NoBackend = nobackend
    Updating = TRUE
    SpawnFails = TRUE
    RefreshesTxs = FALSE
INVARIANTS
    OneUpdater
    AccountMatchesBackend
    BookedToOpenAccount
PROPERTIES
    WalletReleased
