SPECIFICATION Spec
CONSTANTS
    Threads = {repl}
    Listener = listener
    Nobody = nobody
    Accounts = {default, savings}
    DefaultAccount = default
    NoAccount = noaccount
    Backends = {b1, b2}
    NoBackend = nobackend
    Updating = TRUE
    SpawnFails = FALSE
    RefreshesTxs = FALSE
PROPERTIES
    SlateKeepsAccount
