SPECIFICATION FairSpec
CONSTANTS
    Slates = {s1, s2}
    Invoices = {}
    Acceptable = {}
    Outputs = {o1}
    Threads = {t1}
    Listener = listener
    Nobody = nobody
    NoSlate = noslate
    Lossy = FALSE
    Crashes = FALSE
PROPERTIES
    ReplyReachesWallet
