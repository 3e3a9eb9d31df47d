SPECIFICATION FairSpec
CONSTANTS
    MaxSessions = 2
    MaxMessages = 2
    Malformed = {2}
    Undecodable = {}
    NoSession = NoSession
    Crashes = TRUE
INVARIANTS
    DeletedWasHandled
    AnsweredOnce
    NoWalletOnlyIfLockedUnder
PROPERTIES
    StopTakesEffect
    ImplementsMailbox
