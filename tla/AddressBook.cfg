SPECIFICATION Spec
CONSTANTS
    Names = {"alice", "bob"}
    Base58 = {"key", "no key"}
    PublicKeys = {"key"}
    Users = {"user"}
    Urls = {"uri"}
    Domains = {"mq", "mqs"}
    Digits = {"443", "0443", "80", "", "70000"}
    Ports = {"443", "80"}
    PortOf <- MCPortOf
    Topics = {"grin_slate_new", "grin_slate_signed", "wallet713_grin_slate"}
    Inputs <- MCInputs
    DEFAULT_GRINBOX_DOMAIN = "mq"
    DEFAULT_MWCMQS_DOMAIN = "mqs"
    DEFAULT_GRINBOX_PORT = "443"
    DEFAULT_MWCMQS_PORT = "443"
    TOPIC_SLATE_NEW = "grin_slate_new"
    TOPIC_WALLET713_SLATES = "wallet713_grin_slate"
    REPLY_TOPICS = {"grin_slate_signed", "wallet713_grin_slate"}
    None = None
INVARIANTS
    TypeOK
    ContactReaches
PROPERTIES
    NamesKept
    SenderNamed
