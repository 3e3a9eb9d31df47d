SPECIFICATION Spec
CONSTANTS
    Seeds = {s1, s2}
    Paths = {p1, p2}
    DEFAULT_PATH = p1
    U32 = 3
    None = None
    Torn = Torn
INVARIANTS
    GrinboxAddressStable
    OpenIsFile
    SuccessMeansAddress
    IndexPersists
PROPERTY
    DaemonServes
