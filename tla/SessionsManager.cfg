SPECIFICATION ManagerSafetySpec
CONSTANTS
    Sessions = {s1, s2, s3}
    Receivers = {r1, r2}
    Codes = {c1, c2}
    CLIENT_TIMEOUT = 3
    CHECK_INTERVAL = 2
    MAX_CLOCK_STEP = 2
    None = None
    Unknown = Unknown
SYMMETRY Symmetry
INVARIANTS
    TypeOK
    ExclusiveHandOut
    SendersAccounted
    CodeReachesItsSender
    BoundedStay
    ManagerInv
PROPERTIES
    KeptForTimeout
    ImplementsRendezvous
