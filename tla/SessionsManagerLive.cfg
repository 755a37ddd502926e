SPECIFICATION ManagerSpec
CONSTANTS
    Sessions = {s1, s2, s3}
    Receivers = {r1}
    Codes = {c1}
    CLIENT_TIMEOUT = 2
    CHECK_INTERVAL = 1
    MAX_CLOCK_STEP = 1
    None = None
    Unknown = Unknown
PROPERTIES
    SenderLeaves
    RegistrationReturns
