SPECIFICATION SafetySpec
CONSTANTS
    Sessions = {s1}
    Receivers = {r1, r2}
    Codes = {c1, c2}
    CLIENT_TIMEOUT = 2
    CHECK_INTERVAL = 1
    MAX_CLOCK_STEP = 0
    REFUSAL_DELAY = 3
    PROMPT = TRUE
    None = None
    Unknown = Unknown
INVARIANTS
    EnteredCodeIsHonoured
