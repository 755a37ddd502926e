SPECIFICATION SafetySpec
CONSTANTS
    Sessions = {s1, s2}
    Receivers = {r1, r2}
    Codes = {c1, c2}
    CLIENT_TIMEOUT = 1
    CHECK_INTERVAL = 1
    MAX_CLOCK_STEP = 0
    REFUSAL_DELAY = 1
    PROMPT = FALSE
    None = None
    Unknown = Unknown
SYMMETRY Symmetry
INVARIANTS
    ServerTypeOK
    HeardInOrder
    OwnedByMap
    RefusedOnlyWhenGone
    EnteredCodeMeets
