SPECIFICATION SafetySpec
CONSTANTS
    BUFFER_SIZE = 2
    MAX_FILE_SIZE = 2
    CHANNEL_CAP = 2
    AVAIL_MODULUS = 1024
    Faults <- ReplaceOnly
INVARIANTS
    MismatchDiscarded
