SPECIFICATION Spec
CONSTANTS
    BUFFER_SIZE = 2
    MAX_FILE_SIZE = 5
    CHANNEL_CAP = 2
    AVAIL_MODULUS = 4
    Faults <- NoFault
PROPERTIES
    AcceptedIsDelivered
CHECK_DEADLOCK FALSE
