SPECIFICATION Spec
CONSTANTS
    BUFFER_SIZE = 2
    MAX_FILE_SIZE = 4
    CHANNEL_CAP = 2
    AVAIL_MODULUS = 1024
    Faults <- EveryFault
INVARIANTS
    TypeOK
    SentMeansTaken
    ReceivedIsAnnounced
    ServerControlsBytes
    StreamInOrder
PROPERTIES
    OlderPathKept
    ImplementsDelivery
    TransferEnds
    SenderReleasesAll
    AcceptedIsDelivered
