SPECIFICATION Spec
CONSTANTS
    READ_SIZE = 3
    BLOCK_SIZE = 2
    PATH_MAX_LEN = 5
    Names = {"r", "a", "b", "d", "l"}
    ROOT = "r"
    FileSizes = {0, 1, 2, 3, 4, 6, 7}
    Trees <- SmallTrees
    Faults <- AllFaults
INVARIANTS
    TypeOK
    RoundTrip
    OwnArchiveUnpacks
    NothingInvented
    NoPartForTheWhole
    EveryWayOnce
