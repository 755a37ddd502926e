SPECIFICATION Spec
CONSTANTS
    Clients = {c1, c2, c3}
    Names = {n1, n2}
    None = None
SYMMETRY Symmetry
INVARIANTS
    AloneWorks
    WrongArchiveRefused
    NothingLeftBehind
