SPECIFICATION Spec
CONSTANTS
    Job = {j1, j2}
    Sha = {a, b}
    NoJob = nojob
    Origins = {"upload", "reassess"}
    Removers = {"api", "cli"}
    Together = 2
    MaxFaults = 1
SYMMETRY Symmetry
INVARIANTS
    TypeOK
    LostOnlyWhileRecording
    AssessedWhole
    NothingIsKept
    KeysAreTrue
CHECK_DEADLOCK FALSE
