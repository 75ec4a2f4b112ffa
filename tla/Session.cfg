SPECIFICATION Spec
CONSTANTS
    Partitions = {a, b}
    MaxOpen = 1
    Concurrency = 2
    MaxFiles = 3
INVARIANTS
    RegisteredWhole
    NothingLeftBehind
    UploadsBounded
PROPERTIES
    CallsReturn
    CleanupEnds
    RoomIsMade
CHECK_DEADLOCK FALSE
