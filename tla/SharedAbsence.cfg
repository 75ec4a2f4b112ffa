SPECIFICATION ScanSpec
CONSTANTS
    Writers = {w1}
    Ops = {"append", "delete", "flush", "merge"}
    InsertSizes = {1, 2}
    InlineLimits = {0, 1}
    MaxTargets = 1
    MaxAttempts = 2
    ExpiryWaits = TRUE
    MaxSnapshot = 7
    Queries = {q1, q2}
    MaxScans = 1
    PageSize = 1
    ReadAttempts = 2
    MaxBytes = 8
    Mixes <- SharedMixes
SYMMETRY ScanSymmetry
INVARIANTS ScanExact
