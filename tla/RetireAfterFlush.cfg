SPECIFICATION Spec
CONSTANTS
    Writers = {w1}
    Ops = {"append", "delete", "update", "flush", "retire"}
    InsertSizes = {2}
    InlineLimits = {0, 2}
    MaxTargets = 1
    MaxAttempts = 1
    ExpiryWaits = TRUE
    MaxSnapshot = 6
PROPERTIES RetireRestores
