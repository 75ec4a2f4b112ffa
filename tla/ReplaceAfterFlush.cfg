SPECIFICATION Spec
CONSTANTS
    Writers = {w1, w2}
    Ops = {"append", "replace", "flush"}
    InsertSizes = {1}
    InlineLimits = {1}
    MaxTargets = 1
    MaxAttempts = 2
    ExpiryWaits = TRUE
    MaxSnapshot = 6
PROPERTIES ReplaceClobbersNothing
