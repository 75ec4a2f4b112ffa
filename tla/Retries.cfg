SPECIFICATION FairMixSpec
CONSTANTS
    Writers = {w1, w2}
    Ops = {"append", "delete", "update", "flush", "retire", "other"}
    InsertSizes = {2, 3}
    InlineLimits = {0, 2}
    MaxTargets = 1
    MaxAttempts = 3
    ExpiryWaits = TRUE
    MaxSnapshot = 6
    Mixes <- RetryMixes
INVARIANTS NothingFromTheFuture
PROPERTIES RetireRestoresUnlessFlushed EveryStatementSettles
