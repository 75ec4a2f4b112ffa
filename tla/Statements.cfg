SPECIFICATION MixSpec
CONSTANTS
    Writers = {w1, w2}
    Ops = {"append", "replace", "delete", "update", "truncate", "flush", "merge", "rewrite", "alter", "drop", "retire", "expire", "other"}
    InsertSizes = {1, 2, 3}
    InlineLimits = {0, 1}
    MaxTargets = 2
    MaxAttempts = 2
    ExpiryWaits = TRUE
    MaxSnapshot = 7
    Mixes <- StatementMixes
SYMMETRY Symmetry
INVARIANTS TypeOK RowIdsDrawn NoSpuriousConflict OneDeleteFile FeedExact ScheduledUnreachable NoRowTwice
PROPERTIES   RemovedIsScheduled
