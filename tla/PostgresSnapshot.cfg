SPECIFICATION Spec
CONSTANTS
    Sessions = {s1, s2}
    Catalogs = {"postgres"}
    Programs <- AllPrograms
    Calls <- SnapshotCalls
    Isolation <- IsolationOf
    MaxCalls <- MaxCallsOf
INVARIANT
    IdsFollowCommits
CHECK_DEADLOCK FALSE
