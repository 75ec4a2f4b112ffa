SPECIFICATION Spec
CONSTANTS
    Sessions = {s1, s2}
    Catalogs <- AllCatalogs
    Programs <- AllPrograms
    Calls <- CallsOf
    Isolation <- IsolationOf
    MaxCalls <- MaxCallsOf
INVARIANTS
    
    IdsFollowCommits
    
    
    
    VersionsGrow
    
    NoLostUpdate
    
    
CHECK_DEADLOCK FALSE
