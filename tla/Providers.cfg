SPECIFICATION Spec
CONSTANTS
    r1 = r1
    r2 = r2
    Readers = {r1, r2}
    Providers <- AllProviders
    Methods <- MethodsOf
    Capabilities <- AllCapabilities
    Legacy <- LegacyOf
    PoolSize <- PoolSizeOf
    Plans <- AllPlans
    MaxCalls <- CallsOf
    MaxChanges <- ChangesOf
INVARIANTS OneState  ErrorsSurface NoDeletionMissed NobodyStuck
CHECK_DEADLOCK FALSE
