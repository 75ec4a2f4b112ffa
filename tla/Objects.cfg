SPECIFICATION Spec
CONSTANTS
    a = a
    b = b
    c = c
    Root <- RootOf
    Elsewhere <- ElsewhereIs
    Scopes <- ObjectScopes
INVARIANTS NamedObjectsExist 
PROPERTIES ScheduledUntilGone
CHECK_DEADLOCK FALSE
