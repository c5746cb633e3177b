CONSTANTS
    Self = Self
    None = None
    Key = {k1, k2}
    Val = {v1}
    SyncErrors = TRUE
    RetriesAfterError = FALSE
    WritesAfterTear = FALSE
    MaxWrites = 3
    MaxOpens = 3
    MaxFile = 5
SPECIFICATION Spec
INVARIANT RecoveryIsExact
PROPERTY DurableStore
CHECK_DEADLOCK FALSE
