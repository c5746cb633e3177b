CONSTANTS
    Self = Self
    None = None
    Key = {k1}
    Val = {v1}
    SyncErrors = TRUE
    RetriesAfterError = TRUE
    WritesAfterTear = FALSE
    MaxWrites = 2
    MaxOpens = 3
    MaxFile = 5
SPECIFICATION Spec
INVARIANT RecoveryIsExact
CHECK_DEADLOCK FALSE
