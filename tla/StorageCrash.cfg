CONSTANTS
    Self = Self
    Other = {p}
    None = None
    SyncErrors = TRUE
    AppendErrors = TRUE
    RetriesAfterError = FALSE
    WritesAfterTear = FALSE
    MaxTerm = 2
    MaxLog = 2
    MaxFile = 3
SPECIFICATION Spec
INVARIANTS SavedIsRecoverable CrashLeavesPrefix  EntriesInOrder
CHECK_DEADLOCK FALSE
