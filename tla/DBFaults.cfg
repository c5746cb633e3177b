CONSTANTS
    BlockSize = 6
    HeaderSize = 2
    Key = {k1}
    Val = {}
    None = None
    Sizes = {3, 5}
    AppendErrors = TRUE
    WritesAfterTear = TRUE
    MaxWrites = 3
    MaxOpens = 3
SPECIFICATION Spec
INVARIANTS TypeOK NoPhantomRecords RecoveredInOrder SurvivesUpToDamage
CHECK_DEADLOCK FALSE
