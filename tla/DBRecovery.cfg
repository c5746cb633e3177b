CONSTANTS
    BlockSize = 6
    HeaderSize = 2
    Key = {k1, k2}
    Val = {v1}
    None = None
    Sizes = {3, 5}
    AppendErrors = FALSE
    WritesAfterTear = FALSE
    MaxWrites = 3
    MaxOpens = 2
SPECIFICATION Spec
INVARIANT AckedSurvives
PROPERTY DurableStore
CHECK_DEADLOCK FALSE
