CONSTANTS
    BlockSize = 6
    HeaderSize = 2
    Key = {k1}
    Val = {}
    None = None
    Sizes = {3, 5}
    AppendErrors = FALSE
    WritesAfterTear = TRUE
    MaxWrites = 3
    MaxOpens = 3
SPECIFICATION Spec
INVARIANT AckedSurvives
CHECK_DEADLOCK FALSE
