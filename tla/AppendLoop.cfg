CONSTANTS
    Entries <- SmallEntries
    MaxLog = 3
    MaxTerm = 2
SPECIFICATION Spec
INVARIANTS LoopIsMerge StableIsPrefix HoldsEntries
CHECK_DEADLOCK FALSE
