CONSTANTS
    BlockSize = 4
    MaxIter = 2
    Values <- MCValues
SPECIFICATION Spec
INVARIANT GetIndexIsFirstOccurrence
CHECK_DEADLOCK FALSE
