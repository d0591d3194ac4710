CONSTANTS
    BlockSize = 4
    MaxIter = 2
    Values <- MCValues
SPECIFICATION Spec
INVARIANT ReplayMatchesVerified
CHECK_DEADLOCK FALSE
