CONSTANTS
    Mains <- MCMains
    Interval = 2
    MaxRequestTime = 3
    MaxSends = 31
SPECIFICATION Spec
INVARIANT TypeOK
INVARIANT RateBounded
PROPERTY AttacksEnd
CHECK_DEADLOCK FALSE
