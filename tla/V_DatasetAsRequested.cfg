CONSTANTS
    Letters <- MCLetters
    Lines <- MCLines
    Block = 2
    BatchSize = 2
    MaxRecords = 3
    NumMalicious = 1
    NumBenign = 1
    MaxAttackFiles = 1
    PriorRuns <- MCStaleFolder
    Scripts <- MCScripts
    AttackThreshold = 2
    LengthLimit = 3
    NIters = 2
SPECIFICATION Spec
INVARIANT DatasetAsRequested
