CONSTANTS
    Letters <- MCLetters
    Lines <- MCLines
    Block = 2
    BatchSize = 2
    MaxRecords = 3
    NumMalicious = 1
    NumBenign = 2
    MaxAttackFiles = 1
    PriorRuns <- MCEmptyFolder
    Scripts <- MCScripts
    AttackThreshold = 2
    LengthLimit = 3
    NIters = 2
SPECIFICATION Spec
INVARIANT IndexPartition
INVARIANT RoundTrip
INVARIANT PolishedBatch
INVARIANT LabelsFromFileNames
PROPERTY BalancedWhenBothPresent
PROPERTY ChunksPartitionRecords
PROPERTY TestTallyCoversCorpus
PROPERTY ModelSaved
