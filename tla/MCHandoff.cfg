CONSTANTS
    Width = 4
    MaxIndex = 4
    Backlog = 2
SPECIFICATION Spec
INVARIANT ReplayedFileExists
PROPERTY NewestPayloadReplayed
CHECK_DEADLOCK FALSE
