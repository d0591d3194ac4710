CONSTANTS
    MaxReports = 3
    MaxVersion = 2
    MaxClock = 1
    MalWindow = 1
    TestWindow = 2
    MaxCrashes = 1
SPECIFICATION Spec
INVARIANT IdleImpliesPublished
PROPERTY NewestReportEvaluated
PROPERTY PublicationRefined
CHECK_DEADLOCK FALSE
