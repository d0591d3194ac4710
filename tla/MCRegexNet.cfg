CONSTANTS
    MaxReports = 1
    MaxVersion = 1
    MaxClock = 1
    MalWindow = 1
    TestWindow = 2
    MaxRequests = 2
    BatchSize = 2
    MaxCrashes = 0
    LineLengths = {40, 200}
SPECIFICATION Spec
PROPERTY ClassifiedAfterReady
CHECK_DEADLOCK FALSE
