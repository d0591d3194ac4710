CONSTANTS
 MaxReports = 2
 MaxVersion = 1
 MaxClock = 1
 MalWindow = 1
 TestWindow = 2
 MaxRequests = 2
 BatchSize = 2
 MaxCrashes = 1
 LineLengths = {200}
SPECIFICATION Spec
INVARIANT AtomicPublication
CHECK_DEADLOCK FALSE
