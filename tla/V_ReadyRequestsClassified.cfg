CONSTANTS
 MaxReports = 1
 MaxVersion = 1
 MaxClock = 1
 MalWindow = 1
 TestWindow = 2
 MaxRequests = 2
 BatchSize = 2
 MaxCrashes = 0
 LineLengths = {200}
SPECIFICATION Spec
PROPERTY ReadyRequestsClassified
CHECK_DEADLOCK FALSE
