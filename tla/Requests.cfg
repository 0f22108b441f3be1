SPECIFICATION IntakeSpec
CONSTANTS
    c1 = c1
    c2 = c2
    Clients <- MCClients
    FileClients <- MCFileClients
    EnvLines <- MCEnvLines
    RescuerLines <- MCRescuerLines
    EmergencyLines <- MCOneKindMore
    Requests <- MCRequests
    QueueName = "emergenze"
    MaxEnvLines = 4
    MaxRescuerLines = 2
    MaxEmergencyLines = 2
    MaxRescuerTypes = 1
    MaxEmergencyTypes = 1
    MaxRequests = 1
    RescuerSlots = 3
    MaxCoordinate = 4
    MaxAmount = 2
    MaxSpeed = 1
    MaxCount = 2
    MaxTime = 1
    MaxPriority = 2
    RunsOff = {"misses", "crashes"}
    QueueCapacity = 1
    MaxFileLines = 1
    MaxRequestCount = 0
    MaxQueues = 2
CHECK_DEADLOCK FALSE
INVARIANTS
    RequestsFitTheArray
