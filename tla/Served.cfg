SPECIFICATION FairSpec
CONSTANTS
    w1 = w1
    w2 = w2
    e1 = e1
    e2 = e2
    t1 = t1
    t2 = t2
    ambulance = ambulance
    None = None
    Updater = Updater
    Workers <- MCWorkers
    Emergencies <- MCEmergencies
    RescuerTypes <- MCTypes
    TwinsOf <- OneTwin
    Base <- AtOrigin
    Speed <- Walking
    Needs <- NeedOne
    TypePriority <- MediumThenHigh
    Scene <- HomeOrNextDoor
    TimeToManage <- OneTick
    Width = 4
    Height = 4
    FarAway = 1024
    PromotionAge = 1
    MediumLimit = 3
    MaxLimit = 2
    CancelAge = 1
    SearchLog = {"returns", "crashes"}
    Garbage <- Zeroed
    StopIsSent = FALSE
    SpuriousWakeups = FALSE
CHECK_DEADLOCK FALSE
PROPERTIES
    ReceivedIsArchived
