SPECIFICATION Spec
CONSTANTS
    w1 = w1
    w2 = w2
    e1 = e1
    e2 = e2
    t1 = t1
    t2 = t2
    ambulance = ambulance
    None = None
    Updater = Updater
    Workers <- MCWorkers
    Emergencies <- MCEmergencies
    RescuerTypes <- MCTypes
    TwinsOf <- OneTwin
    Base <- AtOrigin
    Speed <- Walking
    Needs <- NeedOne
    TypePriority <- MediumThenHigh
    Scene <- OnARow
    TimeToManage <- OneTick
    Width = 4
    Height = 4
    FarAway = 1024
    PromotionAge = 2
    MediumLimit = 4
    MaxLimit = 3
    CancelAge = 4
    SearchLog = {"returns", "crashes"}
    Garbage <- Zeroed
    StopIsSent = FALSE
    SpuriousWakeups = FALSE
SYMMETRY Identical
CHECK_DEADLOCK FALSE
INVARIANTS
    NobodyWaitsForEver
