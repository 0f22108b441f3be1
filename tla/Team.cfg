SPECIFICATION Spec
CONSTANTS
    w1 = w1
    w2 = w2
    e1 = e1
    e2 = e2
    t1 = t1
    t2 = t2
    ambulance = ambulance
    None = None
    Updater = Updater
    Workers <- MCWorkers
    Emergencies <- MCEmergencies
    RescuerTypes <- MCTypes
    TwinsOf <- TwoTwins
    Base <- AtOrigin
    Speed <- Walking
    Needs <- TeamAndOne
    TypePriority <- LowThenMedium
    Scene <- OnARow
    TimeToManage <- OneTick
    Width = 4
    Height = 4
    FarAway = 1024
    PromotionAge = 4
    MediumLimit = 4
    MaxLimit = 3
    CancelAge = 2
    SearchLog = {"returns", "crashes"}
    Garbage <- Zeroed
    StopIsSent = FALSE
    SpuriousWakeups = FALSE
SYMMETRY Identical
CHECK_DEADLOCK FALSE
INVARIANTS
    TypeOK
    OneHandlerEach
    WorkersDoNotDeadlock
    SearchSparesItself
    ChoiceIsNotStale
    NoWakeupIsLost
    WorkFollowsArrival
    TeamMeetsNeeds
    BusyAreInTheTeam
    OnlyScansDeadlock
PROPERTIES
    StealingIsRuled
    ImplementsLifecycle
