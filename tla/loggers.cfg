CONSTANTS
    Producers = {p1, p2}
    InitialCapacity = 2
    CounterModulus = 64
    MaxPushes = 6
    MaxPops = 32
    PushOps = {"push_back", "try_push_back", "force_push_back"}
    OwnerOps = {}
    NewCapacities = {}
    DefaultValue = DefaultValue
    Vacant = Vacant
    None = None
    Policies <- MCPolicies
    MinimumLevel = 3
    EntryLevels = {3, 4}
    Threads = {t1, t2}
    Locks = {l1, l2}
    GuardVars = {g1, g2}
    LockValues = {w1}
    Unset = Unset
    NoLock = NoLock
    Levels = {1, 2, 3}
    MINIMUM_LEVEL = 1
    SinkLevels <- MCSinkLevels
    MaxEntries = 2
SPECIFICATION MCSpec
INVARIANTS
    FlushedBeforeDestroyed
    AtMostOneStranded
    DrainedBeforeDestroyed
    QuiescentCounts
    NeverOverclaimed
    GuardSeesStable
    SinksAgree
PROPERTIES
    LogReturns
    DestructorReturns
    SyncLogReturns
