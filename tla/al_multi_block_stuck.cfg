CONSTANTS
    Producers = {p1, p2}
    InitialCapacity = 1
    CounterModulus = 32
    MaxPushes = 4
    MaxPops = 16
    PushOps = {"push_back", "try_push_back", "force_push_back"}
    OwnerOps = {}
    NewCapacities = {}
    DefaultValue = DefaultValue
    Vacant = Vacant
    None = None
    Policies <- MCMultiBlock
    MinimumLevel = 3
    EntryLevels = {4}
SPECIFICATION LogFairSpec
PROPERTY LogReturns
