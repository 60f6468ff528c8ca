CONSTANTS
    Producers = {p1, p2}
    InitialCapacity = 1
    CounterModulus = 32
    MaxPushes = 2
    MaxPops = 16
    PushOps = {"push_back"}
    OwnerOps = {}
    NewCapacities = {}
    DefaultValue = DefaultValue
    Vacant = Vacant
    None = None
SPECIFICATION FairSpec
PROPERTY PushBackReturns
