CONSTANTS
    Producers = {p1, p2}
    InitialCapacity = 2
    CounterModulus = 32
    MaxPushes = 2
    MaxPops = 16
    PushOps = {"try_push_back"}
    OwnerOps = {}
    NewCapacities = {}
    DefaultValue = DefaultValue
    Vacant = Vacant
    None = None
SPECIFICATION Spec
INVARIANT DeliveredInOrder
