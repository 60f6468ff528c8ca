CONSTANTS
    Producers = {p1}
    InitialCapacity = 2
    CounterModulus = 16
    MaxPushes = 3
    MaxPops = 6
    PushOps = {"try_push_back"}
    OwnerOps = {"front", "clear", "reserve", "move"}
    NewCapacities = {4}
    DefaultValue = DefaultValue
    Vacant = Vacant
    None = None
SPECIFICATION Spec
PROPERTY
    ReserveLosesNothing
