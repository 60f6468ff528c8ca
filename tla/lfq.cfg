CONSTANTS
    Producers = {p1}
    InitialCapacity = 3
    CounterModulus = 16
    MaxPushes = 6
    MaxPops = 16
    PushOps = {"push_back", "try_push_back"}
    OwnerOps = {"clear"}
    NewCapacities = {}
    OwnCapacity = 2
    OwnNewCapacities = {4}
    OwnModulus = 8
    OwnPushes = 2
    OwnPops = 4
    DefaultValue = DefaultValue
    Vacant = Vacant
    None = None
SPECIFICATION MCSpec
INVARIANTS
    TypeOK
    NoSlotRace
    DeliveredInOrder
    EmptyMeansNothingToRead
    SpscInv
PROPERTIES
    RefusedOnlyWhenFull
    ImplementsBoundedFifo
    PushBackReturns
    AcceptedIsDelivered
    OwnReserveKeepsOldest
