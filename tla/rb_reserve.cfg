CONSTANTS
    Elements = {e1, e2, e3, e4}
    InitialCapacity = 2
    NewCapacities = {4}
    Calls = {"push_back", "pop_front", "reserve"}
    Raw = Raw
    None = None
SPECIFICATION Spec
PROPERTY ReserveKeepsElements
