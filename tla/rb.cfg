CONSTANTS
    Elements = {e1, e2, e3, e4, e5}
    InitialCapacity = 3
    NewCapacities = {}
    Calls = {"push_back", "pop_front", "pop_back", "insert", "erase", "destroy", "iterate"}
    AllCapacity = 2
    AllNewCapacities = {4}
    Raw = Raw
    None = None
SPECIFICATION MCSpec
SYMMETRY Symmetry
INVARIANTS
    TypeOK
    FlagsTruthful
    WellDefined
    AllNoElementTwice
PROPERTIES
    ImplementsBoundedDeque
    AllIteratorPointsAtItsIndex
