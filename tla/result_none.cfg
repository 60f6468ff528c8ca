CONSTANTS
    Holders = {h1, h2}
    Values = {v1, v2}
    Vacant = Vacant
    MovedFrom = MovedFrom
    Nothing = Nothing
    OkTypes = {"None"}
    Unit = Unit
SPECIFICATION ResultSpec
CHECK_DEADLOCK FALSE
INVARIANT ResultMovedFromIsDisengaged
