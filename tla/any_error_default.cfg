CONSTANTS
    Holders = {h1, h2}
    Values = {v1, v2}
    Vacant = Vacant
    MovedFrom = MovedFrom
    Nothing = Nothing
SPECIFICATION ErrorSpec
CHECK_DEADLOCK FALSE
PROPERTY AnyErrorDefaultIsUnknown
