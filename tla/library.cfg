CONSTANTS
    Holders = {h1, h2}
    Values = {v1, v2}
    Vacant = Vacant
    MovedFrom = MovedFrom
    Nothing = Nothing
    OkTypes = {"value"}
    Unit = Unit
    EnumSize = 2
    Pointers = {q1, q2}
    Blocks = {b1, b2}
    DeleterStates = {d1, d2}
    Stateless = Stateless
    Null = Null
    Codes <- MCCodes
    ForeignId = "foreign"
    NarrowBits = 4
    WideBits = 8
    FileHolders = {f1, f2}
    Streams = {"path", "other path"}
    NoStream = NoStream
    OpenedWith <- MCOpenedWith
    Marks = {m1, m2}
    MaxMarks <- MCMaxMarks
    BufferMarks = 1
SPECIFICATION MCSpec
SYMMETRY Symmetry
CHECK_DEADLOCK FALSE
INVARIANTS
    OptionHidesNothing
    ResultTagTruthful
    ResultEveryValueAccountedFor
    EnumIndexTruthful
    UniqueOwnsAndFrees
    ErrorSuccessConfined
    StatusEqualitySymmetric
    FilePairIntact
    FileKeepsAndAppends
PROPERTIES
    OptionImplementsSlot
    ResultImplementsSlot
    
    AnyErrorImplementsSlot
