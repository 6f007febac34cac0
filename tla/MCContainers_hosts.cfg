SPECIFICATION Spec
CONSTANTS
    Scenes = {"hosts"}
    ForgetsReturned = TRUE
    b1 = b1
    b2 = b2
    Bufs = {b1, b2}
    Bytes = {1, 2}
    newline = 2
    junk = 0
    MinSize = 1
    MaxSize = 2
    Chunk = 2
    Meta = 1
    Inputs <- LongInputs
    Lens = {0, 1, 4}
    nil = nil
    Node = {p1, p2, p3}
    p1 = p1
    p2 = p2
    p3 = p3
    Items = {11, 12, 21}
    Iterators = {1, 2}
    HashKeys = {1, 2, 3}
    HashData = {1, 2}
    hash_key <- KeyNumbers
    Sizes = {0, 1}
    HASH_ALLOC = 2
    HASH_DEF_SIZE = 2
    MaxNodes = 2
    u1 = u1
    u2 = u2
    Users = {u1, u2}
    ArgLists = {1, 2}
    NULL = NULL
    Targets <- Commands
    Values = {"on"}
    MaxActions = 2
    MaxLost = 1
    Radix = 2
    MaxSuffix = 3
    MaxRange = 4
    MaxRanges = 2
    MaxHosts = 6
    Texts <- LargeTexts
    Hosts <- HostNames
PROPERTY
    ImplementsNames
VIEW
    Contents
