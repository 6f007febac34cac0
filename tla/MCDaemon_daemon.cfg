SPECIFICATION SceneSpec
CONSTANTS
    c1 = c1
    c2 = c2
    n1 = n1
    n2 = n2
    n3 = n3
    none = none
    NumDevs = 2
    Clients = {c1, c2}
    NoClient = none
    Nodes = {n1, n2}
    NoNode = none
    Block <- AckBlock
    PlugNode <- PlugEach
    Scripts <- TwoDevScripts
    ConnectModes <- PipeAndTcp
    DropModes = {"eof"}
    HangModes = {"hup"}
    PlugStates = {"on"}
    MaxActs = 0
    Lines <- TwoDevLines
    MaxLines = 1
INVARIANTS
    PendingExact
    SuccessDelivered
CHECK_DEADLOCK FALSE
SYMMETRY Symmetry
