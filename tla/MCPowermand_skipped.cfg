SPECIFICATION PSpec
CONSTANTS
    c1 = c1
    c2 = c2
    n1 = n1
    n2 = n2
    n3 = n3
    none = none
    NumDevs = 2
    Clients = {c1}
    NoClient = none
    Nodes = {n1, n2, n3}
    NoNode = none
    Block <- AckBlock
    PlugNode <- MixedPlugs
    Scripts <- MixedScripts
    ConnectModes <- BothPipes
    DropModes = {}
    HangModes = {}
    PlugStates = {"on"}
    MaxActs = 0
    Lines <- MixedLines
    MaxLines = 1
INVARIANTS
    SuccessDelivered
CHECK_DEADLOCK FALSE
