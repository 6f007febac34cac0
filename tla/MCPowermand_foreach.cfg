SPECIFICATION PSpec
CONSTANTS
    c1 = c1
    c2 = c2
    n1 = n1
    n2 = n2
    n3 = n3
    none = none
    NumDevs = 1
    Clients = {c1}
    NoClient = none
    Nodes = {n1, n2}
    NoNode = none
    Block <- ForeachBlock
    PlugNode <- TwoPlugs
    Scripts <- ForeachScripts
    ConnectModes <- Pipe
    DropModes = {"hup"}
    HangModes = {}
    PlugStates = {"on"}
    MaxActs = 0
    Lines <- ForeachLines
    MaxLines = 1
INVARIANTS
    SuccessDelivered
CHECK_DEADLOCK FALSE
