SPECIFICATION FairSpec
CONSTANTS
    c1 = c1
    c2 = c2
    n1 = n1
    n2 = n2
    n3 = n3
    none = none
    NumDevs = 1
    Clients = {c1}
    NoClient = none
    Nodes = {n1, n2, n3}
    NoNode = none
    Block <- AckBlock
    PlugNode <- ThreePlugs
    Scripts <- OneDevScripts
    ConnectModes <- AnyConnect
    DropModes = {"hup"}
    HangModes = {"hup", "eof"}
    PlugStates = {"on"}
    MaxActs = 0
    Lines <- OneDevLines
    MaxLines = 2
PROPERTIES
    Answered
    DevicesAsSpecified
INVARIANTS
    PromptMeansIdle
    PendingExact
CHECK_DEADLOCK FALSE
