SPECIFICATION SceneSpec
CONSTANTS
    c1 = c1
    n1 = n1
    n2 = n2
    none = none
    NumDevs = 1
    Clients = {c1}
    NoClient = none
    Nodes = {n1, n2}
    NoNode = none
    Block <- Blocks
    PlugNode <- UnusedPlug
    Scripts <- OneDevice
    ConnectModes <- AnyConnect
    DropModes = {"eof", "hup"}
    PlugStates = {"on", "off", "other"}
    MaxActs = 2
INVARIANTS
    TypeOK
    LoginFirst
    OnlyLoginBeforeLogin
    OutputIsHeads
    NoStaleAnswer
    ClientsAreTimed
    StatusIsAnAnswer
PROPERTIES
    CallsBackOnce
