SPECIFICATION Spec

INVARIANTS
    NodesOnOnePlug
    DevicesMatchSpecs
    RequestsAreExact
    StatusIsTrue

PROPERTIES
    ImplementsCalls
    ExchangesEnd

CONSTANTS
    SpecTexts <- Texts
    DeviceLines <- Devices_
    NodeLines <- Nodes_
    AliasLines <- Aliases_
    ListenLines <- Listens
    DefaultListen = "local"
    Requests <- Asked
    MaxStatements = 6
    ConfNodes <- TwoNodes
    ConfAliases <- BothNodes
    Refused = {"cycle"}
    Faulty = {"n[2-1]"}
    Addresses <- TwoAddresses
    Faults = {"listen", "accept", "exit"}
    MaxActions = 2
    MaxTelemetry = 1
    Asks <- LibraryAsks
    MaxCalls = 2
    MaxInterrupts = 1
    CommandLines <- Typings

CHECK_DEADLOCK FALSE
