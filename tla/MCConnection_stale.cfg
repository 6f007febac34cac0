SPECIFICATION Spec
CONSTANTS
    XPOLLFD_ALLOC_CHUNK = 1
    Timeouts = {1, 3, 4}
    MSEC = 2
    MaxWait = 6
    Plants <- TwoPlants
    NumAddrs = 2
    Outcomes = {"up", "progress", "error", "nosocket"}
    rtab <- Backoff
    MaxRetries = 2
    IAC = 255
    DO = 253
    OtherCommands = {251}
    Granted = {3}
    Refused = {24}
    TelnetBytes = {3, 24, 251, 253, 255}
    Insteon = {"1A"}
    X10 = {"g12"}
    x10_attempts = 1
    MaxTyped = 0
    MaxNoise = 0
    MaxBusy = 0
    MaxLost = 0
    MaxLate = 0
    MaxStream = 4
INVARIANTS
    UnconnectedHasNoDescriptor
