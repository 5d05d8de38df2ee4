CONSTANTS
    Ports = {p1}
    Keys = {k1}
    Port22 = Port22
    BadText = BadText
    NoPort = NoPort
    NoFile = NoFile
    Down = Down
    Jails = {ipl, reject}
    Lasting = {reject}
    Ips = {i1, i2}
    SshPorts = {Port22, p1}
    SubPort = SubPort
    None = None
    EnginePorts = {e1, e2}
    Sockets = {panel, ssh, daemon}
    Panels = {panel}
    Expected = {ssh}
    Hosts <- SomeHosts
    EngineNums = {560, 561}
    Services <- SomeServices
    Relays = {"vk"}
    Mentions <- SomeMentions
    Beside = TRUE
    MaxFaults = 1
    MaxCommands = 3
    Decoys = {d1, d2}
    Defaults = {d1}
    MaxSlips = 1
    MaxOrders = 3
    ScanHosts = 2
    ScanPorts = 2
    ScanTime = 2
    TraceTime = 1
    PanelTime = 2
    MaxScans = 2
SPECIFICATION Spec
INVARIANTS KeyBehindNoPassword BansHold  OkIsOnItsPorts ScansHold
PROPERTIES FailedLoadRestores
CHECK_DEADLOCK FALSE
