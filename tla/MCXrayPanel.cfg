CONSTANTS
    Slots = {1, 2}
    MaxPort = 7
    Favourites <- FirstPorts
    Base = 3
    OwnPorts <- BotPorts
    MaxStrangers = 1
    MaxTyped = 1
    MaxTaps = 3
    Ids = {1, 2}
    Names = 2
    Doors = {d1, d2}
    MaxPairs = 4
    MaxWords = 2
    MaxPresses = 5
    Targets <- Found
    MaxDraws = 4
    MaxEdits = 5
    ScanNames = {"a", "b"}
    ScanNets = {"net"}
    Behind <- SitesBehind
    Candidates <- Defaults
    ScanLimit = 2
    NetLimit = 2
    TaskLimit = 3
    Concurrency = 2
    MaxScans = 2
    Hosts = {"h1", "h2"}
    FirstHost = "h1"
    MaxKeys = 4
    MaxSteps = 5
    Entries <- Registered
    Readers = {r1, r2}
    MaxBody = 8
    MaxFiles = 3
    People = {"p", "q"}
    Proxies = {"proxy"}
    Agents = {a1, a2}
    NoAgent = none
    MaxCalls = 4
    Releases = {"v1", "v2"}
    Pinned = "v1"
    Below = "v0"
    Odd = "x"
    MaxInstalls = 3
    Ips = {i1, i2, i3}
    Workers = {w1, w2}
    RateLimit = 1
    Window = 1
    MissStep = 1
    BlockStep = 1
    BlockMax = 4
    MaxOffences = 3
    BucketLimit = 1
    Blocking = TRUE
    Watched = i1
SPECIFICATION PanelSpec
INVARIANTS PortsAreApart FreshLinkIsServed KeysFit RowsAreRight LinkOpensInbound AnswersAreRight
    InstallIsTrue MissesBounded BlockKept
CHECK_DEADLOCK FALSE
