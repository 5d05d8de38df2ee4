CONSTANTS
    Ops = {o1, o2}
    Navs = {n1}
    Markers = {m1}
    Chosen = {c1}
    NoOne = NoOne
    TapLimit = 3
    BusyTtl = 4
    ActionTimeout = 1
    Agents = {a1}
    Configs = {k1, k2, bad}
    Accepted = {k1, k2}
    NoConf = NoConf
SPECIFICATION ActionsSpec
INVARIANTS OneAtATime FilesAreTested
PROPERTIES AdmittedEnds SerialSpec RestoredIsPrevious OkMeansLive
