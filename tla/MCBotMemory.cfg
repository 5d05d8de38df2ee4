CONSTANTS
    Keys = {k1, k2, k3}
    Watched = k1
    Cap = 2
    Span = 4
    Window = 2
    MaxEntries = 2
    Replay = 1
    People = {"a", "b"}
    Nobody = "nobody"
    MaxStarts = 3
    MaxSlips = 2
    Names = {"a"}
    MaxGen = 3
    MaxFaults = 1
    MaxChanges = 2
    Users = {"a", "b"}
    MaxBytes = 3
    MaxPeers = 3
    MaxDays = 2
    MaxResets = 2
    Sources = {"a", "b", "c"}
    Cooldown <- Cooldowns
    Around <- Quiets
    SeenMost = 4
    SeenKept = 4
    BansMost = 1
    BansKept = 1
    MaxFlips = 1
    Fields = {"port"}
    Things = {"1"}
    Ready <- ReadyValues
    Typed = {"443", "long"}
    MaxRegistry = 1
    Twice = 2
    MaxPicks = 2
    MaxBoots = 1
SPECIFICATION Spec
INVARIANTS TwoWindowsAtMost OneOwner EngineIsTrue CountsAreReal NoRepeat
PROPERTIES AppliedOnce
CHECK_DEADLOCK FALSE
