CONSTANTS
    Ports = {p1, p2}
    Conns = {c1, c2, c3, c4}
    Peers = {i1, i2}
    MaxConn = 3
    PerIp = 2
    MaxAuth = 1
    NoConn = NoConn
SPECIFICATION GuardSpec
INVARIANTS LimitsHold CountersExact
PROPERTY SlotsComeBack
\* every listener may be dead and every connection over
CHECK_DEADLOCK FALSE
