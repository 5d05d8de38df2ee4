CONSTANTS
  Ops = {o1, o2}
  Navs = {n1}
  Markers = {}
  Chosen = {}
  NoOne = NoOne
  TapLimit = 3
  BusyTtl = 4
  ActionTimeout = 1
SPECIFICATION GateSpec
INVARIANT OneAgent
