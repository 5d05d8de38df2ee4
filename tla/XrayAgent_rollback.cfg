CONSTANTS
  Agents = {a1}
  Configs = {c1, c2, bad}
  Accepted = {c1, c2}
  NoConf = NoConf
SPECIFICATION Spec
INVARIANT FailedStartRollsBack
