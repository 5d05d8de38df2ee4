CONSTANTS
  Links = {l1}
  Ports = {p1, p2}
  Taken = {}
  Procs = {q1, q2}
  None = None
SPECIFICATION Spec
INVARIANT SkipIsRight
