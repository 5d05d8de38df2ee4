CONSTANTS
  Links = {l1}
  Ports = {p1, p2}
  Taken = {p2}
  Procs = {q1, q2}
  None = None
SPECIFICATION Spec
INVARIANT FileIsKnown OkMeansServed
PROPERTY LockComesBack
