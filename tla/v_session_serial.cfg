SPECIFICATION Spec
CONSTANTS
  r1 = r1  r2 = r2  r3 = r3  p1 = p1  p2 = p2  e1 = e1  e2 = e2  e3 = e3  s1 = s1  None = None
  SessionOf <- OneSession
  Runs = {r1, r2, r3}
  Sessions = {s1}
  Pods = {p1, p2}
  Execs = {e1, e2, e3}
  MaxRunning = 3
  MaxConcurrent = 2
  MaxQueueDepth = 0
  Mortal = {}
  MaxAborts = 0
  MaxFaults = 1
INVARIANTS HolderIsAlone
SYMMETRY FullySymmetric
CHECK_DEADLOCK FALSE
