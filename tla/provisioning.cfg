SPECIFICATION Spec
CONSTANTS
  g1 = g1  s1 = s1  s2 = s2  t1 = t1  t2 = t2  st1 = st1  st2 = st2
  k1 = k1  k2 = k2  k3 = k3  q1 = q1  q2 = q2  a1 = a1  f1 = f1  d1 = d1  d2 = d2
  Groups = {g1}
  NewGroups = {g1}
  DeletableGroups = {g1}
  Subs = {s1}
  Types = {t1, t2}
  Filters <- TwoFilters
  Streams = {st1}
  Keys = {k1, k2, k3}
  Requests = {}
  Owners = {1, 2, 3}
  Lease = 1
  MaxDelay = 1
  ScopeLimit = 2
  ClaimLimit = 2
  ReplayAnswersCause = TRUE
  MaxEvents = 3
  MaxRevision = 1
  MaxReplays = 0
  MaxClaims = 1
  MaxAttempts = 1
  Admins = {}
  FanoutWorkers = {f1}
  DispatchWorkers = {}
  ExpiringEvents = {1}
  MaxFaults = 0
INVARIANTS NothingMissed SequencesIncrease SwitchedOffIsQuiet
SYMMETRY Symmetric
CHECK_DEADLOCK FALSE
