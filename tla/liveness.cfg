SPECIFICATION FairSpec
CONSTANTS
  g1 = g1  s1 = s1  s2 = s2  t1 = t1  t2 = t2  st1 = st1  st2 = st2
  k1 = k1  k2 = k2  k3 = k3  q1 = q1  q2 = q2  a1 = a1  f1 = f1  d1 = d1  d2 = d2
  Groups = {g1}
  NewGroups = {}
  DeletableGroups = {}
  Subs = {s1}
  Types = {t1}
  Filters <- OneFilter
  Streams = {st1}
  Keys = {k1, k2}
  Requests = {}
  Owners = {1, 2, 3}
  Lease = 1
  MaxDelay = 1
  ScopeLimit = 1
  ClaimLimit = 2
  ReplayAnswersCause = TRUE
  MaxEvents = 2
  MaxRevision = 2
  MaxReplays = 0
  MaxClaims = 3
  MaxAttempts = 2
  Admins = {}
  FanoutWorkers = {f1}
  DispatchWorkers = {d1}
  ExpiringEvents = {}
  MaxFaults = 1
PROPERTIES FanoutCompletes DeliveriesEnd
CHECK_DEADLOCK FALSE
