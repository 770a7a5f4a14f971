SPECIFICATION TimelySpec
CONSTANTS
  t1 = t1  t2 = t2  a1 = a1  y1 = y1  y2 = y2  k1 = k1  w1 = w1  w2 = w2
  NoKey = NoKey  NoWorker = NoWorker
  Tasks = {t1, t2}
  Apps = {a1}
  Types = {y1}
  Keys = {k1}
  Workers = {w1, w2}
  Lease = 2
  LegacyIndex = FALSE
  AppOf <- OneApp
  Registered = {y1}
  GivesUpTypes = {y1}
  WakeTypes = {}
  Batch = 2
  MaxConcurrency = 1
  BackoffMin = 1
  BackoffMax = 1
  PollDelays = {1}
  Delays = {0}
  Deadlines = {3}
  KeyedInsertAttempts = 2
  Callers = {w1}
  Mortal = {}
  MaxFaults = 0
PROPERTIES NeverRunAgain
