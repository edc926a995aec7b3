SPECIFICATION Spec
CONSTANTS
  f1 = f1
  f2 = f2
  f3 = f3
  k1 = k1
  k2 = k2
  v1 = v1
  v2 = v2
  t1 = t1
  t2 = t2
  NULL = NULL
  Keys = {k1, k2}
  Values = {v1}
  BadKeys = {}
  BadValues = {}
  Followers = {f1, f2, f3}
  Threads = {t1, t2}
  Redundancy = 2
  Replicas <- Placement
  Clients <- PutsToTwoKeys
  SlowClients <- Writes
  ManyWriters = TRUE
  Crashes = FALSE
  MaxLate = 0
INVARIANTS SuccessIsReplicated
