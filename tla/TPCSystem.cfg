SPECIFICATION FairSpec
CONSTANTS
  f1 = f1
  f2 = f2
  f3 = f3
  k1 = k1
  k2 = k2
  v1 = v1
  v2 = v2
  t1 = t1
  t2 = t2
  NULL = NULL
  Keys = {k1}
  Values = {v1}
  BadKeys = {}
  BadValues = {}
  Followers = {f1, f2}
  Threads = {t1, t2}
  Redundancy = 2
  Replicas <- Pair
  Clients <- AllRequests
  SlowClients <- Writes
  ManyWriters = FALSE
  Crashes = TRUE
  MaxLate = 1
INVARIANTS SuccessIsReplicated ReplicasAgree CommitReachesAll GetIsCurrent
PROPERTIES WritesAreAtomic WritesAreAnswered ReadsAreAnswered RestartCompletes
CHECK_DEADLOCK FALSE
