SPECIFICATION FairSpec
CONSTANTS
  t1 = t1
  t2 = t2
  NULL = NULL
  Ids = {2, 4, 6, 8}
  Hashes = {2, 5, 8}
  Capacity = 3
  Requested = 2
  Threads = {t1, t2}
  ConcurrentJoin = FALSE
INVARIANTS RingSorted WalksTheReplicas PhasesAgree
PROPERTIES Answered
