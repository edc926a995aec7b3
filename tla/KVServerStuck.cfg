SPECIFICATION FairSpec
CONSTANTS
  k1 = k1
  k2 = k2
  v1 = v1
  v2 = v2
  w1 = w1
  w2 = w2
  NULL = NULL
  Main = Main
  Keys = {k1, k2}
  Values = {v1, v2}
  Workers = {w1, w2}
  BadKeys = {k2}
  BadValues = {}
  MaxLogId = 2
  Privileged = FALSE
  CrashAt <- CrashInLog
  Overlap = FALSE
PROPERTIES Recovers
