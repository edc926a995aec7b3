SPECIFICATION Spec
CONSTANTS
  k1 = k1
  k2 = k2
  k3 = k3
  v1 = v1
  v2 = v2
  p1 = p1
  p2 = p2
  h1 = h1
  bad = bad
  NULL = NULL
  Keys = {k1, k2, k3, bad}
  Values = {v1, v2}
  BadKeys = {bad}
  BadValues = {}
  Hashes = {h1}
  Hash <- Colliding
  Procs = {p1, p2}
  MaxPos = 2
  OneWriter = TRUE
  CrashAt <- Steps
INVARIANTS ChainsComplete ResultIsTrue
PROPERTIES StoreIsAMap
SYMMETRY Symmetry
