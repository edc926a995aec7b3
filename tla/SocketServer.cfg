SPECIFICATION FairSpec
CONSTANTS
  w1 = w1
  w2 = w2
  c1 = c1
  c2 = c2
  c3 = c3
  None = None
  Main = Main
  Workers = {w1, w2}
  Conns = {c1, c2, c3}
INVARIANTS NoLostWakeup InTurn
PROPERTIES Served Stops
CHECK_DEADLOCK FALSE
