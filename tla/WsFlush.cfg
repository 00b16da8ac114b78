\* A claim of the comment on flushStaleWsConnCounters.
CONSTANTS
  Conns = {c1, c2}
  Workers = {w1, w2}
  Limit = 2
  MaxFaults = 0
SPECIFICATION Spec
PROPERTY FlushFindsNoConnections
CHECK_DEADLOCK FALSE
