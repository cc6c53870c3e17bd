SPECIFICATION Spec
CONSTANTS
  i1 = i1
  i2 = i2
  k1 = k1
  k2 = k2
  Obs = {1, 2, 3}
  Iface = {i1, i2}
  FlowKey = {k1, k2}
  Original = k1
  SYN = {}
  Cell = {1, 2, 3, 4, 5, 6, 7, 8}
  LateWindow = 1
  Skew = 0
  IdleTTL = 1
  ClosedTTL = 1
  HistorySize = 1
  MaxId = 4
  MaxBytes = 1
  MaxNow = 2
SYMMETRY Symmetry
CHECK_DEADLOCK FALSE
INVARIANTS SplitsKeepApart
