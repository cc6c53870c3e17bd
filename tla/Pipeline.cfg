SPECIFICATION MCSpec
CONSTANTS
  Capture = {s1, s2}
  Probe = {pid, drops}
  Fatal = {pid}
  Blocking = {drops}
  ChanSize = 1
  Rows = 1
  MaxSent = 1
  MaxRows = 2
  MaxSize = 2
  MaxLogged = 6
  MaxStarts = 3
INVARIANTS Delivered SplitIndependent FlightAsSent InitialRead Complete 
PROPERTIES PendingFreed Exits NamedInTheEnd
CHECK_DEADLOCK FALSE
