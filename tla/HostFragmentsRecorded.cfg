SPECIFICATION FragmentsSpec
CONSTANTS
  Addresses = {"a"}
  Directions = {"sent"}
  Budget = 3
  Chunk = 1
  RingSize = 1
  ChanSize = 1
  MaxStreams = 1
  Hello = 2
  MaxSockets = 2
  MaxBytes = 3
  Threads = {"t", "u"}
  SSLs = {"s"}
  BIOs = {"b"}
  Fds = {"f", "g"}
  Names = {"x", "y"}
  MaxTLSSockets = 2
  Rows = {"a", "b", "c"}
  Totals = {0, 2, 9}
  Largest = 8
  Seconds = 3
  TrendRows = 2
  Stale = 3
  Widths = {1, 2, 3, 4}
  Gaps = {1, 2}
  MaxTicks = 6
  Processes = {"p"}
  Namespaces = {"m", "n"}
  Reports = {1, 3}
  IdleFor = 1
  Space = 16
  MaxSamples = 6
  MaxTotal = 4
  Interfaces = 2
  Height = 2
  Visible = 1
  Conns = {"a", "b"}
  Rest = "rest"
  MaxAge = 1
  HistoryLimit = 2
  Duration = 2
  FileLimit = 2
  Frames <- Whole
  Targets = {"a"}
  MaxFrames = 3
  MaxFlows = 2
  MaxTime = 2
INVARIANTS FragmentsRecorded
CHECK_DEADLOCK FALSE
