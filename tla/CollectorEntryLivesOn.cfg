SPECIFICATION NATSpec
CONSTANTS
  p1 = p1
  p2 = p2
  t1 = t1
  t2 = t2
  u1 = u1
  Nobody = Nobody
  Proc = {p1, p2}
  TCP = {t1, t2}
  UDP = {u1}
  Orig = t1
  Reply = t2
  MaxProcs = 1
  MaxPending = 1
  Patience = 1
  LateWindow = 1
  ClosedTTL = 1
  IdleTTL = 2
  ProcTTL = 2
  MaxSent = 2
  MaxFlowsSeen = 2
  MaxNow = 3
  Owner = {p1, p2}
  A_LateWindow = 2
  A_Reuse = 3
  A_Lag = 1
  RoleTTL = 4
  A_ClosedTTL = 3
  A_IdleTTL = 5
  A_MaxConns = 2
  A_MaxNow = 7
  N_LateWindow = 2
  PendingTLS = 2
  PendingSocket = 2
  N_Reuse = 4
  N_Lag = 1
  N_MaxConns = 2
  N_MaxNow = 7
  Addresses = {"a", "b"}
  DNSNames = {"x", "y"}
  MaxAddresses = 1
  MaxNames = 2
  HintAge = 2
  Slack = 1
  D_MaxConns = 1
  D_MaxNow = 4
  Space = 16
  First = 14
  Window = 2
  Gap = 1
  Longest = 2
  Tracked = 2
  Second = 4
  MaxHZ = 6
  MaxTop = 20
  MaxRepeats = 2
  MaxReports = 4
  H_MaxNow = 2
  FromClient = {"a", "b"}
  FromServer = {"w"}
  NoTuple = "none"
  MaxEntries = 2
  Queue = 1
  Results = 1
  T_Idle = 1
  MaxOpens = 2
  MaxFails = 1
  T_MaxNow = 2
CHECK_DEADLOCK FALSE
INVARIANTS LivesAsLongAsItsFlows
