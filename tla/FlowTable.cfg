SPECIFICATION Spec
CONSTANTS
  s1 = s1
  s2 = s2
  s3 = s3
  k1 = k1
  k2 = k2
  u1 = u1
  i1 = i1
  a1 = a1
  a2 = a2
  Slot = {s1, s2, s3}
  TCPKey = {k1}
  UDPKey = {u1}
  ICMPKey = {i1}
  Addr = {a1, a2}
  RemoteAddr <- MCRemoteAddr
  Seq32 = {0, 1}
  PacketBytes = {1}
  MaxFlows = 2
  FlowTTL = 0
  ClosedTTL = 0
  LateWindow = 1
  AttemptIdle = 0
  BaseCollector = TRUE
  MaxPackets = 3
  MaxNow = 1
SYMMETRY Symmetry
CHECK_DEADLOCK FALSE
INVARIANTS TableBound BlockedMeansNoCandidate BytesConserved RefusedOnce
PROPERTIES Generations DropsOnlyWithoutCandidates
