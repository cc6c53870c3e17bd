SPECIFICATION Spec
CONSTANTS
  c1 = c1
  c2 = c2
  k1 = k1
  k2 = k2
  p1 = p1
  p2 = p2
  e1 = e1
  e2 = e2
  e3 = e3
  Cpu = {c1, c2}
  Key = {k1}
  Owner = {p1, p2}
  Elem = {e1, e2}
  RingSize = 2
  Word = 16
  MaxCalls = 3
  MaxAborts = 1
CHECK_DEADLOCK FALSE
 
PROPERTIES LastIsExact SweepsCatchUp
