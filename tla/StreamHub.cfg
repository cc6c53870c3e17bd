SPECIFICATION Spec
CONSTANTS
  c1 = c1
  c2 = c2
  Client = {c1, c2}
  Buffer = 2
  JoinBuffer = 1
  MaxVersion = 2
  MaxTick = 2
CHECK_DEADLOCK FALSE
PROPERTIES Subscribed LoopNeverStalls Served
