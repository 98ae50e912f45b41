CONSTANTS
  MaxEntity = 1
  InitialEntities = 0
  State = {s1, s2}
  Absent = Absent
  BufferSize = 6
  SendRate = 1
  MaxBuffer = 4
  MinBuffer = 3
  Retention = 4
  MaxLatency = 1
  MaxTick = 6
SPECIFICATION Spec
INVARIANTS  Faithful
CHECK_DEADLOCK FALSE
