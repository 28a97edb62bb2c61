CONSTANTS
  ClockMax = 127
  SubMin = 24
  One = 4
  SyncFactor = 5
  Chunk = 3
  MaxGap = 7
  MaxInsn = 2
  IrqCycles = 2
  MaxAhead = 3
SPECIFICATION Spec
INVARIANTS TypeOK NoDrift StopsOnTime TimerOnTime
PROPERTIES NeverOverflows
CHECK_DEADLOCK FALSE
