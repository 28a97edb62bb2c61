CONSTANTS
  Alarms = {raster, timer, idle}
  NoAlarm = NoAlarm
  MaxPending = 3
  ClockMax = 17
  Raster = raster
  Frame = 1
  MaxStep = 2
  MaxAhead = 1
  SubMin = 4
  ClkBase = 2
  Horizon = 32
SPECIFICATION CpuSpec
INVARIANTS ClockBound CpuInv
PROPERTIES UsesContextWell ImplementsIdealClock
