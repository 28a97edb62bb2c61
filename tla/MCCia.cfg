CONSTANTS
  Models = {"6526", "6526A"}
  Setups <- MCSetups
  Latches = {3}
  ControlA <- MCControlA
  ControlB <- MCControlB
  WrittenMasks <- MCWrittenMasks
  ReadRegs = {"ICR", "TBL"}
  MaxAccesses = 2
  MaxIdle = 2
  MaxHost = 1
  OverflowAt = 9
  OverflowSub = 5
  ClockMax = 1000
  MaxLatch = 3
SPECIFICATION ComparisonSpec
INVARIANTS TypeOK AlarmsStand SameChip SameLine SameReads
