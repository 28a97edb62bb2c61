CONSTANTS
  Units = 2
  MaySkip = {1}
  ClockMax = 55
  SubMin = 9
  Frame = 2
  SkipAfter = 20
SPECIFICATION Spec
INVARIANTS TypeOK InStep LastClkIsPast
