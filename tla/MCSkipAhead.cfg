CONSTANTS
  Units = 1
  MaySkip = {1}
  ClockMax = 55
  SubMin = 9
  Frame = 2
  SkipAfter = 20
SPECIFICATION Spec
INVARIANTS NeverAhead
