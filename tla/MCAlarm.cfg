CONSTANTS
  Alarms = {a1, a2, a3, a4}
  NoAlarm = NoAlarm
  MaxPending = 3
  ClockMax = 2
SPECIFICATION Spec
SYMMETRY Symmetric
INVARIANTS TypeOK BackLinksMatch NextIsEarliest
PROPERTY ImplementsQueue
