CONSTANTS
  Sources = {cia1, cia2}
  IrqSources = {cia1}
  NmiSources = {cia2}
  Traps = {menu, load}
  NoTrap = NoTrap
  ClockMax = 23
  MaxStep = 3
  MaxLate = 1
  GuardMax = 7
  GuardSub = 4
  Horizon = 9
  MaxCalls = 2
SPECIFICATION CpuSpec
INVARIANTS CpuTypeOK NmiServedSoon TrapIsAsked
PROPERTIES NoSpuriousIrq
SYMMETRY TrapSymmetry
CHECK_DEADLOCK FALSE
