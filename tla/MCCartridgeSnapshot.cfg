CONSTANTS
  Sources = {cia1, cartridge}
  Restoring = {cia1}
  Traps = {}
  NoTrap = NoTrap
  ClockMax = 4
SPECIFICATION SnapshotSpec
INVARIANTS ActiveNmiLines
