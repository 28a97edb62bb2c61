CONSTANTS
  Sources = {cia1, cia2}
  Restoring = {cia1, cia2}
  Traps = {trap}
  NoTrap = NoTrap
  ClockMax = 4
SPECIFICATION SnapshotSpec
INVARIANTS TypeOK LoadKeepsAgreement
PROPERTIES ImplementsLines
SYMMETRY SourceSymmetry
