CONSTANTS
  Size = 4
  Bytes = {0, 1}
  Fragment = 2
  Lengths = {2, 4}
  MaxSids = 2
SPECIFICATION Spec
INVARIANTS TypeOK SuspensionAgrees
PROPERTIES ImplementsQueue KeepsContract WriteEnds
