SPECIFICATION Spec
CONSTANTS
  Names = {a1, a2, a3}
  Addr = {p1, p2, p3, p4}
  Null = Null
  Byte = {0, 1}
  MaxSize = 2
  Offsets = {0, 1, 2, 7}
  SizeMax = 7
  Unallocated = Unallocated
  Dead = Dead
SYMMETRY Symmetry
INVARIANTS TypeOK OneOwner
PROPERTIES ImplementsValues
CHECK_DEADLOCK FALSE
