CONSTANTS
  p1 = p1
  p2 = p2
  p3 = p3
  Procs = {p1}
SPECIFICATION SchemaSpec
INVARIANTS
  BootServes
