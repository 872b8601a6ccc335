SPECIFICATION Spec
CONSTANTS
  Procs = {p1, p2}
  Lines = {l1, l2}
  Pids = {s1, s2}
  Nil = Nil
  Keys = {l1, l2}
  Key <- OwnKey
  Builds <- SessionBuilds
  MaxLog = 2
SYMMETRY Symmetry
INVARIANTS
  TypeOK
  AccessKept
  SessionLasts
  WtmpGrouped
  SessionEnds
PROPERTIES
  ImplementsService
