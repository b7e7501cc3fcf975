SPECIFICATION Spec
CONSTANTS
  d1 = d1
  t1 = t1
  Conns = {c1}
  Databases = {d1, d2}
  Folders = {"tables"}
  Tables <- MCTables
  Chains = {h1, h2}
  MaxChanges = 1
  MaxBumps = 1
  Null = Null
INVARIANTS
  NothingFromBeforeARefresh
  LeftIsForgotten
  LoadingIsReading
SYMMETRY Symmetry
CHECK_DEADLOCK FALSE
