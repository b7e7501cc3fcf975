\* Two tabs; a second connection, or a file, is connected at some time.
SPECIFICATION Spec
CONSTANTS
  t1 = t1
  c1 = c1
  TabIds = {t1, t2}
  Servers = {c1, c2}
  Files = {f1}
  FirstTab = t1
  First = c1
  Unsaved = {t2}
  MaxRuns = 2
  MaxConnects = 2
  MaxPending = 2
  Overtakes = FALSE
  Null = Null
SYMMETRY Symmetry
INVARIANTS
  FlagTruthful
  
  NothingUnreachable
PROPERTIES
  ConsentBeforeRollback
CHECK_DEADLOCK FALSE
