SPECIFICATION JobsSpec
CONSTANTS
  j1 = j1
  j2 = j2
  Slots = {"backup", "restore", "import"}
  Jobs <- TwoJobs
  Dumps <- MCDumps
  Options <- MCOptions
  Parts = 1
  Null = Null
INVARIANTS
  
  BackupSaysTrue
  SlotKeepsItsRun
\* The runs end, and the dialogs are closed.
CHECK_DEADLOCK FALSE
