SPECIFICATION Spec
CONSTANTS
  ta = ta
  tb = tb
  a = a
  b = b
  v1 = v1
  v2 = v2
  Tables = {ta, tb}
  Names = {a, b}
  First <- TwoTables
  Views <- MCViews
  References = {ta}
  MaxLoads = 2
  MaxEdits = 2
  MaxSaves = 2
  MaxWork = 8
  NoName = NoName
  Null = Null
INVARIANTS
  AppliesWhatIsShown
  PanelShowsItsTable
  
\* The last tab may be left, with nothing more to open.
CHECK_DEADLOCK FALSE
