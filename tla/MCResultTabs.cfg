\* Two runs over two query tabs and a designer tab.
SPECIFICATION Spec
CONSTANTS
  q1 = q1
  q2 = q2
  QueryTabs = {q1, q2}
  PanelTabs = {d1}
  Runs = {r1, r2}
  FirstTab = q1
  ClosesOverRun = FALSE
  Unconfirmed = Unconfirmed
  NoTab = NoTab
  Null = Null
SYMMETRY Symmetry
INVARIANTS
  SpinnerMeansRunning
  
PROPERTIES
  AnswersWhereAwaited
  ConsentBeforeLoss
CHECK_DEADLOCK FALSE
