\* Two calls of any tools, all settings changing freely.
SPECIFICATION Spec
CONSTANTS
  Calls = {c1, c2}
  NoCall = NoCall
  NoPolicy = NoPolicy
  StageDeadline = 1
  DecisionTimeout = 2
SYMMETRY CallSymmetry
INVARIANTS
  
  
  OneOwner
  ClickIsForWhatWasRead
\* The calls end, or the application does.
CHECK_DEADLOCK FALSE
