\* One call under fairness: the promise kept, and what must happen even if nobody answers.
SPECIFICATION FairSpec
CONSTANTS
  Calls = {c1}
  NoCall = NoCall
  NoPolicy = NoPolicy
  StageDeadline = 2
  DecisionTimeout = 4
PROPERTIES
  
  LocksReleased
  CallsReturn
\* The call ends, or the application does.
CHECK_DEADLOCK FALSE
