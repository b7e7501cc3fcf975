SPECIFICATION Spec
CONSTANTS
  Sessions = {s1, s2}
  Calls = {k1, k2}
  Prompts = {p1}
  MaxTurns = 2
  Overlaps = FALSE
  Null = Null
SYMMETRY Symmetry
INVARIANTS
  SpinnerMeansWorking
  QuestionsCanBeAnswered
  OneTranscript
  
CHECK_DEADLOCK FALSE
