SPECIFICATION JobsSpec
CONSTANTS
  j1 = j1
  j2 = j2
  Slots = {"restore"}
  Jobs <- OneJob
  Dumps <- BannerDumps
  Options <- MCOptions
  Parts = 1
  Null = Null
INVARIANT AsItWas
\* The run ends, and the dialog is closed.
CHECK_DEADLOCK FALSE
