\* One cell, a row to delete, a row to add; queries on tables with a key, without one, and with one not selected.
SPECIFICATION Spec
CONSTANTS
  q1 = q1
  q2 = q2
  q3 = q3
  Cells = {x}
  Values = {v1}
  Rows = {r1}
  Queries = {q1, q2, q3}
  Keyed = {q1}
  Keyless = {q2}
  First = q1
  MaxResults = 2
  MaxSteps = 2
  MaxInserts = 1
  MaxSaves = 1
  MaxMounts = 2
  Reedits = FALSE
  StaleHistory = FALSE
  Null = Null
INVARIANTS
  
  HeldIsCounted
  InsertedOnce
  SavedByKey
CHECK_DEADLOCK FALSE
