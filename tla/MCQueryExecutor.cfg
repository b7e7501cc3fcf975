\* Two runs and a cancel under fairness, with a query timeout, a full shared lane and a tab's session.
SPECIFICATION FairSpec
CONSTANTS
  Runs = {r1, r2}
  Cancels = {k1}
  Routes = {Interactive, Tab}
  Interactive = Interactive
  Tab = Tab
  All = All
  Threads = {shared1, tab1}
  tab1 = tab1
  lane <- MCLane
  Bounded = TRUE
  NoRun = NoRun
  NoThread = NoThread
  NoOne = NoOne
INVARIANTS
  RunningIsReachable
  CancelStaysInScope
  DeadlineKillsItsOwn

  
  
\* Every run and cancel has returned.
CHECK_DEADLOCK FALSE
