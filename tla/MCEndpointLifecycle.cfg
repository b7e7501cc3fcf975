\* Three commands of any kinds, in any interleaving, under fairness.
SPECIFICATION FairEndpointSpec
CONSTANTS
  Ops = {o1, o2, o3}
  NoOp = NoOp
INVARIANTS
  NoOrphan
  
PROPERTY OneListenerInTheEnd
\* Every command has returned.
CHECK_DEADLOCK FALSE
