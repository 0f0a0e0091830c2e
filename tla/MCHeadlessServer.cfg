CONSTANTS
  s1 = s1
  s2 = s2
  Signals <- TwoSignals
SPECIFICATION FairSpec
INVARIANTS
  TypeOK
  HeldSocketOpen
  ServingSocketOpen
  
  
PROPERTY KillSwitchStopsLoop
\* the process ends
CHECK_DEADLOCK FALSE
