CONSTANTS
  s1 = s1
  s2 = s2
  Signals <- OneSignal
SPECIFICATION Spec
INVARIANT SignalStopSafe
CHECK_DEADLOCK FALSE
