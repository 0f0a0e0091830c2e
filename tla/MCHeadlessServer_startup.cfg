CONSTANTS
  s1 = s1
  s2 = s2
  Signals = {}
SPECIFICATION Spec
INVARIANT ShutdownHasLoop
CHECK_DEADLOCK FALSE
