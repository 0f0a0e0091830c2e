CONSTANTS
  a = a
  b = b
  p1 = p1
  p2 = p2
  p3 = p3
  None = None
  Workers = {t1, t2}
  Sessions = {a, b}
  Processes = {p1, p2, p3}
  SidOf <- Restarted
SPECIFICATION Spec
INVARIANTS
  TypeOK
  
  SteadySessionReached
  
  OneClientPerSession
SYMMETRY Symmetry
\* every call has ended and every process has died
CHECK_DEADLOCK FALSE
