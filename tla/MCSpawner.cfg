CONSTANTS
  t1 = t1
  t2 = t2
  c1 = c1
  c2 = c2
  proxy = proxy
  other = other
  cli = cli
  None = None
  Openers = {t1, t2}
  Closers = {c1, c2}
  HostOf <- OneProxy
  Idas = {p1, p2}
  Platforms = {"posix", "windows"}
SPECIFICATION Spec
INVARIANTS
  TypeOK
  SpawnsSerialised
  
  HandlesMatch
  
\* every call has returned and every process has ended
CHECK_DEADLOCK FALSE
