CONSTANTS
  t1 = t1
  t2 = t2
  c1 = c1
  c2 = c2
  proxy = proxy
  other = other
  cli = cli
  None = None
  Openers = {t1, t2}
  Closers = {}
  HostOf <- TwoProxies
  Idas = {p1, p2}
  Platforms = {"posix", "windows"}
SPECIFICATION Spec
INVARIANT OneIdaPerBinary
CHECK_DEADLOCK FALSE
