CONSTANTS
  app = app
  exe = exe
  pApp = pApp
  pExe = pExe
  i1 = i1
  i2 = i2
  k1 = k1
  k2 = k2
  None = None
  Old = Old
  Sessions = {app, exe}
  Paths = {pApp, pExe}
  SessionOf <- PathIds
  Stem <- Stems
  CommandLines <- Lines
  Idas = {i1, i2}
  Commands = {k1, k2}
  IncludeUnsafe = TRUE
  HasSpawner = TRUE
SPECIFICATION Spec
INVARIANTS
  TypeOK
  
  FreshAnalysis
PROPERTY SoleSessionOnly
SYMMETRY Symmetry
\* every command has ended and every process has died
CHECK_DEADLOCK FALSE
