SPECIFICATION FairSpec
CONSTANTS
  plain = plain
  unsafe = unsafe
  moved = moved
  p1 = p1
  p2 = p2
  None = None
  Specs = {plain, unsafe, moved}
  PortOf <- MCPortOf
  Proxies = {p1, p2}
  MaxOrphans = 1
  MaxCommands = 2
  MaxFaults = 2
INVARIANTS TypeOK DefinitionBacked InstallTruthful UninstallComplete
PROPERTY ServiceRecovers
CHECK_DEADLOCK FALSE
