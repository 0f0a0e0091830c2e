CONSTANTS
  Ids = {a}
  Processes = {p1, p2}
  Readers = {r1, r2}
  NoFile = NoFile
  Partial = Partial
SPECIFICATION Spec
SYMMETRY Symmetry
INVARIANTS
  TypeOK
  SidecarComplete
  DropDecisionSound
  
  ScanSound
CHECK_DEADLOCK FALSE
