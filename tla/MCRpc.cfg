SPECIFICATION FairSpec
CONSTANTS
  c1 = c1
  c2 = c2
  plain = plain
  optional = optional
  None = None
  Calls = {c1, c2}
  Tools = {plain, optional}
  Nullable = {optional}
  MaxDepth = 2
INVARIANTS TypeOK SyncExclusive 
PROPERTIES AnswersArrive 
CHECK_DEADLOCK FALSE
