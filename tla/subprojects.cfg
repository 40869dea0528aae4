SPECIFICATION FairSpec
CONSTANTS
  Proc = {p1, p2}
  Wraps <- MCWraps
  MaxRevision = 2
  delays = 1
  MaxCommands = 3
INVARIANTS TypeOK RevisionIsKnown
PROPERTIES ResolvedIsWhole UpdateIsExact CommandsEnd
CHECK_DEADLOCK FALSE
