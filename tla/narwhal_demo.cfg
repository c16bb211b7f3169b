SPECIFICATION FairSpec
CONSTANTS
  main = main
  other = other
  Functions = {main, other}
  EntryPoints = {main}
  NotJson = not_json
  Nodes = {n1, n2, n3}
  Inputs <- MCInputs
  MaxSends = 2
  MaxBlocks = 2
INVARIANTS
  TypeOK
  LogsItsBlock
PROPERTIES
  PanicStopsWhoSeesIt
  GivenIsExecuted
CHECK_DEADLOCK FALSE
