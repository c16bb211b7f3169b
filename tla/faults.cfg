SPECIFICATION Spec
CONSTANTS
  p = p
  s = s
  f = f
  i1 = i1
  Programs <- MCPrograms
  BadProgram = bad_program
  Salts <- MCSalts
  Functions <- MCFunctions
  NotHex = not_hex
  TooShort = too_short
  Ids <- MCIds
  Undecodable = undecodable
  UnknownContractFails = TRUE
  Nodes = {n1, n2}
  Inputs <- MCInputs
  MaxBlockTxs = 2
  EngineChecksHash = FALSE
  MaxBlocks = 2
  MaxFaults = 4
SYMMETRY Symmetry
INVARIANTS
  TypeOK
  CommittedOnce
  HashCoversState
  MemoryIsTheChain
  NobodyPassesAWall
CHECK_DEADLOCK FALSE
