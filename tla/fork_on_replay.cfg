SPECIFICATION Spec
CONSTANTS
  p = p
  s = s
  f = f
  i1 = i1
  Programs <- MCPrograms
  BadProgram = bad_program
  Salts <- MCSalts
  Functions <- MCFunctions
  NotHex = not_hex
  TooShort = too_short
  Ids <- MCIds
  Undecodable = undecodable
  UnknownContractFails = TRUE
  Nodes = {n1, n2}
  Inputs <- MCInputs
  MaxBlockTxs = 2
  EngineChecksHash = TRUE
  MaxBlocks = 2
  MaxFaults = 4
SYMMETRY Symmetry
INVARIANTS
  AppHashAgreement
CHECK_DEADLOCK FALSE
