SPECIFICATION FairSpec
CONSTANTS
  p = p
  s = s
  f = f
  i1 = i1
  Programs <- MCPrograms
  BadProgram = bad_program
  Salts <- MCSalts
  Functions <- MCFunctions
  NotHex = not_hex
  TooShort = too_short
  Ids <- MCIds
  Undecodable = undecodable
  UnknownContractFails = TRUE
  Nodes = {n1, n2}
  Inputs <- MCInputs
  MaxTxs = 3
  MaxBlocks = 2
  MaxBlockTxs = 2
INVARIANTS
  TypeOK
  StateAgreement
  HaltTogether
  EndBlockCountsBlock
  DecidedDecodes
PROPERTIES
  NoFork
  PanicSpreads
CHECK_DEADLOCK FALSE
