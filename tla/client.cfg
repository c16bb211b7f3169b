SPECIFICATION FairSpec
CONSTANTS
  p = p
  s = s
  f = f
  i1 = i1
  i2 = i2
  i3 = i3
  prefix = prefix
  Programs <- MCPrograms
  BadProgram = bad_program
  Salts <- MCSalts
  Functions <- MCFunctions
  NotHex = not_hex
  TooShort = too_short
  Ids <- MCIds
  Undecodable = undecodable
  UnknownContractFails = FALSE
  Clients = {c1}
  Orders <- MCOrders
  Others <- MCOthers
  Keys <- MCKeys
  Containing <- MCContaining
  NoTx = no_tx
  MaxTxs = 3
INVARIANTS
  TypeOK
  PrintedIsKept
PROPERTIES
  GetIsStable
  PrintedIsFound
CHECK_DEADLOCK FALSE
