SPECIFICATION FairSpec
CONSTANTS
  n1 = n1
  n2 = n2
  c1 = c1
  c2 = c2
  x = x
  y = y
  z = z
  Nodes = {n1}
  Clients = {c1, c2}
  NoClient = no_client
  NodeOf <- MCNodeOf
  Txs = {x, y, z}
  Payloads <- MCPayloads
  Malformed = malformed
  AppHeight = 2
  Capacity = 1
  AppMayFail = TRUE
  InfoMayFail = TRUE
  MaxCerts = 2
INVARIANTS
  TypeOK
  ExecutesWhatIsOrdered
  QueriesSeeWholeBlocks
PROPERTIES
  QueriesEnd
  ReceivedIsExecuted
CHECK_DEADLOCK FALSE
