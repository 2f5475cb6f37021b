SPECIFICATION AppSpec
CONSTANTS
  Accounts = {1, 2, 3}
  Cloids = {c1}
  NoTx = NoTx
  NoTree = NoTree
  NoEngine = NoEngine
  NoEvm = NoEvm
  NoHash = NoHash
  Genesis = {1, 3}
  MaxOrders = 3
  MaxTxs = 3
  MaxTransfers = 1
  MaxRestarts = 1
INVARIANTS CloidEntriesTrue StillFindable ProofsSound
