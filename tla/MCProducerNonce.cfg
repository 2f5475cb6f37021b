SPECIFICATION Spec
CONSTANTS
  Senders = {"alice", "bob"}
  Hashes <- MCHashes
  Sender <- MCSender
  Nonce <- MCNonce
  Perp = {3}
  max_txs_per_account = 2
  max_total_txs = 2
  pipeline_depth = 1
  max_txs_per_block = 1
  TIMESTAMP_THRESHOLD = 10
  one_hour = 2
  nonce_window = 2
  StartTime = 11
  MaxTime = 12
  MaxSubmissions = 2
  MaxRestarts = 0
CHECK_DEADLOCK FALSE
INVARIANT NonceUsedOnce
