\* Two validators, one request in a block or sent to a gateway.
SPECIFICATION Spec
CONSTANTS
    Precompile = precompile
    Create = create
    Contract = contract
    FEE_COLLECTOR = collector
    FAUCET = 6
    BASEFEE = 1
    GasLimit = 2
    GasUsed = 1
    Validators = {v1, v2}
    Accounts = {alice, bob}
    Stranger = stranger
    Funds = 1
    MaxNonce = 1
    GasPrices = {0}
    MaxBlockTxs = 2
    MaxBlocks = 2
    MaxSubmissions = 2
    MaxQueries = 0
SYMMETRY Symmetry
INVARIANTS
    ReplicasIdentical
CHECK_DEADLOCK FALSE
