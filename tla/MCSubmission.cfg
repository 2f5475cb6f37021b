\* Two validators, two accounts, two requests in two blocks of up to two
\* transactions, and one simulation.
SPECIFICATION Spec
CONSTANTS
    Precompile = precompile
    Create = create
    Contract = contract
    FEE_COLLECTOR = collector
    FAUCET = 6
    BASEFEE = 1
    GasLimit = 2
    GasUsed = 1
    Validators = {v1, v2}
    Accounts = {alice, bob}
    Stranger = stranger
    Funds = 1
    MaxNonce = 1
    GasPrices = {2}
    MaxBlockTxs = 2
    MaxBlocks = 2
    MaxSubmissions = 2
    MaxQueries = 1
SYMMETRY Symmetry
INVARIANTS
    
    AppliedOnce
CHECK_DEADLOCK FALSE
