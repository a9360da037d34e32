CONSTANTS
    Chain = {"mainnet", "testnet"}
    MaxConnectors = 3
    MaxCalls = 1
    Store = {s1, s2, s3}
SPECIFICATION SessionSpec
INVARIANTS
    WalletFitsChain
    ShownStoreIsLoaded
CHECK_DEADLOCK FALSE
