SPECIFICATION FairSpec
CONSTANTS
    Wallets = {w1}
    Attempts = {a1, a2}
    NoWallet = NoWallet
    Faults = {"rpc", "crash", "db", "slow"}
INVARIANTS TypeOK StepsMatch
PROPERTIES ImplementsCustody AbortedNeverGives RelayEnds
CHECK_DEADLOCK FALSE
