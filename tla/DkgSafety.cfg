SPECIFICATION Spec
CONSTANTS
    w1 = w1
    w2 = w2
    r1 = r1
    r2 = r2
    NoWallet = NoWallet
    Wallets = {w1, w2}
    Requests = {r1, r2}
    Tabs = 2
    Faults = {"crash", "db", "rpc", "net", "close", "dup", "slow"}
SYMMETRY Symmetry
INVARIANTS TypeOK OneLiveWallet WalletHasItsShares StepMeansHandled StoredShareHasWallet
PROPERTY ImplementsCustody
CHECK_DEADLOCK FALSE
