SPECIFICATION Spec
CONSTANTS
    w1 = w1
    r1 = r1
    NoWallet = NoWallet
    Wallets = {w1}
    Requests = {r1}
    Tabs = 1
    Faults = {"net"}
INVARIANT WalletKeepsShareA
CHECK_DEADLOCK FALSE
