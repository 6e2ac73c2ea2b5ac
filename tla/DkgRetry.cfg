SPECIFICATION RetrySpec
CONSTANTS
    w1 = w1
    w2 = w2
    w3 = w3
    r1 = r1
    NoWallet = NoWallet
    Wallets = {w1, w2, w3}
    Requests = {r1}
    Tabs = 1
    Faults = {}
    MaxCrashes = 2
PROPERTY RetryCreates
CHECK_DEADLOCK FALSE
