SPECIFICATION RetrySpec
CONSTANTS
    r1 = r1
    Keys = {}
    Txs = {1, 2, 3}
    Requests = {r1}
    MaxSweeps = 3
    Fee = 2
    MaxEth = 4
    MaxToken = 1
    MaxDeposits = 0
    Faults = {}
    MaxCrashes = 2
PROPERTY StoredSweepResolves
