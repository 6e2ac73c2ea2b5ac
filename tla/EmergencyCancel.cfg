SPECIFICATION Spec
CONSTANTS
    r1 = r1
    r2 = r2
    Keys = {}
    Txs = {1}
    Requests = {r1, r2}
    MaxSweeps = 1
    Fee = 2
    MaxEth = 3
    MaxToken = 0
    MaxDeposits = 0
    Faults = {}
INVARIANT NoCancelOnceRetiring
