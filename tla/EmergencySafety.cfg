SPECIFICATION Spec
CONSTANTS
    r1 = r1
    r2 = r2
    Keys = {}
    Txs = {1, 2, 3}
    Requests = {r1, r2}
    MaxSweeps = 3
    Fee = 2
    MaxEth = 4
    MaxToken = 1
    MaxDeposits = 1
    Faults = {"crash", "db", "rpc"}
SYMMETRY Symmetry
VIEW View
INVARIANTS TypeOK SentIsPersisted ExecutedSweepIsMined OneSweepPerAsset SweepsAreSequential RetiredIsEmpty StaleWasNeverSent StoredIsSendable
PROPERTY ImplementsLastSweep
