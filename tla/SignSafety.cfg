SPECIFICATION Spec
CONSTANTS
    k1 = k1
    k2 = k2
    r1 = r1
    r2 = r2
    NoKey = NoKey
    Keys = {k1, k2}
    Txs = {k1, k2}
    Requests = {r1, r2}
    Faults = {"crash", "db", "rpc"}
SYMMETRY Symmetry
VIEW View
INVARIANTS TypeOK ExecutedIsMined HashMeansSent SentIsTracked OneOpenPerWallet
PROPERTY ReceiptDecides
