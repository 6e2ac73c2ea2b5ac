SPECIFICATION Spec
CONSTANTS
    k1 = k1
    r1 = r1
    NoKey = NoKey
    Keys = {k1}
    Txs = {k1}
    Requests = {r1}
    Faults = {}
INVARIANT AbExcludesEmergency
