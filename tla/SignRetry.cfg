SPECIFICATION RetrySpec
CONSTANTS
    k1 = k1
    k2 = k2
    r1 = r1
    NoKey = NoKey
    Keys = {k1, k2}
    Txs = {k1, k2}
    Requests = {r1}
    Faults = {}
    MaxFailures = 2
PROPERTY ForgottenIsExpired
