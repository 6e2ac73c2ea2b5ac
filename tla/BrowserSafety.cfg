SPECIFICATION Spec
CONSTANTS
    NoTab = NoTab
    Tabs = {t1, t2}
    Own = "own"
    Addresses = {"own", "bob", "ttk"}
    Null = Null
    SepoliaChain = 11
    TransferGas = 2
    FallbackGas = 6
    OneGwei = 1
    EtherUnit = 10
    TokenUnit = 10
    Intents <- MCIntents
    Nets <- MCNets
    Faults = {"net", "close", "slow", "crash", "idb", "version"}
SYMMETRY Symmetry
VIEW View
INVARIANTS TypeOK BroadcastIsIntended HonestAnswerIsSigned ClientFreesWallet
PROPERTY ShareStaysUntilRetired
CHECK_DEADLOCK FALSE
