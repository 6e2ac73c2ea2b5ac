SPECIFICATION Spec
CONSTANTS
    Users = {u1, u2}
    Passwords = {p1, p2, p3}
    Secrets = {s1, s2}
    Choices = {c1}
    Requests = {r1, r2}
    None = None
    MaxFailures = 2
    MaxVersion = 2
    Faults = {"crash", "db", "net"}
SYMMETRY Symmetry
VIEW View
INVARIANTS TypeOK ValidTokensKnowThePassword SecretToldOnce GuessesBounded
PROPERTIES ActiveAccountsStay SavedChoiceSurvives
CHECK_DEADLOCK FALSE
