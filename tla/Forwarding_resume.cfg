SPECIFICATION Spec
CONSTANTS
    p1 = p1
    p2 = p2
    h1 = h1
    h2 = h2
    None = None
    Retry = Retry
    Payments = {p1, p2}
    Hashes = {h1, h2}
    Requests <- TwoPayments
    Transfers = {t1}
    Reveals = {c1}
    MaxAttempts = 2
    MaxRestarts = 1
CHECK_DEADLOCK FALSE
PROPERTIES
    RevealsResume
