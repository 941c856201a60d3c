SPECIFICATION FairSpec
CONSTANTS
    Null = Null
    Callers = {c1, c2}
    ProactivePayment = FALSE
    MaxPaymentAttempts = 2
    OtherNonce = 1
    MaxSyncs = 1
    MaxCrashes = 1
CHECK_DEADLOCK FALSE
INVARIANTS
    HolderKeepsLock
    NoncesTakenOnce
PROPERTY
    RequestsEnd
