SPECIFICATION WatcherSpec
CONSTANTS
    p1 = p1
    None = None
    Pipes = {p1}
    Calls = {c1}
    Payloads <- PeerPayments
    Base <- Funded
    Amounts = {1}
    MaxNonce = 2
    DisputeOnlyBeneficial = TRUE
    ScanLimit = 2
    MaxClosures = 2
    MaxOthers = 1
    MaxHeight = 2
    MaxTroubles = 1
CHECK_DEADLOCK FALSE
INVARIANTS
    AcceptedCovered
    RepeatsOnlyAfterLoss
    CursorHonest
PROPERTIES
    DueIsDisputed
    StoredNoncesRise
