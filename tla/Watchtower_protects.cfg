SPECIFICATION SystemSpec
CONSTANTS
    alice = alice
    bob = bob
    h1 = h1
    STX = STX
    NoPrincipal = NoPrincipal
    None = None
    Principals = {alice, bob}
    ContractPrincipals = {}
    SigningKeys = {alice, bob}
    Deployer = alice
    Tokens = {STX}
    PipeKeys <- Channels
    InitialWallet <- PeerWallet
    WAITING_PERIOD = 2
    CONFIRMATION_DEPTH = 1
    MAX_HEIGHT = 99
    MaxAmount = 2
    MaxNonce = 2
    ValidAfters <- ValidHeights
    Horizon = 3
    Us = bob
    Peer = alice
    ThePipe <- Channel
    States <- Payments
    Hashes = {h1}
    DisputeOnlyBeneficial = FALSE
    Ingests = {i1, i2}
    MaxBatch = 1
    MaxClosures = 2
    MaxFeed = 2
SYMMETRY IngestSymmetry
CHECK_DEADLOCK FALSE
INVARIANTS
    NodeTypeOK
    ClosuresCaughtUp

    
