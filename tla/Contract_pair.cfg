SPECIFICATION FairSpec
CONSTANTS
    alice = alice
    bob = bob
    sbtc = sbtc
    STX = STX
    NoPrincipal = NoPrincipal
    Principals = {alice, bob}
    ContractPrincipals = {bob}
    SigningKeys = {alice}
    Deployer = alice
    Tokens = {STX, sbtc}
    PipeKeys <- OnePipe
    InitialWallet <- PairWallet
    WAITING_PERIOD = 2
    CONFIRMATION_DEPTH = 1
    MAX_HEIGHT = 99
    MaxAmount = 3
    MaxNonce = 3
    ValidAfters <- PairValidAfters
    Horizon = 5
CHECK_DEADLOCK FALSE
INVARIANTS
    TypeOK
    EscrowBacksPipes
    ClosureWellFormed
PROPERTIES
    NoncesRise
    ClosureEndsInPayout
    UnconfirmedDepositsStay
    ImplementsEscrow
    ClosuresResolve
