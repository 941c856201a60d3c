SPECIFICATION PoolSpec
CONSTANTS
    alice = alice
    OPERATOR = operator
    RESERVOIR = reservoir
    STX = STX
    NoPrincipal = NoPrincipal
    Principals = {alice, reservoir, operator}
    ContractPrincipals = {reservoir}
    SigningKeys = {alice, operator}
    Deployer = operator
    Tokens = {STX}
    PipeKeys <- OneTap
    InitialWallet <- PoolWallet
    WAITING_PERIOD = 1
    CONFIRMATION_DEPTH = 1
    BORROW_TERM_BLOCKS = 1
    MAX_HEIGHT = 99
    MaxAmount = 3
    MaxNonce = 2
    Rates = {5000}
    ValidAfters <- NoHeights
    Horizon = 3
CHECK_DEADLOCK FALSE
INVARIANTS
    PoolTypeOK
    EscrowBacksPipes
PROPERTIES
    TermHonoured
    AgreementsNeedAgent
