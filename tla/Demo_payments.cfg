SPECIFICATION DemoFairSpec
CONSTANTS
    alice = alice
    bob = bob
    STX = STX
    NoPrincipal = NoPrincipal
    None = None
    Principals = {alice, bob}
    ContractPrincipals = {}
    SigningKeys = {alice, bob}
    Deployer = alice
    Tokens = {STX}
    PipeKeys <- Channels
    InitialWallet <- PayerWallet
    WAITING_PERIOD = 1
    CONFIRMATION_DEPTH = 1
    MAX_HEIGHT = 99
    MaxAmount = 5
    MaxNonce = 3
    ValidAfters <- NoHeights
    Horizon = 5
    Payer = bob
    Counterparty = alice
    ThePipe <- Channel
    Tabs = {t1, t2}
    Price = 2
    OpenAmount = 5
    MaxFeed = 2
    MaxLives = 2
CHECK_DEADLOCK FALSE

    
PROPERTIES
    PriceMoved
    OpenedBecomesPayable
