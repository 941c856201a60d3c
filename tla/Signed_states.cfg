SPECIFICATION Spec
CONSTANTS
    user = user
    hub = hub
    userKey = userKey
    hubKey = hubKey
    None = None
    Principals = {user, hub}
    KeyOf <- Keys
    Order <- Bytes
    PipeTotal = 1
    PipeNonce = 0
    NameVersion = "0.6.0"
    MessageVersion = "0.6.0"
    Forms <- AllForms
    Preimages = {0}
    Contracts = {}
    ServiceKey = hubKey
    Configurations <- HubConfigurations
    MaxSigned = 2
    MaxCalls = 1
INVARIANTS
    StoredTransfersEnforceable
    ServiceSignsVerified
    ConsoleCallsStand
CHECK_DEADLOCK FALSE
PROPERTIES
    DisputesStand
