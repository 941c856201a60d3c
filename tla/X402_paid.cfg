SPECIFICATION GatewaySpec
CONSTANTS
    get = get
    post = post
    pay = pay
    None = None
    Requests = {r1, r2}
    Keys <- HashKeys
    States <- TransferStates
    Observations <- FundingOnly
    WriteLimit = 1
    Calls = {g1, g2}
    Routes = {get, post}
    Proofs <- OneOfEach
    Payments = {pay}
    Price = 1
    MaxTroubles = 1
SYMMETRY Symmetric
CHECK_DEADLOCK FALSE
INVARIANT
  OneRoutePerTransfer
