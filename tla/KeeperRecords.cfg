SPECIFICATION KeeperSpec
CONSTANTS
    Users = {alice}
    Admins = {root}
    Adapters = {v2Adapter, exchange}
    Router = router
    Tokens = {usd, flr}
    Signers = {teeKey}
    Terms <- MCTerms
    RouteTerms <- MCRouteTerms
    AdapterCalls <- MCAdapterCalls
    MaxNonce = 1
    MaxTime = 1
    Fee <- NoFee
    InitialBalance <- Funding
    ZeroAddress = ZeroAddress
    ZeroHash = ZeroHash
    NoCall = NoCall
    V2Adapter = v2Adapter
    ExchangeRouter = exchange
    NoSwap = NoSwap
    Keepers = {keeper1, keeper2}
    NoRecord = NoRecord
    alice = alice
    usd = usd
    flr = flr
    secret = secret
SYMMETRY KeeperSymmetry
INVARIANTS
    AdapterKeepsNothing
    RecordBacked
PROPERTIES
    SwapAsSigned
CHECK_DEADLOCK FALSE
