SPECIFICATION Spec
CONSTANTS
    Users = {alice, bob}
    Admins = {root}
    Adapters = {pangolin}
    Router = router
    Tokens = {usd, flr}
    Signers = {teeKey}
    Terms <- TwoTerms
    RouteTerms <- TwoRoutes
    AdapterCalls = {swap}
    MaxNonce = 1
    MaxTime = 2
    Fee <- NoFee
    InitialBalance <- DeepPool
    ZeroAddress = ZeroAddress
    ZeroHash = ZeroHash
    NoCall = NoCall
    alice = alice
    usd = usd
    flr = flr
    taxed = taxed
    pangolin = pangolin
    secret = secret
    swap = swap
INVARIANTS
    TypeOK
    Solvency
    SingleSettlement
    OwnerAccounting
    IInv
    HistoryInv
PROPERTIES
    SettledIsFinal
    ImplementsEscrow
