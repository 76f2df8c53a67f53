SPECIFICATION Spec
CONSTANTS
    Users = {alice}
    Admins = {root, deputy}
    Adapters = {pangolin}
    Router = router
    Tokens = {usd, taxed}
    Signers = {teeKey, rotatedKey}
    Terms <- TaxedOrRefused
    RouteTerms <- TaxedRoutesOrRefused
    AdapterCalls = {swap, other}
    MaxNonce = 2
    MaxTime = 1
    Fee <- TaxedFee
    InitialBalance <- DeepPool
    ZeroAddress = ZeroAddress
    ZeroHash = ZeroHash
    NoCall = NoCall
    alice = alice
    usd = usd
    flr = flr
    taxed = taxed
    pangolin = pangolin
    secret = secret
    swap = swap
PROPERTIES
    ExecutionsAuthorized

INVARIANTS
    Solvency
    FundsNeverTrapped
    NonceIdentifiesIntent
