SPECIFICATION FlowSpec
CONSTANTS
    Users = {alice}
    Admins = {root}
    Adapters = {pangolin, rogue}
    Router = router
    Tokens = {usd, flr}
    Signers = {teeKey, nextKey}
    Terms <- MCTerms
    RouteTerms <- MCRouteTerms
    AdapterCalls <- MCAdapterCalls
    MaxNonce = 1
    MaxTime = 1
    Fee <- NoFee
    InitialBalance <- OneSwapEach
    ZeroAddress = ZeroAddress
    ZeroHash = ZeroHash
    NoCall = NoCall
    Evaluations = {eval1, eval2}
    Constraints <- MCConstraints
    V2Routes <- MCV2Routes
    Outputs = {0, 1}
    ChainIds = {114, 1}
    LiveChainId = 114
    Expiries = {1, 2}
    Deadlines = {1, 2}
    NoRequest = NoRequest
    alice = alice
    usd = usd
    flr = flr
    pangolin = pangolin
    rogue = rogue
SYMMETRY EvaluatorSymmetry
INVARIANTS
    EvaluatorTypeOK
    PolicyHonoured
    SignedForFundedIntent
