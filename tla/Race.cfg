\* The customer u and the copycat m compete for a name that is new or that m let lapse.
\* In the other scenes two flows of the pipeline run in one tab, with two accounts, or
\* one flow with two retries and two mishaps.
CONSTANTS
    Zero = Zero
    arc = arc
    alice = alice
    reverse = reverse
    addr = addr
    u = u
    m = m
    res = res
    arcRegistrar = arcRegistrar
    arcController = arcController
    Address = {admin, u, m, rr, res, arcRegistrar, arcController, treasury}
    Account = {u, m}
    Deployer = admin
    Admin = admin
    Grantee = {Zero, m}
    Operator = {}
    ResolverAddr = {res}
    TTL = {0}
    Label = {arc, alice, reverse, addr, u, m}
    Nodes <- MCNodes
    TLD = {arc}
    SLD = {alice}
    RegistrarOf <- MCRegistrarOf
    ControllerAddr = {arcController}
    GRACE = 4
    StartTime = 5
    MaxTime = 12
    MaxExpiry = 22
    Duration = {5}
    SeedExpiry = {1, 3}
    Resolver = {res}
    ReverseRegistrar = {rr}
    ADDR_REVERSE_NODE <- MCReverse
    ResolverAdmin = admin
    Trustee = {}
    PrimaryName = {}
    Recorded = {}
    ControllerOf <- MCControllerOf
    ControllerResolver = res
    Treasury = {treasury}
    Oracle = {oracle}
    Tier = {1}
    DefaultPrices <- MCPrices
    PriceTable = {}
    EarlyAdopterAnnual <- MCPrices
    YEAR = 6
    PREMIUM_START = 8
    PREMIUM_DECAY_PERIOD = 3
    Snapshot = {}
    NoRoot = NoRoot
    TierOf <- MCTierOf
    ValidName = {alice}
    Request <- MCRequest
    Limit = {20}
    Tenant = {}
    Managed = {}
    MIN_REGISTRATION_DURATION = 5
    MIN_COMMITMENT_AGE = 2
    MAX_COMMITMENT_AGE = 4
    Customer <- MCCustomer
    Copycat <- MCCopycat
    CLIENT_WAIT = 3
    INCLUSION = 1
    Flow = {1, 2}
    WalletAccount = {a, b}
    FirstAccount = a
    Other = Other
    None = None
    Fault = {"price"}
    RETRIES = 2
    MIN_AGE_V2 = 1
    MAX_AGE_V2 = 2
    MATURITY_TOTAL = 1
    PENDING = 1
    MaxMishap = 2
SPECIFICATION RegisteringSpec
INVARIANTS
    RevealStaysGood
    SuccessIsReal
PROPERTIES
    CustomerServed
    FlowEnds
CHECK_DEADLOCK FALSE
