\* The sale of one name of one TLD, free, lapsed or in use at first: u and v commit,
\* reveal and renew while the administrator pauses, revokes and moves the treasury.
CONSTANTS
    Zero = Zero
    arc = arc
    circle = circle
    alice = alice
    reverse = reverse
    addr = addr
    u = u
    v = v
    res = res
    res2 = res2
    arcRegistrar = arcRegistrar
    circleRegistrar = circleRegistrar
    arcController = arcController
    circleController = circleController
    Address = {admin, u, v, rr, res, res2, arcRegistrar, arcController, treasury}
    Account = {u, v}
    Deployer = admin
    Admin = admin
    Grantee = {Zero, u}
    Operator = {}
    ResolverAddr = {res, res2}
    TTL = {0}
    Label = {arc, circle, alice, reverse, addr, u, v}
    Nodes <- MCArcNodes
    TLD = {arc}
    SLD <- MCSLD
    RegistrarOf <- MCRegistrarOf
    ControllerAddr = {arcController}
    GRACE = 4
    StartTime = 5
    MaxTime = 8
    MaxExpiry = 11
    Duration = {3, 4}
    SeedExpiry = {1, 3}
    Resolver = {res}
    ReverseRegistrar = {rr}
    ADDR_REVERSE_NODE <- MCReverse
    ResolverAdmin = admin
    Trustee = {}
    PrimaryName <- MCPrimaryName
    Recorded = {}
    ControllerOf <- MCControllerOf
    ControllerResolver = res
    Treasury = {treasury}
    Oracle = {oracle}
    Tier = {1}
    DefaultPrices <- MCPrices
    PriceTable <- MCTables
    EarlyAdopterAnnual <- MCEarly
    YEAR = 6
    PREMIUM_START = 8
    PREMIUM_DECAY_PERIOD = 3
    Snapshot = {}
    NoRoot = NoRoot
    TierOf <- MCTierOf
    ValidName = {alice}
    Request <- MCSaleRequests
    Limit = {2, 9}
    Tenant = {v}
    Managed = {"paused", "resolvers", "treasury", "oracle", "reverse"}
    MIN_REGISTRATION_DURATION = 3
    MIN_COMMITMENT_AGE = 1
    MAX_COMMITMENT_AGE = 2
SPECIFICATION SystemSpec
PROPERTIES
    RevealDelivers
    PrimaryNameConfirmed
    NoPremiumOnRegistration
    PaidExactlyForTheLease
