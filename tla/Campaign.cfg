\* The discount campaign over two TLDs: u commits on both controllers while the
\* administrator sets up, changes, freezes and switches the campaign.
CONSTANTS
    Zero = Zero
    arc = arc
    circle = circle
    alice = alice
    reverse = reverse
    addr = addr
    u = u
    v = v
    res = res
    res2 = res2
    arcRegistrar = arcRegistrar
    circleRegistrar = circleRegistrar
    arcController = arcController
    circleController = circleController
    Address = {admin, u, v, rr, res, res2, arcRegistrar, circleRegistrar, arcController, circleController, treasury}
    Account = {u, v}
    Deployer = admin
    Admin = admin
    Grantee = {Zero}
    Operator = {}
    ResolverAddr = {res}
    TTL = {0}
    Label = {arc, circle, alice, reverse, addr, u, v}
    Nodes <- MCNodes
    TLD <- MCTLD
    SLD <- MCSLD
    RegistrarOf <- MCRegistrarOf
    ControllerAddr = {arcController, circleController}
    GRACE = 4
    StartTime = 5
    MaxTime = 7
    MaxExpiry = 20
    Duration = {3}
    SeedExpiry = {1}
    Resolver = {res}
    ReverseRegistrar = {rr}
    ADDR_REVERSE_NODE <- MCReverse
    ResolverAdmin = admin
    Trustee = {}
    PrimaryName <- MCPrimaryName
    Recorded = {}
    ControllerOf <- MCControllerOf
    ControllerResolver = res
    Treasury = {treasury}
    Oracle = {oracle}
    Tier = {1}
    DefaultPrices <- MCPrices
    PriceTable <- MCTables
    EarlyAdopterAnnual <- MCEarly
    YEAR = 6
    PREMIUM_START = 8
    PREMIUM_DECAY_PERIOD = 3
    Snapshot <- MCSnapshots
    NoRoot = NoRoot
    TierOf <- MCTierOf
    ValidName = {alice}
    Request <- MCRequests
    Limit = {3}
    Tenant = {}
    Managed = {"campaign", "discount", "prices"}
    MIN_REGISTRATION_DURATION = 3
    MIN_COMMITMENT_AGE = 1
    MAX_COMMITMENT_AGE = 2
SPECIFICATION SystemSpec
INVARIANTS
    UsedWereInSnapshot
PROPERTIES
    DiscountGoesWithName
    PaidExactlyForTheLease
