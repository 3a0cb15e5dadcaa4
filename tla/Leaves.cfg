\* The registry: one branch of the tree; b is an address that owns nodes and
\* sends nothing itself.
\* The oracle: every price table of two tiers up to 7 a year, durations up to two and
\* a half years.
CONSTANTS
    Zero = Zero
    tld = tld
    name = name
    Address = {deployer, a, b}
    Account = {deployer, a}
    Deployer = deployer
    Grantee = {Zero, deployer, a, b}
    Operator = {Zero, deployer, a}
    ResolverAddr = {b}
    TTL = {0}
    Label <- MCLabel
    Nodes <- MCNodes
    Oracle = {oracle}
    OracleOwner = admin
    Tier <- MCTier
    DefaultPrices <- MCDefault
    PriceTable <- MCTable
    EarlyAdopterAnnual <- MCDefault
    YEAR = 6
    PREMIUM_START = 7
    PREMIUM_DECAY_PERIOD = 4
    Horizon = 8
    Durations <- MCDurations
    Expiries <- MCExpiries
    MaxDuration = 15
    MaxAnnual = 7
    MIN_REGISTRATION_DURATION = 2
SPECIFICATION LeavesSpec
INVARIANTS
    NoGainFromSplitting
    DiscountIsOneYears
    LongerIsNotCheaper
PROPERTIES
    NoEscalation
    BurnedToRootIsFrozen
    PremiumOnlyDecays
