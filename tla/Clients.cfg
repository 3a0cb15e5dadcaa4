\* The subgraphs, the primary name flows, the sending of assets and the payments
\* of the live client, its registration card, the lookups of names, and the discount's campaign.
CONSTANTS
    Label = {l}
    TLD = {arc, circle}
    Account = {u, v}
    Resolver = Resolver
    Zero = Zero
    Empty = Empty
    Unset = Unset
    MaxLag = 1
    MaxHeight = 3
    Tab = {p, q}
    Title = {x, y}
    Me = Me
    Someone = Someone
    Nobody = Nobody
    MaxClick = 2
    MaxOutside = 1
    Asset = {usdc, tok, cus}
    FirstAsset = usdc
    Detected = {tok}
    Custom = {cus}
    Input = {i1, i2}
    NoInput = NoInput
    Amount = {1, 2}
    MaxCall = 2
    MaxEdit = 3
    Purchase = {1, 2}
    Domain = {d}
    Customer = Customer
    Rival = Rival
    Vacant = Vacant
    Price = {20, 21, 24}
    FirstPrice = 20
    CardName = {a, b}
    Period = {one, three}
    Payer = {v, w}
    FirstPeriod = one
    None = None
    MaxMove = 4
    MIN_AGE = 1
    WAIT = 2
    LAG = 2
    Absent = Absent
    MaxChange = 1
    Asker = {c1, c2}
    Key = {k}
    TTL = 2
    FETCH = 1
    LAG_INDEX = 1
    Nil = Nil
    Word = {w1, w2, w3}
    Registered = {w1, w2}
    NoWord = NoWord
    MaxAsk = 4
    Query = {q1, q2}
    FirstQuery = q1
    Blank = Blank
    Run = {1, 2}
    STALE_THRESHOLD = 0
    L1_TTL = 1
    L2_TTL = 1
    L1_LEFT = 0
    RUN = 1
    MaxBehind = 1
    MaxEntry = 2
    OwnedName = {n}
    Owner = {w, z}
    Market = Market
    NoOwner = NoOwner
    MaxSwitch = 3
    MaxTrade = 2
    MaxText = 5
    Entry <- MCEntry
    NoName = NoName
    MaxStroke = 5
    Wallet = {1, 2, 3, 4, 5, 6}
    Caller = {arc, circle}
    Snapshot = {{1, 2, 3, 5, 6}, {1, 4, 6}}
    NoRoot = NoRoot
    DiscountOwner = DiscountOwner
    Final = {1, 2, 3, 5, 6}
    Previous = {1, 4, 6}
    Visitor = {6}
    MaxUndone = 1
    MaxIndexLag = 1
SPECIFICATION ClientsSpec
INVARIANTS SubgraphFollowsChain BensFollowsChain PrimaryKeepsAddress LookupsAreTheirs
    CampaignIsFinal CardKeepsItsWord
PROPERTIES SentAsEntered PaymentFailsForCause
\* Every scene comes to an end.
CHECK_DEADLOCK FALSE
