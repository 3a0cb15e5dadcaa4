--------------------------- MODULE ArcNSController ---------------------------
(***************************************************************************)
(* The sale of names: contracts/v3/controller/ArcNSController.sol, one     *)
(* proxy per TLD, on top of the registrars, the resolvers, the price       *)
(* oracles and the discount registry.  A transaction that one of the       *)
(* contracts reverts leaves no trace, so it is no step; what it does in    *)
(* several contracts is one step.                                          *)
(*                                                                         *)
(* A commitment is the request it hides, sender included: hashing is       *)
(* injective and opaque.  USDC is external: a transfer either happens in   *)
(* full or reverts the transaction, and charge records it.                 *)
(***************************************************************************)
EXTENDS ArcNSBaseRegistrar, ArcNSResolver

CONSTANTS
    ControllerOf,        \* TLD -> its controller proxy
    ControllerResolver,  \* the resolver of the controllers
    Treasury,            \* the treasuries setTreasury is called with (a bound)
    Oracle, Tier, DefaultPrices, PriceTable, EarlyAdopterAnnual,
    YEAR, PREMIUM_START, PREMIUM_DECAY_PERIOD,
    Snapshot, NoRoot,
    TierOf,              \* SLD -> tier
    ValidName,           \* the labels _validName accepts
    Request,             \* the requests committed to (a bound)
    Limit,               \* the values of maxCost (a bound)
    Tenant,              \* the accounts that use the other contracts directly (a bound)
    Managed,             \* what administrators change (a bound), of the names in AdminTx
    MIN_REGISTRATION_DURATION, MIN_COMMITMENT_AGE, MAX_COMMITMENT_AGE

RequestType ==
    [label : SLD, owner : Owner, duration : Duration, secret : Nat,
     resolver : ResolverAddr \cup {Zero}, reverse : BOOLEAN, sender : Account]

ASSUME ControllerAssumption ==
    /\ ControllerOf \in [TLD -> ControllerAddr]
    /\ ControllerResolver \in Resolver
    /\ Treasury \subseteq Address /\ Treasury # {}
    /\ Oracle # {}
    /\ YEAR \in Nat \ {0} /\ PREMIUM_START \in Nat
    /\ PREMIUM_DECAY_PERIOD \in Nat \ {0}
    /\ DefaultPrices \in [Tier -> Nat] /\ PriceTable \subseteq [Tier -> Nat]
    /\ EarlyAdopterAnnual \in [Tier -> Nat]
    /\ Snapshot \subseteq SUBSET Account /\ NoRoot \notin Snapshot
    /\ TierOf \in [SLD -> Tier]
    /\ ValidName \subseteq SLD
    /\ Request \subseteq RequestType
    /\ Limit \subseteq Nat
    /\ Tenant \subseteq Account
    /\ MIN_REGISTRATION_DURATION \in Nat \ {0}
    /\ MIN_COMMITMENT_AGE \in Nat /\ MAX_COMMITMENT_AGE \in Nat
    /\ MIN_COMMITMENT_AGE <= MAX_COMMITMENT_AGE
    /\ PREMIUM_DECAY_PERIOD <= GRACE

VARIABLES
    commitments,      \* tld -> request -> when it was committed, 0 if it is not
    usedCommitments,  \* tld -> the requests served
    config,           \* tld -> what administrators set, see Config
    charge,           \* observer: the USDC transfer of the last transaction
    prices,           \* of ArcNSPriceOracle
    merkleRoot, discountActive, rootFrozen, used, authorizedControllers
                      \* of ArcNSEarlyAdopterDiscountRegistry

Quotes == INSTANCE ArcNSPriceOracle WITH OracleOwner <- Admin, timestamp <- now
Discounts == INSTANCE ArcNSEarlyAdopterDiscountRegistry WITH
    Wallet <- Account, Caller <- ControllerAddr, DiscountOwner <- Admin

commitVars == <<commitments, usedCommitments>>
discountVars == <<merkleRoot, discountActive, rootFrozen, used, authorizedControllers>>
controllerVars == <<commitVars, config, prices, discountVars>>
arcnsVars == <<registryVars, registrarVars, resolverVars, controllerVars, now>>
allVars == <<arcnsVars, sender, charge>>

\* discount: whether discountRegistry is set.
Config == [paused : BOOLEAN, resolvers : SUBSET ResolverAddr, treasury : Treasury,
           oracle : Oracle, reverse : ReverseRegistrar, discount : BOOLEAN]

NoCharge == [payer |-> Zero, payee |-> Zero, amount |-> 0]

ControllerTypeOK ==
    /\ RegistrarTypeOK
    /\ ResolverTypeOK
    /\ commitments \in [TLD -> [Request -> Nat]]
    /\ usedCommitments \in [TLD -> SUBSET Request]
    /\ config \in [TLD -> Config]
    /\ charge \in [payer : Owner, payee : Owner, amount : Nat]
    /\ prices \in [Oracle -> [Tier -> Nat]]
    /\ Discounts!DiscountTypeOK

------------------------------------------------------------------------------
(***************************************************************************)
(* Commit.                                                                 *)
(***************************************************************************)
\* Fault: a pending commitment may be made again.
CommittableAgain(tld, c) == c \notin usedCommitments[tld]

Committable(tld, c) ==
    /\ c \notin usedCommitments[tld]
    /\ \/ commitments[tld][c] = 0
       \/ now > commitments[tld][c] + MAX_COMMITMENT_AGE

\* Anybody may commit a hash, whoever made it.
Commit(tld, c) ==
    /\ ~config[tld].paused
    /\ Committable(tld, c)
    /\ commitments' = [commitments EXCEPT ![tld][c] = now]
    /\ charge' = NoCharge
    /\ UNCHANGED <<registryVars, registrarVars, resolverVars, usedCommitments,
                   config, prices, discountVars>>

\* Fault: no minimum age.
RevealableAtOnce(tld, c) ==
    /\ c \notin usedCommitments[tld]
    /\ commitments[tld][c] # 0
    /\ now <= commitments[tld][c] + MAX_COMMITMENT_AGE

\* _validateCommitment.
Revealable(tld, c) ==
    /\ c \notin usedCommitments[tld]
    /\ commitments[tld][c] # 0
    /\ now >= commitments[tld][c] + MIN_COMMITMENT_AGE
    /\ now <= commitments[tld][c] + MAX_COMMITMENT_AGE

Spend(tld, c) ==
    /\ usedCommitments' = [usedCommitments EXCEPT ![tld] = @ \cup {c}]
    /\ commitments' = [commitments EXCEPT ![tld][c] = 0]

------------------------------------------------------------------------------
(***************************************************************************)
(* Reveal and registration.                                                *)
(***************************************************************************)
Charge(payer, tld, amount) ==
    charge' = [payer |-> payer, payee |-> config[tld].treasury, amount |-> amount]

ReverseRequested(r) == r.reverse /\ r.resolver # Zero

\* The calls of a registration to the registrar, the resolver and, inside
\* try/catch, the reverse registrar; a reverse node outside the part of the
\* tree under study is left out.  The address record goes to the resolver of
\* the controller, the registry records the resolver of the request.
Deliver(tld, r) ==
    LET c == ControllerOf[tld]
        n == <<tld, r.label>>
        rr == config[tld].reverse
        enrolled == IF r.resolver = Zero THEN EnrolledNode(records, n, r.owner)
                    ELSE EnrolledRecord(records, n, r.owner, r.resolver)
        reversed == ReverseRequested(r) /\ CanSetReverse(enrolled, rr, r.owner)
    IN
    /\ OnlyController(c, n)
    /\ Enroll(n, r.owner, r.duration)
    /\ r.resolver # Zero => MayWriteRecord(enrolled, c, ControllerResolver, n)
    /\ addrs' = IF r.resolver = Zero THEN addrs
                ELSE WithAddr(ControllerResolver, n, r.owner)
    /\ records' = IF reversed THEN WithReverseRecord(enrolled, rr, r.owner)
                  ELSE enrolled
    /\ names' = IF reversed THEN WithReverseName(rr, r.owner, n) ELSE names
    /\ UNCHANGED <<operators, nftOperators, controllers, trusted, defaultResolver>>

\* What both ways to register have in common, given the quote.
Sell(tld, r, quote, maxCost) ==
    /\ ~config[tld].paused
    /\ Revealable(tld, r)
    /\ Spend(tld, r)
    /\ r.label \in ValidName
    /\ r.duration >= MIN_REGISTRATION_DURATION
    /\ r.resolver \in config[tld].resolvers \cup {Zero}
    /\ Quotes!Total(quote) <= maxCost
    /\ Charge(r.sender, tld, Quotes!Total(quote))
    /\ Deliver(tld, r)
    /\ UNCHANGED <<config, prices>>

RentPrice(tld, label, duration) ==
    Quotes!Price(config[tld].oracle, TierOf[label], expires[<<tld, label>>], duration)

DiscountRentPrice(tld, label, duration) ==
    Quotes!DiscountRentPrice(config[tld].oracle, TierOf[label],
                             expires[<<tld, label>>], duration)

Register(tld, r, maxCost) ==
    /\ Sell(tld, r, RentPrice(tld, r.label, r.duration), maxCost)
    /\ UNCHANGED discountVars

\* Fault: the discount is used up and the standard price is paid.
RegisterUndiscounted(tld, r, maxCost) ==
    /\ r.owner = r.sender
    /\ config[tld].discount
    /\ Discounts!Consume(ControllerOf[tld], r.sender)
    /\ Sell(tld, r, RentPrice(tld, r.label, r.duration), maxCost)

RegisterWithDiscount(tld, r, maxCost) ==
    /\ r.owner = r.sender
    /\ config[tld].discount
    /\ Discounts!Consume(ControllerOf[tld], r.sender)
    /\ Sell(tld, r, DiscountRentPrice(tld, r.label, r.duration), maxCost)

\* renew of the controller: anybody may pay for any name.
Renew(s, tld, label, duration, maxCost) ==
    LET cost == Quotes!Total(RentPrice(tld, label, duration)) IN
    /\ ~config[tld].paused
    /\ duration >= MIN_REGISTRATION_DURATION
    /\ cost <= maxCost
    /\ Charge(s, tld, cost)
    /\ RenewName(ControllerOf[tld], <<tld, label>>, duration)
    /\ UNCHANGED <<resolverVars, controllerVars>>

------------------------------------------------------------------------------
(***************************************************************************)
(* Administration; one account holds all the roles.                        *)
(***************************************************************************)
Configure(tld, cfg) ==
    /\ config' = [config EXCEPT ![tld] = cfg]
    /\ UNCHANGED <<commitVars, prices, discountVars>>

SetPaused(tld, p) ==
    /\ config[tld].paused # p
    /\ Configure(tld, [config[tld] EXCEPT !.paused = p])

SetTreasury(tld, t) == Configure(tld, [config[tld] EXCEPT !.treasury = t])
SetPriceOracle(tld, o) == Configure(tld, [config[tld] EXCEPT !.oracle = o])
SetReverseRegistrar(tld, rr) == Configure(tld, [config[tld] EXCEPT !.reverse = rr])
SetDiscountRegistry(tld, set) == Configure(tld, [config[tld] EXCEPT !.discount = set])
SetApprovedResolver(tld, r, ok) ==
    Configure(tld, [config[tld] EXCEPT !.resolvers =
                       IF ok THEN @ \cup {r} ELSE @ \ {r}])

ConfigTx(tld) ==
    \/ "paused" \in Managed /\ \E p \in BOOLEAN : SetPaused(tld, p)
    \/ "treasury" \in Managed /\ \E t \in Treasury : SetTreasury(tld, t)
    \/ "oracle" \in Managed /\ \E o \in Oracle : SetPriceOracle(tld, o)
    \/ "reverse" \in Managed /\ \E rr \in ReverseRegistrar : SetReverseRegistrar(tld, rr)
    \/ "discount" \in Managed /\ \E set \in BOOLEAN : SetDiscountRegistry(tld, set)
    \/ "resolvers" \in Managed /\ \E r \in ResolverAddr, ok \in BOOLEAN :
                                    SetApprovedResolver(tld, r, ok)

PricesTx ==
    /\ "prices" \in Managed
    /\ \E o \in Oracle, table \in PriceTable : Quotes!SetPrices(Admin, o, table)
    /\ UNCHANGED <<commitVars, config, discountVars>>

CampaignTx ==
    /\ "campaign" \in Managed
    /\ Discounts!DiscountOwnerTx(Admin)
    /\ UNCHANGED <<commitVars, config, prices>>

AdminTx ==
    /\ sender' = Admin
    /\ charge' = NoCharge
    /\ PricesTx \/ CampaignTx \/ \E tld \in TLD : ConfigTx(tld)
    /\ UNCHANGED <<registryVars, registrarVars, resolverVars, now>>

------------------------------------------------------------------------------
DeployedConfig ==
    {[paused |-> FALSE, resolvers |-> {ControllerResolver}, treasury |-> t,
      oracle |-> o, reverse |-> rr, discount |-> FALSE] :
        t \in Treasury, o \in Oracle, rr \in ReverseRegistrar}

\* The deployed system: controllers approved by their registrars and trusted
\* by the resolvers, the resolver of the controllers approved, nothing of the
\* discount set up.
ControllerInit ==
    /\ commitments = [tld \in TLD |-> [c \in Request |-> 0]]
    /\ usedCommitments = [tld \in TLD |-> {}]
    /\ config \in [TLD -> DeployedConfig]
    /\ charge = NoCharge
    /\ Quotes!OracleInit
    /\ Discounts!DiscountInit

SystemInit ==
    /\ TokensInit
    /\ controllers = [tld \in TLD |-> {ControllerOf[tld]}]
    /\ \E rr \in ReverseRegistrar :
          records = [n \in Nodes |-> [NoRecord EXCEPT !.owner =
                        IF n = ADDR_REVERSE_NODE THEN rr ELSE DeployedOwner(n)]]
    /\ addrs = [r \in Resolver |-> [n \in Nodes |-> Zero]]
    /\ names = [r \in Resolver |-> [n \in Nodes |-> Root]]
    /\ trusted = [r \in Resolver |->
                    ReverseRegistrar \cup {ControllerOf[tld] : tld \in TLD}]
    /\ defaultResolver \in [ReverseRegistrar -> Resolver]
    /\ ControllerInit

\* What an account sends to a controller.
ControllerTx(s) ==
    /\ sender' = s
    /\ UNCHANGED now
    /\ \E tld \in TLD :
          \/ \E c \in Request : Commit(tld, c)
          \/ \E r \in Request, m \in Limit :
                r.sender = s /\ (Register(tld, r, m) \/ RegisterWithDiscount(tld, r, m))
          \/ \E l \in SLD, d \in Duration, m \in Limit : Renew(s, tld, l, d, m)

\* What a tenant sends to the other contracts.
TenantTx(s) ==
    /\ charge' = NoCharge
    /\ UNCHANGED controllerVars
    /\ \/ RegistrarTx(s) /\ UNCHANGED resolverVars
       \/ ResolverTx(s) /\ UNCHANGED <<registrarVars, now>>
       \/ RegistryTx(s) /\ UNCHANGED <<registrarVars, resolverVars, now>>

SystemNext ==
    \/ \E s \in Account : ControllerTx(s)
    \/ \E s \in Tenant : TenantTx(s)
    \/ AdminTx
    \/ Tick /\ charge' = NoCharge /\ UNCHANGED <<resolverVars, controllerVars>>

SystemSpec == SystemInit /\ [][SystemNext]_allVars
------------------------------------------------------------------------------
(***************************************************************************)
(* Properties.                                                             *)
(***************************************************************************)

\* The names whose lease a step grants or extends.
Served == {n \in Name : expires'[n] # expires[n]}

\* What a lease of this length costs today.
FullPrice(n, duration) == Quotes!Total(RentPrice(n[1], n[2], duration))
EarlyPrice(n, duration) == Quotes!Total(DiscountRentPrice(n[1], n[2], duration))
Bought(n) == expires'[n] - (IF Available(n) THEN now ELSE expires[n])

\* Payment integrity: money moves exactly when one lease is granted or
\* extended; the sender of the transaction pays, to the treasury of that
\* TLD, the price the oracle quotes for the time the lease really gained.
\* The discounted price is paid for registrations only, and by a wallet
\* whose one discount goes from unused to used in the same transaction.
PaidExactlyForTheLease ==
    [][/\ charge' # NoCharge <=> Served # {}
       /\ \A n \in Served :
             /\ Served = {n}
             /\ charge'.payer = sender' /\ charge'.payee = config[n[1]].treasury
             /\ \/ charge'.amount = FullPrice(n, Bought(n)) /\ used' = used
                \/ /\ charge'.amount = EarlyPrice(n, Bought(n)) /\ Available(n)
                   /\ used' = used \cup {sender'} /\ sender' \notin used
      ]_allVars

\* The claim of docs/mainnet/PRICING.md: a registration never includes a
\* premium, although the price asked during the grace period does.
NoPremiumOnRegistration ==
    [][\A n \in Served : Available(n) => Quotes!Premium(expires[n]) = 0]_allVars

\* The discount is used up together with the registration it is for: no
\* wallet is marked without becoming the holder of a name in that
\* transaction, and none is ever unmarked.
DiscountGoesWithName ==
    [][/\ used \subseteq used'
       /\ \A a \in used' \ used : \E n \in Served : Available(n) /\ nft'[n] = a
      ]_allVars

\* Only wallets of the frozen snapshot use the discount.
UsedWereInSnapshot == Discounts!UsedWereInSnapshot

\* A reveal delivers what the commitment hid: the holder it names gets token
\* and registry node for the duration it names, from the sender it names;
\* with the controllers' resolver the name resolves to the holder at once;
\* and every registration is such a reveal, of a commitment neither younger
\* nor older than the window and never served before.
RevealDelivers ==
    [][\A n \in Name : Available(n) /\ n \in Served =>
         \E r \in usedCommitments'[n[1]] \ usedCommitments[n[1]] :
            /\ r.label = n[2] /\ r.sender = sender'
            /\ commitments[n[1]][r] # 0
            /\ now - commitments[n[1]][r] \in MIN_COMMITMENT_AGE..MAX_COMMITMENT_AGE
            /\ nft'[n] = r.owner /\ records'[n].owner = r.owner
            /\ expires'[n] = now + r.duration
            /\ r.resolver = ControllerResolver => Resolve(n)' = r.owner
      ]_allVars

\* The primary name a registration sets belongs to its address and can be
\* read there, and it is confirmed in the forward direction if the request
\* names the resolver of the controller; with another approved resolver the
\* address record goes where no reader of the name looks.
PrimaryNameConfirmed ==
    [][\A r \in Resolver, a \in Named, n \in Name :
         LET rn == ReverseNode(a) IN
         names[r][rn] # n /\ names'[r][rn] = n /\ n \in Served =>
            /\ records'[rn].resolver = r /\ records'[rn].owner = a
            /\ nft'[n] = a
            /\ records'[n].resolver = ControllerResolver => Resolve(n)' = a
      ]_allVars
==============================================================================
