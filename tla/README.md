# ArcNS in TLA+

ArcNS is a name service: names under the TLDs `.arc` and `.circle` are leased
for USDC, held as ERC-721 tokens, and resolve to addresses. This directory
holds a TLA+ model of its version 3 contracts (`contracts/v3/`), of the scripts
that hand them over, repair and replace them, of the two subgraphs, and of the
flows, lookups and caches of the web client; the TLC runs that check the model
on small instances; and TLAPS proofs of safety properties for every instance.
Paths below are relative to the repository.

1. Inventory of the system
2. The modules and how they correspond to the code
3. The runs
4. What is proved
5. Abstractions, bounds, fairness
6. Findings
7. What is not modelled, and the plan


## 1. Inventory of the system

| component | state | operations |
|---|---|---|
| Registry (`registry/ArcNSRegistry.sol`) | node -> owner, resolver, TTL; owner -> operators | setRecord, setSubnodeRecord, setSubnodeOwner, setResolver, setOwner, setTTL, setApprovalForAll |
| Base registrar, one per TLD (`registrar/ArcNSBaseRegistrar.sol`, `...V2.sol`) | expiries, ERC-721 owners and approvals, approved controllers, plaintext labels | registerWithLabel, registerWithResolverAndLabel, renew, reclaim, addController, removeController, the ERC-721 calls |
| Price oracle (`registrar/ArcNSPriceOracle.sol`) | annual price by tier | price, setPrices |
| Resolver (`resolver/ArcNSResolver.sol`) | address and name records, roles | setAddr, setName, setController |
| Reverse registrar (`registrar/ArcNSReverseRegistrar.sol`) | default resolver | setReverseRecord, setName, claim, claimWithResolver, setDefaultResolver |
| Discount registry (`discount/ArcNSEarlyAdopterDiscountRegistry.sol`) | Merkle root, frozen, active, wallets used, authorised controllers | setMerkleRoot, freezeRoot, setDiscountActive, setControllerAuthorization, consume |
| Controller, one per TLD (`controller/ArcNSController.sol`) | commitments, used commitments, pause, approved resolvers, treasury, oracle, reverse and discount registry | commit, register, registerWithDiscount, renew, pause, unpause, setters |
| Timelock (`governance/ArcNSTimelock.sol`) | OpenZeppelin's | OpenZeppelin's |
| Admin handoff (`scripts/v3`, `scripts/mainnet`) | holders of roles, owners, deployment file, the running script's plan | deploy Safe and timelock, grant, revoke, transfer, validate, record |
| Reverse registrar replacement (`scripts/v3`) | owner of `addr.reverse`, CONTROLLER_ROLE, the controllers' pointers, the file | deploy, move, grant, revoke, point, record, validate |
| Registrar migration (`scripts/mainnet/*metadata-v2*`) | old and new leases, snapshot, batch, pause | prepare, snapshot, deploy, fence, switch, validate |
| Discount campaign (`scripts/snapshot`, `scripts/mainnet/discount-*`) | snapshot tree, proofs, stage of the registry, Safe batches | set, freeze, activate, verify, offer |
| Subgraphs (`indexer/`, `bens-subgraph/`) | entity tables | one handler per event |
| Client flows (`frontend/src/hooks`, `components`) | step of each flow, forms, pending transactions | register, renew, set primary name, send assets |
| Lookups (`frontend/src/app`, `lib`, `app/api`) | caches, questions under way, text in the box | resolve, search, list the wallet's names |

How they interact. A customer calls the controller only. In one transaction
the controller spends the commitment, asks the oracle for the price, consumes
the discount, moves USDC to the treasury, and calls its base registrar, which
writes the registry; then it writes the address record on its own resolver and,
inside try/catch, calls the reverse registrar, which writes the registry and the
default resolver. The registrar owns the TLD node and so may rewrite the node of
every name; the reverse registrar owns `addr.reverse`. Registry, registrar,
resolver and reverse registrar are also open to direct calls, by holders and by
everybody. Events of these transactions feed the subgraphs; the client reads both
chain and subgraph, and writes through a wallet that may refuse, answer late or
be switched. The operator's scripts change who may administer the contracts and
which registrars they use while all of this goes on.

What is hard here:

- *Ordering of transactions.* A reveal is public before it is included, so other
  accounts can commit, register or renew in front of it, and administrators can
  change the configuration in between.
- *Two ownership surfaces.* A name has a token owner (registrar) and a node
  owner (registry). transferFrom moves the first, setOwner the second, reclaim
  copies from first to second; each has operators and approvals of its own.
- *Lapsed names.* Token, node, resolver, records and approvals of the last
  holder are still there when a name is registered again.
- *Boundaries.* Availability, renewal, premium and the window of a commitment
  are comparisons of timestamps that must fit together.
- *Rounding.* Quotes truncate, discounted quotes round up, and their formula
  changes at exactly one year.
- *Partial failure.* A registration touches six contracts, one of them inside
  try/catch; a discount is consumed before the payment that may revert.
- *Administration.* Roots, roles, resolvers, controllers, the TLD node and the
  default resolver change between any two transactions of users.
- *Interrupted scripts.* A script is a sequence of transactions with a file
  written at its end; it may stop anywhere and is started again, or another is.
- *Transactions in a row.* The client's flows are several transactions with
  waits between them, run beside each other in components and tabs, on values
  read before the wait.
- *Late answers.* Lookups and asynchronous checks end after the question has
  changed; caches and a lagging index answer for the chain.
- *Order of events.* Inside one transaction they come in the order of the calls,
  which is not the one the subgraphs' handlers would need.

What makes each component correct:

- registry: authority comes only from somebody who has it; a burned node stays
  burned when nothing above it is owned;
- registrar: a name is a lease (`NameLease`); a new holder takes over free of
  the last holder's approvals; only the entitled move a name; a registrar
  without its TLD node is inert;
- oracle: the premium only decays; splitting a registration gains nothing;
  longer is not cheaper; the discount is one year's;
- resolver and reverse registrar: what a name resolves to, and who owns a
  reverse node, moves by authority only; what is written can be read;
- discount registry: each wallet of the frozen snapshot once, with a name;
- controller: what is paid is the quoted price of what is delivered, what is
  delivered is what was committed, in the window, once; a reveal sent
  on time cannot be made to fail by others; a lapsed name never costs a premium to register;
- scripts: authority is never lost, what the file says is so, every procedure
  can be resumed, and the switch of the registrars keeps every lease;
- subgraphs: between two blocks they agree with the chain, and with each other;
- client: what is signed is what was entered and shown, a payment fails for a
  cause, a success is real, a flow ends unless its provider never answers, the primary name keeps its address;
- lookups: an answer is of the name asked, and as recent as the caches promise;
- campaign: the finalized root and no other ends up behind an offer.

`PROJECT.json` lists the hazards line by line with the properties aimed at each.


## 2. The modules and how they correspond to the code

    ArcNSRegistry --- ArcNSBaseRegistrar ------+--- ArcNSController --- RegistrationRace
             |               |(implements)     |      |  (instances)
             |               NameLease         |      +--- ArcNSPriceOracle --- RentQuotes
             +------ ArcNSResolver ------------+      +--- ArcNSEarlyAdopterDiscountRegistry
                     (and reverse registrar)

    MCLeaves ------- ArcNSRegistry, RentQuotes
    MCOperations --- AdminMigration, ReverseMigration, MetadataCutover
    MCRace --------- RegistrationRace, RegistrationPipeline
    MCClients ------ ChainEvents --- ArcNSSubgraph, BensSubgraph
                 --- PrimaryNameFlows, ClientPayments, RegistrationCard, WalletSend
                 --- ResolutionRoutes, ResolvePage, DomainResolution, OwnedNames
                     (and the panels that draw the wallet's names)
                 --- NameRules --- NameSearch
                 --- MerkleSnapshot, ArcNSEarlyAdopterDiscountRegistry
                        --- EarlyAdopterCampaign

The contracts come first, then the operator's scripts, the subgraphs and the
client. Two kinds of definition carry the contracts. An *effect* (`WithOwner`, `Enroll`,
`WithReverseRecord`, ...) is what a function writes when another contract calls
it in the middle of a transaction; an *action* (`SetOwner`, `Reclaim`,
`Register`, ...) is a transaction as a whole: its guard is the conjunction of
all the conditions on the way, because a revert anywhere undoes everything.
`sender` observes msg.sender of the last transaction and `charge` its USDC
transfer; no guard reads them.

**ArcNSRegistry**: `records` is `_records`, `operators` is `_operators`. A node is
the path of labels from the root, so that keccak256(node, label) is
`Append(node, label)`. `Authorised` is the modifier; one action per writer.

**ArcNSBaseRegistrar**: `expires` is nameExpires, `nft`, `approved`,
`nftOperators` are the ERC-721 storage, `labelled` the domain of `_labels`.
`Enroll` is `_registerLabel` up to its registry call (token minted, or taken over
from the last holder by `_transfer`), `Extend` is renew. Controllers call with
arbitrary arguments here. The initial states are a fresh deployment and every
seeding the V2 constructor accepts. `Tick` advances block.timestamp.

**NameLease** is the abstract specification: leases are granted when nobody's
lease or grace period runs, extended until the grace period is over, passed on,
and nothing else. The registrar and the whole system implement it
(`ImplementsLease`, holder = token owner, until = nameExpires).

**ArcNSPriceOracle** holds the quotes as operators (truncating and rounding-up
division as in the code) and `SetPrices`; **RentQuotes** states what the quotes
promise and is the specification that is checked.

**ArcNSResolver**: `addrs`, `names` and `trusted` (CONTROLLER_ROLE) of every
resolver proxy, `defaultResolver` of every reverse registrar. Guards take the
records they read as a parameter, because a registration calls them after the
registry has been written by the same transaction.

**ArcNSEarlyAdopterDiscountRegistry**: a Merkle root is the set of wallets it
commits to, a proof verifies exactly for its members.

**ArcNSController** composes all of the above. `Commit`, `Revealable`
(`_validateCommitment`), `Sell` (what register and registerWithDiscount share),
`Deliver` (the calls to registrar, resolver and reverse registrar, the last one
conditional as try/catch makes it), `Renew`, and one action per setter.
`TenantTx` lets accounts use registry, registrar and resolver directly at the
same time.

**RegistrationRace** puts the live client and a mempool in front of it. The client
submits the commitment (`Click`), lets CLIENT_WAIT go by from then on, and sends
the reveal (`Broadcast`) without reading anything: not whether the commitment was
included, which happens at any later time or never (`RaceCommit`), nor whether the
name is still free. A reveal sent too early or in vain is public all the same and
reverts when it is included (`Include`). A copycat sees the name and gets its own
commit, reveal or renewal included first. `OnTime` is what the client relies on and
does not check; it is noted of every reveal and guards none, and the two properties
are about the reveals of which it holds. A customer whose reveal reverted may try
again under a name everybody has seen by then: that attempt, which nothing in the
contract protects, is not modelled.

**AdminMigration**: `holders` and `owner` are the roles and owners of every
contract, `file` what the deployment file says, `run` the script under way with
the plan of transactions it still has to send (`GrantRole`, `RevokeRole`,
`TransferOwnable`, `CreateSafe`, ...); one `Start...` action per script makes the
plan from what the script reads first, as its pre-flight checks allow, `Crash`
ends it anywhere, and each transaction reads again what the script reads before
sending it. `MigrationValid`, `TimelockValid`, `HandoffValid` and `Preflight` are
the scripts' final checks.

**ReverseMigration**: what has to fit together for a primary name to be written
(`nodeOwner`, `trusted`, `pointer`), the file (`record`), and the job of the two
scripts, step by step, with its interruptions.

**MetadataCutover**: the leases of the registrars to be replaced go on changing
(`Transfer`, `Buy`, `Tick`) while the script takes its snapshot, deploys, takes
the snapshot again (`Fence`) and writes a batch, which the Safe executes later
(`Cutover`). `moved` observes which tokens were transferred after the fence.

**ChainEvents** says which events a transaction emits, in the order of the log.
**ArcNSSubgraph** and **BensSubgraph** are functions from a store and an event to
a store, one per handler, folded over a block; the readers of `lib/graphql.ts`
are operators on the store.

**PrimaryNameFlows** (set primary name, registration, receiving address),
**ClientPayments** (quotes, approvals, purchases) and **WalletSend** (the sending
panel): each flow has a program counter, a step per prompt, receipt or answer,
and runs beside others of the same wallet; transactions wait in the order of
their nonces. **RegistrationPipeline** is the longer pipeline of the first
client, with its retries, timeouts and reset(), against the upgradeable controller
it drove (`contracts/proxy`). Where the hook awaits the provider without a timeout
(`Unguarded`: getConnectorClient, the receipt forensics, getBlock, the modules
imported for the last checks, the reads after a failed simulation) a flow may `Hang`, and with it GLOBAL_REGISTER_LOCK.

A reading of the address that fails ends setPrimaryName in PrimaryNameFlows after
setName has gone through (`CheckAddr`); a name that did not resolve to the wallet
before then stays so, which PrimaryKeepsAddress names as an exception. In WalletSend a
token entered by hand is listed once and selected again whenever it is entered;
`byHand` are the ones whose provenance is "custom", which a new list of detected
assets keeps. `OptimisticRegister` of DomainResolution is the back-dated write of
cacheOptimistic, which is exported and which no component calls at this commit: it is
a step all the same, so that the age of what is shown is bounded with it, too.

**RegistrationCard** is the card that sells a name: one component (`card`), which
the page shows another name with `Display`, while quotes, discounts and primary
names are read (`ReadQuote`, `AskDiscount`, `DiscountAnswers`, `ReadPrimary`)
and its registrations (`orders`) run; an effect is due (`discountDue`, `choiceDue`)
when one of its dependencies has changed, and the effects of one drawing run
together (`RunEffects`). A quote or proof is represented by what
it was asked for.

**ResolutionRoutes** (the API), **ResolvePage**, **DomainResolution** (the first
client's) and **OwnedNames** (the wallet's list): a reading is represented by
what it was asked for and how old it is; answers arrive at any time. Observers
(`kept`, `held`, ages) say what the chain had meanwhile. OwnedNames also has the
panels: when Portfolio shows the list (`ListShown`), and the selection of a name to
be the primary one (`SelectDomain`, `HandleSet`; the transactions that follow are in
PrimaryNameFlows).

**NameRules** has the four rules of what a name is as operators on texts of a
few kinds of characters; somebody types the text. **NameSearch** is the search
box with its debounce on top of it.

**MerkleSnapshot** builds the tree and the proofs with hashes as terms.
**EarlyAdopterCampaign** instantiates the discount registry of the contracts with
it: the tools, each reading the registry value by value, the Safe's batches, the
subgraph's state and the visitor to whom the discount is offered.

The `..._proofs` modules hold the theorems (section 4). ArcNSBaseRegistrar_proofs
(with those of the registry), ArcNSController_proofs (with those of the resolver) and
RegistrationRace_proofs (with those of the pipeline) build on each other in this
order; Offers_proofs is about RentQuotes, MerkleSnapshot and EarlyAdopterCampaign,
Operations_proofs about the three modules of the operator's scripts, Lookups_proofs
about the five modules that look names up, and Clients_proofs about WalletSend,
RegistrationCard, ClientPayments, PrimaryNameFlows and the lookups together,
Subgraphs_proofs about ArcNSSubgraph and BensSubgraph.

The `MC...` modules give values to constants and put modules that keep no state in
common into one run: a variable `scene` (or `procedure`) is chosen at the start
and says which of them moves. So one run checks several independent systems, each in
full, and never their product. Operators commented
"Fault: ..." are wrong versions of the definition that follows them, used to
confirm that the properties notice them (`PROJECT.json`, "mutants"); nothing
else refers to them.


## 3. The runs

| run | question | properties | states |
|---|---|---|---|
| `Leaves.cfg` | can any mix of registry calls reach a node from outside? what do quotes promise over all price tables, durations and ages? | NoEscalation, BurnedToRootIsFrozen; PremiumOnlyDecays, NoGainFromSplitting, DiscountIsOneYears, LongerIsNotCheaper | 16,897 |
| `BaseRegistrar.cfg` | one name through its whole life with two holders, operators, approvals, grace and re-registration; and with one holder while the TLD node is taken away and given back | MintedCoherent, OnlyEntitledMove, CleanTitle, InertWithoutTLD, ImplementsLease | 158,882 |
| `BurnedName.cfg` | does reclaim(id, 0) lock the node, as documented? (it does not) | BurnedNameIsLocked | violation |
| `Resolver.cfg` | two resolvers, role grants, default resolver switches, open calls | ResolutionMovesByAuthority, WrittenNameIsReadable, ReverseNodeStaysHome | 48,388 |
| `ReverseOpenCall.cfg` | does setReverseRecord leave node ownership alone, as documented? (it does not) | OpenCallKeepsNodeOwner | violation |
| `Campaign.cfg` | two controllers spend one discount per wallet while the campaign is reconfigured | UsedWereInSnapshot, DiscountGoesWithName, PaidExactlyForTheLease | 295,761 |
| `Sale.cfg` | commit, reveal, renewal of a free, lapsed or live name under administration and direct calls | RevealDelivers, PrimaryNameConfirmed, NoPremiumOnRegistration, PaidExactlyForTheLease | 234,363 |
| `Race.cfg` | front-running of a public reveal; the first client's pipeline under retries, timeouts, lost and duplicated transactions | RevealStaysGood, CustomerServed, SuccessIsReal, FlowEnds | 365,672 |
| `Operations.cfg` | handover, reverse registrar and registrar exchange by scripts that stop anywhere | Governed, RecordIsHonest, HandoverCompletes, PauseIsLifted, OnlyCurrentTrusted, ReverseIsRepaired, CutoverKeepsLeases | 97,504 |
| `Clients.cfg` | subgraphs, client flows, lookups and campaign, each among its late and reordered answers | SubgraphFollowsChain, BensFollowsChain, PrimaryKeepsAddress, SentAsEntered, PaymentFailsForCause, CardKeepsItsWord, LookupsAreTheirs, CampaignIsFinal | 1,155,673 |
| `Selection.cfg` | can only a name of the connected wallet be submitted as its primary name, as documented? (no) | SelectionIsOwned | violation |
| `Names.cfg` | is a name with an underscore handled by the resolve page, as documented? (it is not) | UnderscoreHandled | violation |

LookupsAreTheirs joins what the places that look names up promise: RoutesRecent,
ResultsAreTheirs, ShownIsRecent, OwnListShown, NamesAgree and SearchedIsTyped.

Deadlock is checked except in `Race.cfg`, where the clock ends at `MaxTime` with
nothing left to send, in `Operations.cfg`, whose procedures end, in `Clients.cfg`,
whose clicks, edits and questions are bounded, in `Selection.cfg`, whose
user may leave the page alone, and in `Names.cfg`, whose text is bounded.

Bounds, and why they are enough to reach the interesting cases:

- *Registry*: a chain root / tld / name is the shortest in which a grandparent
  acts through an intermediate node; two senders, and an owner that
  never sends, distinguish owner, operator, operator of a previous owner and
  outsider. The resolver and TTL of a record change in one place each, so one
  value besides the default does. address(0) is tried as an operator, because approving it
  must not let anybody act for nodes without owner.
- *Registrar*: GRACE 2 and durations 1 and 3 put the clock before, at and after
  expiry and end of grace, MaxTime 8 lets a seeded name lapse and be registered
  again, renewed late, and lapse again. One name, since no operation touches two.
- *Sale*, *Campaign*: a commitment window of a few ticks, a name that is free,
  just lapsed, or past its grace period at the start, requests with the
  controllers' resolver, with another one and with none, for oneself and for
  somebody else. Campaign has two TLDs because the discount is shared.
  The primary name is confirmed in the forward direction only for requests with
  the controllers' resolver: with another approved one the address record is
  written to the controllers' resolver, which no reader of the name consults.
- *Pricing*: YEAR = 6 and tables of 0..7 give every remainder of the division,
  durations to 15 cross two year boundaries; PREMIUM_DECAY_PERIOD 4 does not
  divide PREMIUM_START 7.
- *Race*: the client waits 3 for a minimum age of 2 (62 seconds for 60), so that a
  commitment included at once leaves a reserve of one tick, one included later uses it
  up, and one included later still is too young for the reveal that is sent all the
  same; the commitment age, the inclusion time and the grace period leave room
  for the copycat's commitment to mature at the very tick the reveal may be late.
  The pipeline has two scenes: one flow with both retries of the code and two mishaps
  of the wallet or the pool, where three transactions of one submission may meet; and
  two flows in one tab, two accounts, one retry and one mishap, which share lock and
  account reference after a reset. Both at once, two flows with two retries and two
  mishaps (6,586,452 states), is too long for a run kept here and was checked once.
- *Operations*: two Safes (an orphan and the next) and one crash in the handover,
  which every script may suffer; eight reverse registrars and two interruptions,
  so that both scripts leave orphans in turn; one token and two holders, with
  leases of every age around a grace period of 1 and a delay of 1, in the exchange:
  no step of it touches two tokens, and the theorem covers any number.
- *Clients*: two TLDs share a label and two accounts trade three blocks (the first
  registration, a second under the other TLD, a transfer); two tabs or purchases
  make every pair of flows overlap; two amounts, three assets (fixed, detected,
  custom) and three edits in the sending panel; two callers of an API route, two
  or three names asked one after the other, overlapping runs of the resolution, a
  memory and a local store that keep one tick each, and an optimistic entry that is good
  for the tick it is written in (the last one is of the name then in the input, where it
  is read again); quotes for a purchase are read while one is still to come; the first recipient typed in the sending panel
  is one of two that are alike; a
  wallet switched three times with two trades; texts of up to five characters
  in `NameRules`, the shortest that can have a double hyphen at the third and fourth
  place and still be refused for nothing else, where the fifth is a letter or a hyphen;
  six wallets, a tree of odd levels.
- *Card*: two names, two periods and two wallets, so that a key may differ from the
  one before in each part alone; four moves (a name, period, wallet or discount
  changed, or a purchase begun), enough for a wallet to be left and come back to while
  an answer is under way, and for a second purchase after or beside a first one; the
  box of the primary name is ticked where it is looked at, before a purchase of the
  first card or after its success. The last move is a purchase or follows one, and no
  quote or proof that nobody is left to use is read after it. One wallet begins with a
  primary name.
- *Campaign's tools*: a manifest that is final, with an environment that says nothing or
  contradicts it, and one that is not final; the other combinations are refused alike.
  On the testnet only the final manifest is tried, and the index, which no script reads,
  follows at once.
- *Values* in `ClientPayments`: prices 20, 21 and 24 lie within and beyond the
  slippage of five per cent.


## 4. What is proved

TLAPS proves, for all values of the constants that satisfy the modules' ASSUMEs:

| theorem | module | statement |
|---|---|---|
| RegistryTypeCorrect | ArcNSBaseRegistrar_proofs | types of the registry |
| NoEscalationHolds | ArcNSBaseRegistrar_proofs | a transaction of an outsider of a node neither writes the node nor turns an outsider into an insider |
| BurnedToRootIsFrozenHolds | ArcNSBaseRegistrar_proofs | a node burned with everything above it is never written again |
| RegistrarTypeCorrect | ArcNSBaseRegistrar_proofs | types of registrars and registry |
| MintedCoherentHolds | ArcNSBaseRegistrar_proofs | token, expiry and label exist together |
| RegistrarImplementsLease | ArcNSBaseRegistrar_proofs | the registrars implement NameLease |
| OnlyEntitledMoveHolds | ArcNSBaseRegistrar_proofs | token and node of a name move only by somebody entitled to move that one |
| CleanTitleHolds | ArcNSBaseRegistrar_proofs | a new holder takes over free of what the last one approved |
| InertWithoutTLDHolds | ArcNSBaseRegistrar_proofs | a registrar without its TLD node registers, renews and reclaims nothing |
| ResolverTypeCorrect | ArcNSController_proofs | types of resolvers and reverse registrars |
| ResolutionMovesByAuthorityHolds | ArcNSController_proofs | what a name resolves to moves by authority over it, or by a trusted contract |
| WrittenNameIsReadableHolds | ArcNSController_proofs | a reverse name is written where the registry says it is read |
| ReverseNodeStaysHomeHolds | ArcNSController_proofs | nobody takes over another address's reverse node |
| ControllerTypeCorrect | ArcNSController_proofs | types of the composed system |
| PaidExactlyForTheLeaseHolds | ArcNSController_proofs | USDC moves exactly with a lease, for the quoted price of the time gained |
| NoPremiumOnRegistrationHolds | ArcNSController_proofs | registrations pay no premium |
| DiscountGoesWithNameHolds | ArcNSController_proofs | a discount is used up only with a registration for its wallet |
| UsedWereInSnapshotHolds | ArcNSController_proofs | only wallets of the frozen snapshot use the discount |
| RevealDeliversHolds | ArcNSController_proofs | a registration is a reveal, in its window, once, delivered as committed |
| PrimaryNameConfirmedHolds | ArcNSController_proofs | a primary name set by a registration is readable and confirmed |
| SystemImplementsLease | ArcNSController_proofs | the whole system implements NameLease |
| PremiumOnlyDecaysHolds | Offers_proofs | the premium starts at PREMIUM_START, never rises, is gone in time |
| NoGainFromSplittingHolds | Offers_proofs | the parts cost what the whole costs, up to one unit |
| DiscountIsOneYearsHolds | Offers_proofs | the discount is one year's difference, premium untouched |
| LongerIsNotCheaperHolds | Offers_proofs | longer is never cheaper, on either route |
| ProvesOne | Offers_proofs | a proof of a snapshot is good for one wallet at most, whatever the root |
| CampaignInvHolds | Offers_proofs | what scripts and client have read stays so, batches are for the finalized root, the subgraph is behind by its events |
| CampaignIsFinalHolds | Offers_proofs | the finalized root and no other ends up behind an offer, in every order |
| RevealStaysGoodHolds | RegistrationRace_proofs | a reveal that went out on time cannot be made to fail by competing accounts |
| PipelineInvHolds | RegistrationRace_proofs | a commitment seen mature stays so until revealed or lapsed; a receipt is explained by the chain |
| SuccessIsRealHolds | RegistrationRace_proofs | a success the earlier client reports is one, but for the named exceptions |
| OnlyCurrentTrustedHolds | Operations_proofs | of all reverse registrars only the current one writes names, and what stopped runs left behind |
| AdminInvHolds | Operations_proofs | every step still to come is one the scripts plan, and every plan is careful with the vital roles |
| GovernedHolds | Operations_proofs | every vital role of every surface has a holder, however the scripts are stopped and mixed |
| RecordIsHonestHolds | Operations_proofs | once the handover is recorded the deployer holds nothing but what the record leaves to the Safe |
| CutoverInvariant | Operations_proofs | a written batch matches the registrar it replaces, but for lapsed names and moved tokens |
| CutoverKeepsLeasesHolds | Operations_proofs | the switch of the registrars keeps every lease |
| SendInvariant | Clients_proofs | calls and reviews that are not late agree with the form |
| SentAsEnteredHolds | Clients_proofs | what goes to the wallet is what the form shows |
| CardInvariant | Clients_proofs | the card's orders are those of what it displayed, and it clears once what it clears |
| CardKeepsItsWordHolds | Clients_proofs | a registration is bought at the quote and discount of its own name, period and wallet |
| PaymentsInvHolds | Clients_proofs | the pool keeps the order of sending, no wait is longer than the chain's, the allowance is its last giver's |
| PaymentFailsForCauseHolds | Clients_proofs | an announced payment fails for age or allowance only for the named causes |
| FlowsInvHolds | Clients_proofs | a cleared address is followed by another primary name or sent again |
| PrimaryKeepsAddressHolds | Clients_proofs | no flow clears the address of the name a flow has made primary |
| RoutesRecentHolds | Lookups_proofs | the API routes answer with what was true within the life of their caches |
| ResultsAreTheirsHolds | Lookups_proofs | the resolve page shows a result only with its own query |
| ShownIsRecentHolds | Lookups_proofs | the earlier client shows what its caches may still hold, for the name shown |
| OwnListShownHolds | Lookups_proofs | the list of names shown is one of the wallet connected |
| NamesAgreeHolds | Lookups_proofs | the four rules of names read every text alike, as far as they promise to |
| SearchedIsTypedHolds | Lookups_proofs | the card of the search is that of the name in the box |
| LookupsAreTheirsHolds | Clients_proofs | the six together |
| SubgraphFollowsChainHolds | Subgraphs_proofs | once every block is indexed the subgraph shows the chain, and its readers agree with the chain's |
| BensFollowsChainHolds | Subgraphs_proofs | once every block is indexed Blockscout shows the chain, every name and reverse node counted once |

*Registry.* Every transaction is of one of two kinds (`TxEffect`): it writes the
record of one node, and the sender is authorised for it or its parent; or it
changes the sender's own operators. NoEscalation follows for outsiders from this
and from the transitivity of "above"; the freezing theorem also needs that
address(0) never has operators (`NoOperatorsOfZero`).

*Registrar.* Again a lemma sums up the steps (`StepEffect`): each one grants,
extends, moves or approves one token, or lets time pass, or leaves the tokens
alone. The inductive invariant is

    RegistrarIInv == RegistrarTypeOK /\ now >= StartTime
                     /\ MintedCoherent /\ ContractsApproveNobody

MintedCoherent is not inductive by itself: a registration at time 0 for a
duration of 0 would store the expiry that means "never registered", so the clock
has to have passed the deployment, which lies more than a grace period after 0
(`RegistrarAssumption`). The same bound is what makes a never registered name
available in the refinement proof. The three action properties follow from
`NameEffect`, which says of one name and one step who sent it and what it did to
token, expiry and registry record. OnlyEntitledMove needs ContractsApproveNobody:
an account that operated for the registrar could write every name's node.

*Resolver and reverse registrar.* `ResolverTxEffect` sorts the transactions into
registry calls, writes of an address record by somebody authorised or trusted,
claims of a reverse node, reverse records, and changes of roles. The properties
follow with two facts about the tree (`ReverseNodes`): reverse nodes of different
addresses are different nodes, and no name is a reverse node, so nothing the open
calls write is in the forward direction.

*Controller.* `ControllerTxEffect` reduces a transaction of the controller to one
of three shapes: `Sells` (a registration on either route), `Renews`, or one that
touches neither leases nor money. `DeliverEffect` says what the registrar,
resolver and reverse registrar hold after a sale, `SystemEffect` what any step of
the system does to tokens, expiries and payments. PaidExactlyForTheLease,
RevealDelivers, DiscountGoesWithName and PrimaryNameConfirmed are then read off
the three shapes. NoPremiumOnRegistration is arithmetic (`FreeWithoutPremium`):
an available name is more than GRACE past its expiry, and the premium is over
after PREMIUM_DECAY_PERIOD <= GRACE. UsedWereInSnapshot is proved as an
invariant together with the types: the root cannot change once frozen, and only
a frozen root admits a wallet. The refinement reuses the registrar's lemmas
(`LeaseStarts`, `TokenStepsLease`), since a step of the system is, for tokens and
expiries, a step of the registrars.

*Quotes.* A truncated quotient is known by the two multiples of the divisor it
lies between (`DivBounds`), and a multiple of the divisor below the successor of
another is at most that one (`WithinOne`); each inequality between quotes is one
between multiples of YEAR. The invariant needed of a state is only that prices
are amounts.

*Race.* RevealStaysGood is not inductive: that a waiting reveal is good now says
nothing about the next tick, nor about a copycat's commitment that is about to
mature. `RaceIInv` adds what bounds both (`Waits`): a reveal that went out on time was sent when
its commitment was old enough and is included by a time at which it is not yet
too old, and every commitment of a copycat to that name is no older than the
reveal, because copycats only commit to names they have seen (a secret hides the
name until then). So long as INCLUSION < MIN_COMMITMENT_AGE the copycat's
commitment is too young whenever the reveal is included. RaceIInv also says that a customer's
request is used only by a reveal that was seen, that a copycat has committed to seen names
only, and that a request has one reveal, so that no reveal on time starts behind a
copycat's commitment. With INCLUSION at or above the minimum age
the invariant is false and so is the proof. What RevealStaysGood does not exclude is
an administrator acting in between: pause, resolver or price changes are no steps
of the race.

*The snapshot and the campaign.* The prover has no induction over data, and fold, join
and levels of the tree are recursive. For each a function over explicit positions is
built (`FoldExists`, `FlatExists`, `LevelsExist`), and a claim about all of its values
goes by the smallest position at which it would fail. So `ProofIsSeq`: a proof is a
sequence; `FoldInjective`: folding it takes different hashes to different roots, since
a pair and one half determine the other (`PairInjective`); hence ProvesOne. What the
client offers it has read, value by value, at different moments; `CampaignInv` says
that what was read stays so: the root moves only to the finalized one and only until
it is frozen (`RootMoves`), because whoever calls, a script after its readings or the
Safe with a batch, does so for the finalized root (`ToolIsRight`, `BatchesAreRight`).
That a batch is out of order shows in the last of its conjuncts: another root is frozen
only with the first batch left over. The subgraph's state is related to the registry
by the last event about each value that is not indexed yet (`LastSays`), which an
emitted event and an indexed one both keep; for the seal, which is set once, by
whether its event is under way.

*Pipeline.* A success is announced on any receipt, so the invariant explains every
receipt of register() (`ReceiptsExplained`): the commitment was revealed, or the name
taken, or the chain or the wallet changed, or the commitment had lapsed. The receipt's
own checks passed when the flow read its commitment as mature; that it is still so when
the transaction is included is `StaysMature`, which holds until the commitment is
revealed or outlives its window (`lapsed`). The proof is what found the last exception:
with the code's two retries a duplicate of commit() that was still pending renews a
commitment that has lapsed, after a register() reverted, and nothing of the window
shows in the final state any more. The property had claimed that it would, and the
run, with one retry, had not met the case.

*Handover.* A script's plan is a sequence that is made once and carried out step by
step by a script that may be stopped, so Governed needs an invariant of the rest of
the plan. `Permitted` says which steps the scripts plan at all, `Careful` what makes a
sequence of them safe: every revocation of a vital role names an heir that the step
checks first, or only the deployer loses and somebody else holds the role or is given it
earlier in the plan. Both are kept by dropping the first step, and by whatever others
do to the roles; the plan of each script is permitted and careful when it is made
(`DeployMultisigIsCareful`, `HandoffIsCareful`, ..., over the sequences that a plan is
selected from). RecordIsHonest adds
that what the record leaves to a Safe is not only the deployer's (`DeferredIsShared`),
that a Safe in the file exists and, on the mainnet, has been looked at.

*Replacement of the reverse registrar.* The invariant counts: what is trusted besides the
registrar in the file and the one being put in its place is no more than the runs that
were stopped, since a run leaves at most its own (`ReverseInv`). The security migration
takes the role from the registrar in the file; the other script never gets past its
attempt to take the node (`JobIsKnown`).

*Exchange of the registrars.* That the switch keeps the leases depends on what
happened since the fence, so the invariant follows the batch (`BatchMatches`):
the controllers stay paused, every token has the expiry of the snapshot and,
unless it moved, its holder, or had lapsed and was copied as free. Transfers keep
it by marking the token, time because what has lapsed stays lapsed
(`LapsedStays`), and the fence establishes it because it compared the whole
snapshot (`RecordsAre`). `Sound` adds that a token without holder has no expiry.

*Sending.* The asset is no part of a review, only its decimals are, through the
amount; so the review and the asset signed come from different moments. The
invariant says of every call under way and of the review that it agrees with the
form unless it is late; every edit clears the review and outdates all calls
(`EditKeeps`), and a review made from a call agrees as far as the call does
(`ReviewedIsForm`).

*Card.* An order is begun with what the card displayed then, and the card may show
something else since. `CardInv` says of the orders, which only grow, that each has the
quote and discount of its own key (`OrdersAreTheirs`), that the card is at the stage of its
newest one, so that there is one under way, and that a previous primary name is
remembered only with an order that has still to clear it, which it does once.

*Payments.* Transactions of one account wait in the order of their nonces
(`PoolOrdered`), so when a payment comes to the head its approval and commitment are
behind it. The hook's wait is no longer than the time its commitment has been under way
and on the chain (`WaitCovers`), and longer than the minimum age, so that only a
commitment included too late is too young. The allowance is the one given last until
its purchase pays (`AllowanceKept`).

*Primary names.* FlowsInv says of every name that is not excused that a clearing of its
address, under way or still to come, stands after a transaction that replaces it as the
primary name (`ClearedAfterReplaced`, `GivenUpAfterReplaced`), that a flow about to look
at an address has nothing before it that clears it (`CheckedAfterCleared`), and that a
name that is primary, or made so by a transaction under way, resolves to the account once
all that is under way is included, or is looked at by a flow, or is replaced
(`KeptOrReplaced`). Positions in the outbox are compared, so every step is a question of
how adding at its end or removing its head moves them.

*Lookups.* An age is bounded by what has passed since the reading: how long a request
has been under way, how long a body has been kept. The invariants say so of every stage,
and the promise about what is shown is the case of the last one. A list or a result
carries whom or what it was asked for, and a change of wallet, query or text leaves no
stage in which an older one is shown. NamesAgree is about all texts up to MaxText, for
any MaxText: what is trimmed, lowered and joined again is brought to the characters at
each place (`TrimOf`, `LowerOf`, `FlattenOfSingles`), by least counterexamples as above.

*Subgraphs.* A subgraph is behind by whole blocks, and while blocks wait nothing need be
true of its store, not even that a name it shows exists. The invariant is therefore about
the store there will be once they are indexed:

    IndexInv == ChainInv /\ \E s : Future("arcns", store, feed, s) /\ Follows(s[Len(feed)])

`Future` is the sequence of stores, the first one the present, each next one the fold of
the handlers over the next block. A transaction makes it one longer (`FutureExtends`), an
indexed block one shorter (`FutureStarts`) and its end stays where it is, so all that is
left is one lemma per transaction (`RenewFollows`, ..., `RegisterFollows`): the handlers,
folded over the block it emits, make a store that follows the chain before it into one that
follows it after. The fold of the library is a recursive function over sets of positions;
its three laws (`FoldOfNone`, `FoldOfOne`, `FoldOfTwo`) are proved once, by least
counterexamples. What one event does is a lemma of its own; what it leaves alone is
`OnlyOf` for a name of the first subgraph, and for BENS, where a transfer writes whatever
name holds the label's Registration, `Around`: the other names of the label keep their
expiry, and no more is promised of them. That the Registration of a label is of a registered
name of that label (`LabelFollows`) is what makes the promise true of the labels under one
TLD. (In the run both subgraphs index the same feed, so that each of
its steps is one of IndexSpec and one of BensSpec.) The counts are cardinalities, and a set of registered names is finite because it
started empty, whatever the set of names.

The main assumptions are: address(0) sends no transaction, contracts are not
accounts, the nodes of the TLDs and the names are part of the tree under study,
StartTime > GRACE, PREMIUM_DECAY_PERIOD <= GRACE, requests are well formed
(`RequestType`) and, for the race, INCLUSION < MIN_COMMITMENT_AGE, one customer
request per name, and copycats that are not customers; for the exchange, that the
clock begins after the first grace period and ends later; for the handover, that Safes,
deployer and timelock are different; for the pipeline, that a commitment is waited for
at least the minimum age and that a transaction is dropped before a commitment lapses;
for the payments, that the hook's wait is longer than the minimum age; for the cached
resolution, that the second level is kept no shorter than the first; for the subgraphs, that
names, accounts, resolver and what stands for none of them are told apart; for the campaign,
that the snapshots are finite sets of wallets, the finalized one and an earlier one
different. Where the bounds of the runs (`MaxClick`, `MaxCrash`, ...) are constants of a
module the theorems hold for all of them. TLC evaluates all the assumptions.

The types of registry, registrar, resolver and controller are theorems and no
longer part of the runs. Every safety property of a passing run is now stated by a
theorem. Only model-checked: the liveness properties (CustomerServed, FlowEnds,
HandoverCompletes, PauseIsLifted, ReverseIsRepaired: liveness under fairness is outside
the prover's reach); that the tree of the snapshot proves its own wallets, which
the artifact's generator checks at run time and the campaign's theorem takes from that
check; and that the four documented claims of section 6 fail.


## 5. Abstractions, bounds, fairness

- Hashes are injective: a node is its path, a commitment is the request hidden
  in it together with its sender, a Merkle root is its set of wallets.
- A reverting transaction is no step. Controllers and registrars are
  nonReentrant and mint without a callback (`_mint`, not `_safeMint`), so a
  transaction is atomic.
- USDC either moves in full or reverts; balances and allowances are not kept.
- One account holds all administrative roles, as at deployment.
- Time is scaled; only the order of the boundaries matters. Real values are 90
  days of grace, 28 days of premium, 28 days minimum duration, 60 seconds
  minimum and 24 hours maximum age of a commitment.
- `MaxTime` bounds the clock and `MaxExpiry` expiries (in the code, uint256).
  `Grantee`, `Operator`, `Trustee`, `Duration`, `Request`, `Limit`, `Managed`
  and the like bound what transactions are tried with; they appear in the
  next-state relations and nowhere in the effects.
- The premium decay period is assumed to be no longer than the grace period
  (`ControllerAssumption`), which the constants of the code satisfy.
- In the controller's module the label check `_validName` is a constant set of
  labels (`NameRules` has the rule), the tier of a label a constant.
- Off chain, an answer is what it was asked for and its age; amounts, names and
  addresses are members of small sets. A failing call is one that may fail at any
  time. A script that stops leaves what it has sent.
- Observers in the models of the client (`late`, `excused`, `kept`, `approvedFor`,
  ...) record what a property needs of the past; no guard of the code's steps reads
  them.
- `MaxClick`, `MaxOutside`, `MaxEdit`, `MaxCall`, `MaxCrash`, `MaxInterrupt`,
  `MaxMishap`, `MaxChange`, `MaxMove`, `MaxStroke`, `MaxSwitch`, `MaxTrade`, `MaxHeight` and
  the like bound how often users, operators and the network act. `MaxCrash` and
  `MaxInterrupt` are also what the liveness of the scripts rests on: an operator
  whose every run is stopped never finishes.

Fairness, where it is assumed and why:

- `RaceSpec`: WF of `IncludeSome`. The clock cannot pass the inclusion time of a
  waiting reveal, and the chain does not stop including reveals for ever. Nothing is
  assumed of copycats, of the clock, of the user, or of when a commitment is included.
- `PipelineFairness`: WF of the steps of every flow, of the chain settling
  transactions and of the clock: a JavaScript task whose await has ended runs, and time
  passes. The prompts, the simulation and the polls have a timeout (`withTimeout`, the
  deadlines of the loops); the awaits of `Unguarded` have none, and there a flow may
  `Hang` for ever, with the lock. FlowEnds says that nothing else keeps a flow. Nothing is
  assumed of the wallet or the user: what they may do is an alternative that a timeout
  ends.
- `AdminFairness`, `ReverseFairness`: WF of a started script's steps (it goes on or
  is stopped) and SF of starting the scripts that finish the procedure: the
  operator comes back to them whenever they can run, which scripts mixed in
  between may keep making impossible for a while. That is the operator's runbook, not
  scheduling; the properties say that coming back is enough.
- The exchange of the registrars, the subgraphs, the lookups and the campaign have
  safety properties only and no fairness.


## 6. Findings

1. *A burned name can be written again.* The comments of reclaim
   (`ArcNSBaseRegistrar.sol:205-206`) and of the registry
   (`ArcNSRegistry.sol:105-107`) say that burning a node locks it permanently.
   The registrar still owns the TLD node, so the holder's next reclaim writes it
   again, and so does the next registration (`BurnedName.cfg`).
   What does hold is proved: BurnedToRootIsFrozen.
2. *setReverseRecord changes node ownership.* The design decisions
   (`docs/audit/ARCNS_V3_INTENTIONAL_DESIGN_DECISIONS.md:46`) say that an
   unauthorised call changes only the name record. It goes through
   `_claimWithResolver` and rewrites owner, resolver and TTL of the reverse node
   (`ReverseOpenCall.cfg`). The forward direction is not affected
   (ResolutionMovesByAuthority).
3. *Names with an underscore cannot be resolved on the resolve page.* The design
   decisions (`docs/audit/ARCNS_V3_INTENTIONAL_DESIGN_DECISIONS.md:123`) and the
   comment of `_validName` (`ArcNSController.sol:645`) say that the frontend
   handles them. The page's rule, isValidLabel of `frontend/src/lib/domain.ts:123`,
   has no underscore (`Names.cfg`). What the rules agree about is NamesAgree.
4. *The primary name panel offers the names of the wallet before.* MyDomains
   (`frontend/src/components/MyDomains.tsx:163,175`) says that only a verified owned
   domain gets past its guard, and its successor
   (`frontend/src/components/PrimaryName.tsx:9`) that this logic is preserved. But
   PrimaryName does not look at the error of useMyDomains, which keeps the list of
   the wallet before when a load fails (`Selection.cfg`). The contract accepts such a
   name, which then does not resolve back. What does hold is the second part of
   OwnListShown: the selection is one of the list that is kept.

Behaviour that contradicts no document, but which the properties had to except and
a reader should know of:

- *Search accepts every character beyond ASCII*, the contract none
  (`lib/normalization.ts:145-158`), so unregistrable names are shown as available;
  text that is no name leaves the previous card and its timer (`SearchBar.tsx:63`).
- *The first primary name of an account is not indexed*: NameChanged comes before
  ReverseClaimed in the log (`indexer/src/resolver.ts:48`), and the registration's
  resolver events before NameRegistered, so they are passed over.
- *Two names of one label share a Registration* in the BENS subgraph.
- *An outage is cached as not found* for the cache's time by the address route.
- *Receipts are not looked at* by the live flows: a reverted setName goes on to
  setAddr, and a registration clears the previous primary name's address on its
  hash (`DomainCard.tsx:211`).
- *The reveal is sent unread*: after 62 seconds register() goes out whether or not the
  commitment is on chain and the name still free (`hooks/useRegistration.ts:195-256`); what
  was late reverts, and its name and request are public from then on.
- *A provider that never answers* leaves the earlier client's flow, and the lock of all
  flows, where it is (`useRegistrationPipeline.ts:920` and the other awaits without a
  timeout).
- *One allowance for all purchases*: a second purchase replaces or spends the
  approval of the first; 62 seconds from the submission of a commitment are not
  enough when its inclusion takes longer than two.
- *A card that shows another name shows the success of the one before*: it has no key
  (`app/app/page.tsx:204`), so it cannot register until "Register another".
- *A price that cannot be read counts as zero*: the purchase is begun at a quote of
  nothing and fails on the chain (`hooks/useAvailability.ts:128`).
- *A change of price undoes the opt-out of the discount* (`DomainCard.tsx:159`), and a
  card that goes away during a registration never clears the previous primary name.
- *A renewal in grace is refused by the page*: ownerOf reverts once a name has
  expired (`hooks/useRenew.ts:90`). *A primary name stays verified* after it has lapsed
  or been transferred, since only its address record is compared
  (`hooks/usePrimaryName.ts:135`).
- *A token moved between fence and switch* comes out with its previous holder.
- *An orphan keeps its role*: a stopped replacement of the reverse registrar leaves
  one more contract with CONTROLLER_ROLE, which no later run knows.
- *The second Safe batch before the first* freezes an earlier root for ever.
- *The wallet's list from the logs* shows names that were sent away, and a
  disconnect during a load leaves it loading.


## 7. What is not modelled, and the plan

Done, in this order: registry; registrar and NameLease; price oracle; discount
registry; resolver and reverse registrar; controller and race; proofs about them;
the operator's scripts; the subgraphs; client flows, lookups, name rules and
campaign; proofs about all of these.

Next:

1. *Proofs*: the title and authority properties of registrar and resolver restated for
   SystemSpec; that the tree proves every wallet of its snapshot.
2. *Transaction history* (`components/TransactionHistory.tsx`), which reads what the
   subgraph modules describe.
3. *Two procedures at once*: a handover while registrars are exchanged. The scripts
   are run by one operator, one at a time, and share no contract field but the pause.

Left out for good: ArcNSTimelock itself and the treasury of the previous version
(they add nothing to OpenZeppelin's contracts that has state of its own), tokenURI
and other layout, rendering, UUPS upgrades except as steps of the scripts, read-only
configuration checks and smoke tests, the checks of validateMigration that need a
forked chain, deployment I/O, safeTestTx's bypass mode, the helpers that no live code
calls (`lib/controllerIdentity.ts`, `lib/nameCache.ts`, the archived hooks other than the two modelled),
and the contracts version 3 replaces.
