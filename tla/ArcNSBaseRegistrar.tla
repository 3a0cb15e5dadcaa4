-------------------------- MODULE ArcNSBaseRegistrar --------------------------
(***************************************************************************)
(* The registrars of the TLDs: ArcNSBaseRegistrarV2 on top of              *)
(* ArcNSBaseRegistrar (contracts/v3/registrar), each of them an ERC-721    *)
(* token, an expiry per name, and the owner of its TLD node in the         *)
(* registry.                                                               *)
(*                                                                         *)
(* A name is the node <<tld, label>>.  Controllers are contracts: here     *)
(* they call with any arguments; ArcNSController composes the real one.    *)
(* Time is scaled: what matters is the order of the boundaries.            *)
(***************************************************************************)
EXTENDS ArcNSRegistry

CONSTANTS
    TLD,             \* the labels of the top-level domains
    SLD,             \* the labels of second-level names
    RegistrarOf,     \* TLD -> address of its registrar
    ControllerAddr,  \* the controller contracts
    Admin,           \* owner (Ownable) of the registrars
    GRACE,           \* GRACE_PERIOD
    StartTime,       \* block.timestamp of the deployment
    MaxTime,         \* bound on block.timestamp
    MaxExpiry,       \* bound on expiries
    Duration,        \* the durations controllers pass on (a bound)
    SeedExpiry       \* the expiries of the constructor's seeds (a bound)

Name == TLD \X SLD

ASSUME RegistrarAssumption ==
    /\ Name \subseteq Nodes
    /\ \A tld \in TLD : <<tld>> \in Nodes
    /\ RegistrarOf \in [TLD -> Address \ Account]
    /\ ControllerAddr \subseteq Address \ Account
    /\ Admin \in Address
    /\ GRACE \in Nat
    /\ StartTime \in Nat /\ StartTime > GRACE
    /\ MaxTime \in Nat /\ MaxExpiry \in Nat
    /\ Duration \subseteq Nat
    /\ SeedExpiry \subseteq Nat \ {0}

VARIABLES
    now,           \* block.timestamp
    expires,       \* nameExpires
    nft,           \* ERC-721 owner of the name's token, Zero if not minted
    approved,      \* ERC-721 approved address of the token
    nftOperators,  \* tld -> owner -> ERC-721 operators of the owner
    controllers,   \* tld -> the approved controllers
    labelled       \* the names whose plaintext label is stored (_labels)

tokenVars == <<expires, nft, approved, labelled>>
registrarVars == <<tokenVars, nftOperators, controllers>>
systemVars == <<registryVars, registrarVars, now, sender>>

RegistrarTypeOK ==
    /\ RegistryTypeOK
    /\ now \in Nat
    /\ expires \in [Name -> Nat]
    /\ nft \in [Name -> Owner]
    /\ approved \in [Name -> Owner]
    /\ nftOperators \in [TLD -> [Owner -> SUBSET Owner]]
    /\ controllers \in [TLD -> SUBSET ControllerAddr]
    /\ labelled \subseteq Name

------------------------------------------------------------------------------
(***************************************************************************)
(* Guards and effects shared with the controllers.                         *)
(***************************************************************************)
\* The modifier live: the registrar still owns its TLD node.
Live(tld) == records[<<tld>>].owner = RegistrarOf[tld]

\* Fault: a name is free as soon as it has expired.
AvailableAtExpiry(n) == expires[n] < now

Available(n) == expires[n] + GRACE < now

\* ERC-721 _isAuthorized for the token's owner.
TokenAuthorised(s, n) ==
    \/ nft[n] = s
    \/ s \in nftOperators[n[1]][nft[n]]
    \/ approved[n] = s

\* _update of the token: the owner changes, the approval is cleared.
MoveToken(n, to) ==
    /\ nft' = [nft EXCEPT ![n] = to]
    /\ approved' = [approved EXCEPT ![n] = Zero]

\* Fault: the entry point of V1, which stores no label.
EnrollUnlabelled(n, o, duration) ==
    /\ Available(n)
    /\ o # Zero
    /\ now + duration <= MaxExpiry
    /\ expires' = [expires EXCEPT ![n] = now + duration]
    /\ MoveToken(n, o)
    /\ UNCHANGED labelled

\* _registerLabel up to its call to the registry: label, expiry, and the
\* token minted or taken over.  Neither _mint nor _transfer accepts 0.
Enroll(n, o, duration) ==
    /\ Available(n)
    /\ o # Zero
    /\ now + duration <= MaxExpiry
    /\ labelled' = labelled \cup {n}
    /\ expires' = [expires EXCEPT ![n] = now + duration]
    /\ MoveToken(n, o)

\* Fault: a node that already has an owner is left alone.
EnrolledNodeOnce(recs, n, o) ==
    IF recs[n].owner = Zero THEN WithSubnodeOwner(recs, <<n[1]>>, n[2], o) ELSE recs

\* The registry write of registerWithLabel keeps the record's resolver and
\* TTL; that of registerWithResolverAndLabel sets them.
EnrolledNode(recs, n, o) == WithSubnodeOwner(recs, <<n[1]>>, n[2], o)
EnrolledRecord(recs, n, o, res) ==
    WithSubnodeRecord(recs, <<n[1]>>, n[2], o, res, 0)

\* Fault: a lapsed name is renewed from today on.
ExtendFromToday(n, duration) ==
    LET from == IF expires[n] < now THEN now ELSE expires[n] IN
    /\ expires[n] + GRACE >= now
    /\ from + duration <= MaxExpiry
    /\ expires' = [expires EXCEPT ![n] = from + duration]

\* Fault: no check of the grace period.
ExtendAnyTime(n, duration) ==
    /\ expires[n] + duration <= MaxExpiry
    /\ expires' = [expires EXCEPT ![n] = expires[n] + duration]

\* renew of the registrar.
Extend(n, duration) ==
    /\ expires[n] + GRACE >= now
    /\ expires[n] + duration <= MaxExpiry
    /\ expires' = [expires EXCEPT ![n] = expires[n] + duration]

\* Fault: the modifier live is missing.
OnlyControllerEvenRetired(c, n) == c \in controllers[n[1]]

OnlyController(c, n) == Live(n[1]) /\ c \in controllers[n[1]]

------------------------------------------------------------------------------
(***************************************************************************)
(* Calls of controllers.                                                   *)
(***************************************************************************)
RegisterWithLabel(c, n, o, duration) ==
    /\ OnlyController(c, n)
    /\ Enroll(n, o, duration)
    /\ records' = EnrolledNode(records, n, o)
    /\ UNCHANGED <<operators, nftOperators, controllers>>

RegisterWithResolverAndLabel(c, n, o, duration, res) ==
    /\ OnlyController(c, n)
    /\ Enroll(n, o, duration)
    /\ records' = EnrolledRecord(records, n, o, res)
    /\ UNCHANGED <<operators, nftOperators, controllers>>

RenewName(c, n, duration) ==
    /\ OnlyController(c, n)
    /\ Extend(n, duration)
    /\ UNCHANGED <<registryVars, nft, approved, labelled, nftOperators,
                   controllers>>

------------------------------------------------------------------------------
(***************************************************************************)
(* Transactions of accounts.                                               *)
(***************************************************************************)
\* Fault: the holder is not asked.
ReclaimByAnybody(s, n, o) ==
    /\ Live(n[1])
    /\ records' = WithSubnodeOwner(records, <<n[1]>>, n[2], o)
    /\ UNCHANGED <<operators, registrarVars>>

Reclaim(s, n, o) ==
    /\ Live(n[1])
    /\ TokenAuthorised(s, n)
    /\ records' = WithSubnodeOwner(records, <<n[1]>>, n[2], o)
    /\ UNCHANGED <<operators, registrarVars>>

\* transferFrom; it asks _ownerOf, so expiry does not matter.
TransferFrom(s, n, to) ==
    /\ to # Zero
    /\ nft[n] # Zero
    /\ TokenAuthorised(s, n)
    /\ MoveToken(n, to)
    /\ UNCHANGED <<registryVars, expires, labelled, nftOperators, controllers>>

\* approve; the approved address itself may not pass the approval on.
Approve(s, n, to) ==
    /\ nft[n] # Zero
    /\ s = nft[n] \/ s \in nftOperators[n[1]][nft[n]]
    /\ approved' = [approved EXCEPT ![n] = to]
    /\ UNCHANGED <<registryVars, expires, nft, labelled, nftOperators,
                   controllers>>

\* setApprovalForAll of the token, which rejects the zero operator.
SetTokenOperator(s, tld, operator, ok) ==
    /\ operator # Zero
    /\ nftOperators' = [nftOperators EXCEPT ![tld][s] =
                           IF ok THEN @ \cup {operator} ELSE @ \ {operator}]
    /\ UNCHANGED <<registryVars, tokenVars, controllers>>

AddController(s, tld, c) ==
    /\ s = Admin
    /\ controllers' = [controllers EXCEPT ![tld] = @ \cup {c}]
    /\ UNCHANGED <<registryVars, tokenVars, nftOperators>>

RemoveController(s, tld, c) ==
    /\ s = Admin
    /\ controllers' = [controllers EXCEPT ![tld] = @ \ {c}]
    /\ UNCHANGED <<registryVars, tokenVars, nftOperators>>

------------------------------------------------------------------------------
\* The deployed system: the root belongs to the deployer, each TLD node to
\* its registrar.  The constructor of ArcNSBaseRegistrarV2 may seed names
\* that are not past their grace period, whose nodes were written through
\* the registrar it replaces: here their owners hold node and token.
DeployedOwner(n) ==
    IF n = Root THEN Deployer
    ELSE IF Len(n) = 1 /\ n[1] \in TLD THEN RegistrarOf[n[1]]
    ELSE IF n \in Name THEN nft[n]
    ELSE Zero

TokensInit ==
    /\ now = StartTime
    /\ nft \in [Name -> Grantee]
    /\ expires \in [Name -> SeedExpiry \cup {0}]
    /\ \A n \in Name : IF nft[n] = Zero THEN expires[n] = 0
                                        ELSE expires[n] + GRACE >= now
    /\ labelled = {n \in Name : nft[n] # Zero}
    /\ approved = [n \in Name |-> Zero]
    /\ nftOperators = [tld \in TLD |-> [o \in Owner |-> {}]]
    /\ operators = [o \in Owner |-> {}]
    /\ sender = Zero

RegistrarInit ==
    /\ TokensInit
    /\ controllers = [tld \in TLD |-> {}]
    /\ records = [n \in Nodes |-> [NoRecord EXCEPT !.owner = DeployedOwner(n)]]

\* Time passes between blocks; transactions of one block share a timestamp.
Tick ==
    /\ now < MaxTime
    /\ now' = now + 1
    /\ sender' = Zero
    /\ UNCHANGED <<registryVars, registrarVars>>

\* A controller calls a registrar.
ControllerCall(c) ==
    /\ sender' = c
    /\ UNCHANGED now
    /\ \E n \in Name, d \in Duration :
          \/ \E o \in Grantee : RegisterWithLabel(c, n, o, d)
          \/ \E o \in Grantee, r \in ResolverAddr :
                RegisterWithResolverAndLabel(c, n, o, d, r)
          \/ RenewName(c, n, d)

\* An account calls a registrar.
RegistrarTx(s) ==
    /\ sender' = s
    /\ UNCHANGED now
    /\ \/ \E n \in Name, o \in Grantee :
            Reclaim(s, n, o) \/ TransferFrom(s, n, o) \/ Approve(s, n, o)
       \/ \E tld \in TLD, a \in Operator \ {s}, ok \in BOOLEAN :
            SetTokenOperator(s, tld, a, ok)
       \/ \E tld \in TLD, c \in ControllerAddr :
            AddController(s, tld, c) \/ RemoveController(s, tld, c)

RegistrarNext ==
    \/ \E c \in ControllerAddr : ControllerCall(c)
    \/ \E s \in Account : RegistrarTx(s)
    \/ \E s \in Account : RegistryTx(s) /\ UNCHANGED <<registrarVars, now>>
    \/ Tick

RegistrarSpec == RegistrarInit /\ [][RegistrarNext]_systemVars

------------------------------------------------------------------------------
(***************************************************************************)
(* Properties.                                                             *)
(***************************************************************************)

\* A name is minted, has an expiry and has its label stored together or not
\* at all (tokenURI of a minted name cannot revert with LabelRequired), and
\* only a minted token is approved to somebody.
MintedCoherent ==
    \A n \in Name :
        /\ nft[n] # Zero <=> expires[n] # 0
        /\ nft[n] # Zero <=> n \in labelled
        /\ nft[n] = Zero => approved[n] = Zero

\* s may speak for the name: through the token, through the registry, or as
\* a controller when the name is free for registration.
Entitled(s, n) ==
    \/ TokenAuthorised(s, n)
    \/ Authorised(s, n)
    \/ Available(n) /\ s \in controllers[n[1]]

\* While the registrar holds its TLD node, a name's registry node and its
\* token change hands only by somebody entitled to it; the token in
\* particular never by an address that owns the registry node only.  The
\* two ownership surfaces diverge (reclaim, transferFrom and setOwner move
\* one of them), but no mixture of the three lets in a third party.
OnlyEntitledMove ==
    [][\A n \in Name : Live(n[1]) /\ Live(n[1])' =>
         /\ records'[n] # records[n] => Entitled(sender', n)
         /\ nft'[n] # nft[n] =>
                \/ TokenAuthorised(sender', n)
                \/ Available(n) /\ sender' \in controllers[n[1]]]_systemVars

\* A new tenure starts clean: after a token has changed hands nobody acts for
\* it but its new holder and the operators that holder has approved, and
\* after a lapsed name is registered the same goes for the registry node;
\* nothing the previous holder approved or wrote is left (_registerLabel, with
\* the _transfer inside it, even when the holder is the same as before).
Granted(n) == Available(n) /\ expires'[n] # expires[n]
CleanTitle ==
    [][\A n \in Name, s \in Address : nft'[n] # nft[n] \/ Granted(n) =>
         /\ TokenAuthorised(s, n)' =>
                s = nft'[n] \/ s \in nftOperators'[n[1]][nft'[n]]
         /\ Granted(n) /\ Authorised(s, n)' =>
                s = nft'[n] \/ s \in operators'[nft'[n]]]_systemVars

\* A registrar without its TLD node is inert: it neither registers, nor
\* renews, nor writes the registry (the live modifier, on which the switch
\* to a new registrar relies); the tokens it has minted can still be moved.
InertWithoutTLD ==
    [][\A n \in Name : ~Live(n[1]) =>
         /\ UNCHANGED expires[n]
         /\ records'[n] # records[n] =>
               Authorised(sender', n) \/ Authorised(sender', <<n[1]>>)]_systemVars

\* The claim at reclaim (ArcNSBaseRegistrar.sol): reclaim(id, address(0))
\* "permanently locks the node" while the holder keeps the token.
BurnedNameIsLocked ==
    [][\A n \in Name : nft[n] # Zero /\ records[n].owner = Zero
            => records'[n] = records[n]]_systemVars

\* The registrar keeps the promises of NameLease.
AbstractLease == INSTANCE NameLease WITH
    Lease <- Name, Holder <- Address, Nobody <- Zero,
    Term <- Duration, Start <- StartTime,
    holder <- nft, until <- expires, time <- now

ImplementsLease == AbstractLease!LeaseSpec
==============================================================================
