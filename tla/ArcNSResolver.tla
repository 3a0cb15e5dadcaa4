---------------------------- MODULE ArcNSResolver ----------------------------
(***************************************************************************)
(* Resolution on top of the ownership tree, in both directions:            *)
(* contracts/v3/resolver/ArcNSResolver.sol (address and name records) and  *)
(* contracts/v3/registrar/ArcNSReverseRegistrar.sol, the owner of          *)
(* addr.reverse, which hands every address its reverse node.               *)
(*                                                                         *)
(* The hash of an address in hexadecimal is the address itself, taken as a *)
(* label; a name string is the node it normalises to, and the empty string *)
(* is the root.                                                            *)
(***************************************************************************)
EXTENDS ArcNSRegistry

CONSTANTS
    Resolver,           \* the deployed resolver proxies
    ReverseRegistrar,   \* the deployed reverse registrars
    ADDR_REVERSE_NODE,  \* addr.reverse
    ResolverAdmin,      \* holder of ADMIN_ROLE, Ownable owner of the registrars
    Trustee,            \* the addresses CONTROLLER_ROLE is granted to (a bound)
    PrimaryName,        \* the second-level names set as primary names (a bound)
    Recorded            \* the nodes setAddr is called for (a bound)

Named == {a \in Account : Append(ADDR_REVERSE_NODE, a) \in Nodes}

ASSUME ResolverAssumption ==
    /\ Resolver \subseteq ResolverAddr \ Account
    /\ ReverseRegistrar \subseteq Address \ Account
    /\ ADDR_REVERSE_NODE \in Nodes
    /\ Len(ADDR_REVERSE_NODE) = 2
    /\ Account \subseteq Label
    /\ ResolverAdmin \in Address
    /\ Trustee \subseteq Address
    /\ PrimaryName \cup Recorded \subseteq Nodes
    /\ \A n \in PrimaryName : Len(n) = 2

VARIABLES
    addrs,            \* resolver -> node -> address record, Zero if unset
    names,            \* resolver -> node -> name record
    trusted,          \* resolver -> holders of CONTROLLER_ROLE
    defaultResolver   \* reverse registrar -> resolver of reverse records

resolverVars == <<addrs, names, trusted, defaultResolver>>

ResolverTypeOK ==
    /\ RegistryTypeOK
    /\ addrs \in [Resolver -> [Nodes -> Owner]]
    /\ names \in [Resolver -> [Nodes -> Nodes]]
    /\ trusted \in [Resolver -> SUBSET Address]
    /\ defaultResolver \in [ReverseRegistrar -> Resolver]

------------------------------------------------------------------------------
(***************************************************************************)
(* Guards and effects shared with the controllers.  recs is the registry   *)
(* at the moment of the call, which may be in the middle of a transaction. *)
(***************************************************************************)
\* Fault: isApprovedForAll asked with its arguments exchanged.
AuthorisedInExchanged(recs, s, node) ==
    recs[node].owner = s \/ recs[node].owner \in operators[s]

AuthorisedIn(recs, s, node) ==
    recs[node].owner = s \/ s \in operators[recs[node].owner]

\* The modifier authorised of the resolver.
MayWriteRecord(recs, s, r, node) ==
    AuthorisedIn(recs, s, node) \/ s \in trusted[r]

WithAddr(r, node, a) == [addrs EXCEPT ![r][node] = a]

ReverseNode(a) == Append(ADDR_REVERSE_NODE, a)

\* _claimWithResolver.
WithClaim(recs, a, o, r) ==
    WithSubnodeRecord(recs, ADDR_REVERSE_NODE, a, o, r, 0)

CanClaim(recs, rr) == AuthorisedIn(recs, rr, ADDR_REVERSE_NODE)

\* setReverseRecord as a whole succeeds, and what it writes.
CanSetReverse(recs, rr, a) ==
    /\ a \in Named
    /\ CanClaim(recs, rr)
    /\ rr \in trusted[defaultResolver[rr]]

\* Fault: the node is claimed without its resolver.
WithReverseOwner(recs, rr, a) == WithSubnodeOwner(recs, ADDR_REVERSE_NODE, a, a)

WithReverseRecord(recs, rr, a) == WithClaim(recs, a, a, defaultResolver[rr])
WithReverseName(rr, a, name) ==
    [names EXCEPT ![defaultResolver[rr]][ReverseNode(a)] = name]

------------------------------------------------------------------------------
(***************************************************************************)
(* Transactions.  s is msg.sender.                                         *)
(***************************************************************************)
SetAddr(s, r, node, a) ==
    /\ MayWriteRecord(records, s, r, node)
    /\ addrs' = WithAddr(r, node, a)
    /\ UNCHANGED <<registryVars, names, trusted, defaultResolver>>

\* setName of the resolver.
SetNameRecord(s, r, node, name) ==
    /\ s \in trusted[r]
    /\ names' = [names EXCEPT ![r][node] = name]
    /\ UNCHANGED <<registryVars, addrs, trusted, defaultResolver>>

SetController(s, r, c, isTrusted) ==
    /\ s = ResolverAdmin
    /\ trusted' = [trusted EXCEPT ![r] = IF isTrusted THEN @ \cup {c} ELSE @ \ {c}]
    /\ UNCHANGED <<registryVars, addrs, names, defaultResolver>>

\* Sent by anybody, for anybody's address.
SetReverseRecord(s, rr, a, name) ==
    /\ CanSetReverse(records, rr, a)
    /\ records' = WithReverseRecord(records, rr, a)
    /\ names' = WithReverseName(rr, a, name)
    /\ UNCHANGED <<operators, addrs, trusted, defaultResolver>>

\* setName of the reverse registrar.
SetPrimaryName(s, rr, name) == SetReverseRecord(s, rr, s, name)

\* Fault: open to every caller, as setReverseRecord is.
ClaimByAnybody(s, rr, a, o, r) ==
    /\ a \in Named
    /\ CanClaim(records, rr)
    /\ records' = WithClaim(records, a, o, r)
    /\ UNCHANGED <<operators, resolverVars>>

ClaimWithResolver(s, rr, a, o, r) ==
    /\ a \in Named
    /\ s = a \/ s = records[ReverseNode(a)].owner
    /\ CanClaim(records, rr)
    /\ records' = WithClaim(records, a, o, r)
    /\ UNCHANGED <<operators, resolverVars>>

SetDefaultResolver(s, rr, r) ==
    /\ s = ResolverAdmin
    /\ defaultResolver' = [defaultResolver EXCEPT ![rr] = r]
    /\ UNCHANGED <<registryVars, addrs, names, trusted>>

------------------------------------------------------------------------------
\* The deployed system: the reverse registrar owns addr.reverse and may
\* write name records; nothing is resolved yet.
ResolverRecordsInit ==
    /\ addrs = [r \in Resolver |-> [n \in Nodes |-> Zero]]
    /\ names = [r \in Resolver |-> [n \in Nodes |-> Root]]
    /\ trusted = [r \in Resolver |-> ReverseRegistrar]
    /\ defaultResolver \in [ReverseRegistrar -> Resolver]

ResolverInit ==
    /\ sender = Zero
    /\ operators = [o \in Owner |-> {}]
    /\ \E rr \in ReverseRegistrar, holder \in [PrimaryName -> Grantee] :
          records = [n \in Nodes |-> [NoRecord EXCEPT !.owner =
                        IF n = Root THEN Deployer
                        ELSE IF n = ADDR_REVERSE_NODE THEN rr
                        ELSE IF n \in PrimaryName THEN holder[n]
                        ELSE Zero]]
    /\ ResolverRecordsInit

\* Whatever an account may send to a resolver or a reverse registrar.  Name
\* records are read at reverse nodes only.
ResolverTx(s) ==
    /\ sender' = s
    /\ \/ \E r \in Resolver, n \in Recorded, a \in Grantee : SetAddr(s, r, n, a)
       \/ \E r \in Resolver, a \in Named, m \in PrimaryName :
             SetNameRecord(s, r, ReverseNode(a), m)
       \/ \E r \in Resolver, c \in Trustee, ok \in BOOLEAN : SetController(s, r, c, ok)
       \/ \E rr \in ReverseRegistrar, a \in Named, m \in PrimaryName :
             SetReverseRecord(s, rr, a, m)
       \/ \E rr \in ReverseRegistrar, m \in PrimaryName : SetPrimaryName(s, rr, m)
       \/ \E rr \in ReverseRegistrar, a \in Named, o \in Grantee,
             r \in ResolverAddr \cup {Zero} : ClaimWithResolver(s, rr, a, o, r)
       \/ \E rr \in ReverseRegistrar, r \in Resolver : SetDefaultResolver(s, rr, r)

ResolverNext ==
    \E s \in Account :
       \/ ResolverTx(s)
       \/ RegistryTx(s) /\ UNCHANGED resolverVars

ResolverSpec == ResolverInit /\ [][ResolverNext]_<<registryVars, resolverVars, sender>>

------------------------------------------------------------------------------
(***************************************************************************)
(* Properties.                                                             *)
(***************************************************************************)

\* Forward resolution: the registry names the resolver, the resolver the address.
Resolve(n) ==
    LET r == records[n].resolver IN IF r \in Resolver THEN addrs[r][n] ELSE Zero

\* The holders of CONTROLLER_ROLE on some resolver.
Trusted == UNION {trusted[r] : r \in Resolver}

\* What a name resolves to changes only by somebody with authority over the
\* name or a node above it, or by a holder of CONTROLLER_ROLE: none of the
\* calls open to everybody (setReverseRecord, setName, claimWithResolver)
\* and no operator of somebody else reaches the forward direction.
ResolutionMovesByAuthority ==
    [][\A n \in PrimaryName : Resolve(n)' # Resolve(n) =>
          sender' \notin Outsiders(n) \/ sender' \in Trusted
      ]_<<registryVars, resolverVars, sender>>

\* A name record the reverse registrar writes is the one a reader finds: the
\* registry points the reverse node at the resolver it was written to, and
\* the node belongs to the address, whatever the default resolver was before.
WrittenNameIsReadable ==
    [][\A r \in Resolver, a \in Named :
          names'[r][ReverseNode(a)] # names[r][ReverseNode(a)] /\ sender' \notin Trusted
             => records'[ReverseNode(a)].resolver = r /\ records'[ReverseNode(a)].owner = a
      ]_<<registryVars, resolverVars, sender>>

\* Nobody takes over the reverse node of another address: its owner changes
\* only to that address itself, or by that address, or by somebody with
\* authority over the node.
ReverseNodeStaysHome ==
    [][\A a \in Named :
          LET rn == ReverseNode(a) IN
          records'[rn].owner # records[rn].owner =>
             records'[rn].owner = a \/ sender' = a \/ sender' \notin Outsiders(rn)
      ]_<<registryVars, resolverVars, sender>>

\* The claim of ARCNS_V3_INTENTIONAL_DESIGN_DECISIONS.md on setReverseRecord:
\* called by an unauthorised address it "does not change NFT ownership,
\* registry node ownership, or the addr record", whoever the address has
\* made the owner of its reverse node.
OpenCallKeepsNodeOwner ==
    [][\A a \in Named :
          LET rn == ReverseNode(a) IN
          sender' # a /\ sender' \in Outsiders(rn) /\ records[rn].owner # Zero
             => records'[rn].owner = records[rn].owner
      ]_<<registryVars, resolverVars, sender>>
==============================================================================
