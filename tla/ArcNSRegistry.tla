---------------------------- MODULE ArcNSRegistry ----------------------------
(***************************************************************************)
(* The ownership tree of ArcNS: contracts/v3/registry/ArcNSRegistry.sol.   *)
(*                                                                         *)
(* A node is the path of label hashes from the root to it, so              *)
(* keccak256(node, label) is Append(node, label): the tree is what the     *)
(* collision resistance of the hash gives.  A state change that contracts  *)
(* of the system compose inside one transaction is an operator from        *)
(* records to records (With...); a transaction sent to the registry itself *)
(* is an action.                                                           *)
(***************************************************************************)
EXTENDS Naturals, Sequences

CONSTANTS
    Address,       \* the non-zero addresses: accounts and contracts
    Zero,          \* address(0)
    Account,       \* the addresses that send transactions of their own will
    Deployer,      \* msg.sender of the constructor
    Grantee,       \* the addresses transactions give nodes to (a bound)
    Operator,      \* the addresses transactions approve as operators (a bound)
    ResolverAddr,  \* the resolver addresses written into records
    TTL,           \* the TTL values written into records
    Label,         \* label hashes
    Nodes          \* the part of the tree under study (a bound)

ASSUME RegistryAssumption ==
    /\ Zero \notin Address
    /\ Account \subseteq Address
    /\ Deployer \in Address
    /\ Grantee \cup Operator \subseteq Address \cup {Zero}
    /\ ResolverAddr \subseteq Address
    /\ 0 \in TTL
    /\ Nodes \subseteq Seq(Label)
    /\ << >> \in Nodes

VARIABLES
    records,       \* node -> owner, resolver and TTL
    operators,     \* owner -> the operators approved for all its nodes
    sender         \* observer: msg.sender of the last transaction

registryVars == <<records, operators>>

Owner == Address \cup {Zero}
Root == << >>

Record == [owner : Owner, resolver : ResolverAddr \cup {Zero}, ttl : TTL]
NoRecord == [owner |-> Zero, resolver |-> Zero, ttl |-> 0]

RegistryTypeOK ==
    /\ records \in [Nodes -> Record]
    /\ operators \in [Owner -> SUBSET Owner]
    /\ sender \in Owner

------------------------------------------------------------------------------
(***************************************************************************)
(* State transformers.                                                     *)
(***************************************************************************)
WithOwner(recs, node, o) == [recs EXCEPT ![node].owner = o]

WithRecord(recs, node, o, res, t) ==
    [recs EXCEPT ![node] = [owner |-> o, resolver |-> res, ttl |-> t]]

WithSubnodeOwner(recs, node, label, o) ==
    WithOwner(recs, Append(node, label), o)

WithSubnodeRecord(recs, node, label, o, res, t) ==
    WithRecord(recs, Append(node, label), o, res, t)

\* Fault: the mapping of operators read with its keys exchanged.
AuthorisedExchanged(s, node) ==
    \/ records[node].owner = s
    \/ records[node].owner \in operators[s]

\* The modifier authorised(node): the owner or an operator of the owner.
Authorised(s, node) ==
    \/ records[node].owner = s
    \/ s \in operators[records[node].owner]

------------------------------------------------------------------------------
(***************************************************************************)
(* Transactions.  s is msg.sender.                                         *)
(***************************************************************************)
SetRecord(s, node, o, res, t) ==
    /\ Authorised(s, node)
    /\ records' = WithRecord(records, node, o, res, t)
    /\ UNCHANGED operators

SetSubnodeRecord(s, node, label, o, res, t) ==
    /\ Append(node, label) \in Nodes
    /\ Authorised(s, node)
    /\ records' = WithSubnodeRecord(records, node, label, o, res, t)
    /\ UNCHANGED operators

SetSubnodeOwner(s, node, label, o) ==
    /\ Append(node, label) \in Nodes
    /\ Authorised(s, node)
    /\ records' = WithSubnodeOwner(records, node, label, o)
    /\ UNCHANGED operators

SetResolver(s, node, res) ==
    /\ Authorised(s, node)
    /\ records' = [records EXCEPT ![node].resolver = res]
    /\ UNCHANGED operators

SetOwner(s, node, o) ==
    /\ Authorised(s, node)
    /\ records' = WithOwner(records, node, o)
    /\ UNCHANGED operators

SetTTL(s, node, t) ==
    /\ Authorised(s, node)
    /\ records' = [records EXCEPT ![node].ttl = t]
    /\ UNCHANGED operators

\* Fault: the approval stored under the operator.
SetApprovalForAllExchanged(s, operator, approved) ==
    /\ operators' = [operators EXCEPT ![operator] =
                        IF approved THEN @ \cup {s} ELSE @ \ {s}]
    /\ UNCHANGED records

\* An operator may be any address, 0 included.
SetApprovalForAll(s, operator, approved) ==
    /\ operators' = [operators EXCEPT ![s] =
                        IF approved THEN @ \cup {operator} ELSE @ \ {operator}]
    /\ UNCHANGED records

RegistryInit ==
    /\ records = [n \in Nodes |->
                    IF n = Root THEN [NoRecord EXCEPT !.owner = Deployer]
                                ELSE NoRecord]
    /\ operators = [o \in Owner |-> {}]
    /\ sender = Zero

\* Whatever an account may send to the registry.  Approving oneself changes
\* no authority and is left out.
RegistryTx(s) ==
    /\ sender' = s
    /\ \/ \E n \in Nodes, o \in Grantee, r \in ResolverAddr \cup {Zero}, t \in TTL :
            SetRecord(s, n, o, r, t)
       \/ \E n \in Nodes, l \in Label, o \in Grantee,
             r \in ResolverAddr \cup {Zero}, t \in TTL :
            SetSubnodeRecord(s, n, l, o, r, t)
       \/ \E n \in Nodes, l \in Label, o \in Grantee : SetSubnodeOwner(s, n, l, o)
       \/ \E n \in Nodes, r \in ResolverAddr \cup {Zero} : SetResolver(s, n, r)
       \/ \E n \in Nodes, o \in Grantee : SetOwner(s, n, o)
       \/ \E n \in Nodes, t \in TTL : SetTTL(s, n, t)
       \/ \E a \in Operator \ {s}, ok \in BOOLEAN : SetApprovalForAll(s, a, ok)

RegistryNext == \E s \in Account : RegistryTx(s)

RegistrySpec == RegistryInit /\ [][RegistryNext]_<<registryVars, sender>>

------------------------------------------------------------------------------
(***************************************************************************)
(* Properties.                                                             *)
(***************************************************************************)

\* The node itself and the nodes it hangs from.
Above(n) == {SubSeq(n, 1, k) : k \in 0..Len(n)} \cap Nodes

\* The accounts with no authority over a node nor over any node above it.
Outsiders(n) == {s \in Account : \A m \in Above(n) : ~Authorised(s, m)}

\* Authority over a node is only ever handed down by somebody who has it: a
\* transaction of an outsider of a node leaves that node's record as it is
\* and turns no outsider of the node into an insider (the authorised
\* modifier against every writer, setApprovalForAll included).
NoEscalation ==
    [][\A n \in Nodes : sender' \in Outsiders(n) =>
            /\ records'[n] = records[n]
            /\ Outsiders(n) \subseteq Outsiders(n)']_<<registryVars, sender>>

\* A node burned together with everything above it.
BurnedToRoot(n) == \A m \in Above(n) : records[m].owner = Zero

\* What burning (owner = address(0)) does guarantee: once no node above is
\* owned either, nobody can write the node again.
BurnedToRootIsFrozen ==
    [][\A n \in Nodes : BurnedToRoot(n) => records'[n] = records[n]
      ]_<<registryVars, sender>>

\* address(0) never approves anybody, so a burned node has no operators.
ZeroHasNoOperators == operators[Zero] = {}
==============================================================================
