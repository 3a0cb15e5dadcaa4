------------------------------ MODULE ChainEvents ------------------------------
(***************************************************************************)
(* What a subgraph sees of the contracts: the transactions that touch a  *)
(* name or a primary name, and the events each of them emits, in the order *)
(* of the log.  The order matters: an event about a node can come before   *)
(* the one that makes the subgraph know the node.                          *)
(***************************************************************************)
EXTENDS Naturals, Sequences

CONSTANTS
    Label, TLD, Account,
    Resolver,        \* the public resolver
    Zero,            \* address(0), and whatever has not been written
    Empty,           \* the empty name
    Unset,           \* in a subgraph: a field not written to; of a reader: no answer
    MaxLag,          \* bound: blocks the subgraph may be behind
    MaxHeight        \* bound: transactions

Name == Label \X TLD

\* A name, an account and what stands for neither are told apart.
ASSUME ChainAssumption ==
    /\ Zero \notin Account \cup {Resolver} /\ Resolver \notin Account
    /\ Name \cap (Account \cup {Zero, Unset}) = {}
    /\ Unset \notin Account \cup {Resolver, Empty} /\ Zero # Empty
    /\ "addr.reverse" \notin TLD
    /\ MaxLag \in Nat \ {0} /\ MaxHeight \in Nat

VARIABLES
    tokenOwner,      \* ERC-721 owner of each name
    nodeOwner,       \* registry.owner(node)
    resolverOf,      \* registry.resolver(node)
    addrOf,          \* resolver.addr(node)
    term,            \* nameExpires, counted in the times it has been set
    lapsed,          \* the name's grace period is over
    primary,         \* resolver.name(reverse node): a name, Empty, or Zero: never written
    namings,         \* how often it has been written, up to 2
    feed,            \* the blocks the subgraph has still to index
    height           \* transactions so far

nameVars  == <<tokenOwner, nodeOwner, resolverOf, addrOf, term, lapsed, primary, namings>>
eventVars == <<nameVars, feed, height>>

ChainInit ==
    /\ tokenOwner = [n \in Name |-> Zero] /\ nodeOwner = tokenOwner /\ resolverOf = tokenOwner
    /\ addrOf = tokenOwner /\ term = [n \in Name |-> 0]
    /\ lapsed = [n \in Name |-> FALSE]
    /\ primary = [a \in Account |-> Zero] /\ namings = [a \in Account |-> 0]
    /\ height = 0
    /\ feed = <<>>

\* Every event as one shape of record; from and value are Zero where it has none.
Event(kind, on, from, value) == [kind |-> kind, on |-> on, from |-> from, value |-> value]

Emit(block) ==
    /\ height < MaxHeight /\ height' = height + 1
    /\ Len(feed) < MaxLag /\ feed' = Append(feed, block)

\* setReverseRecord and setName: the name is written before the claim is announced.
NamingEvents(a, n) ==
    <<Event("NodeTransfer", a, Zero, a)>>
    \o (IF primary[a] = Zero THEN <<Event("NewResolver", a, Zero, Resolver)>> ELSE <<>>)
    \o <<Event("NameChanged", a, Zero, n), Event("ReverseClaimed", a, Zero, a)>>
Named(a, n) ==
    /\ primary' = [primary EXCEPT ![a] = n]
    /\ namings' = [namings EXCEPT ![a] = IF @ < 2 THEN @ + 1 ELSE 2]

\* register: how is "bare", "resolver" or "primary".
Register(n, a, how) ==
    /\ tokenOwner[n] = Zero \/ lapsed[n]
    /\ term' = [term EXCEPT ![n] = @ + 1]
    /\ Emit(<<Event("Transfer", n, tokenOwner[n], a), Event("NodeTransfer", n, Zero, a)>>
            \o (IF how # "bare" /\ resolverOf[n] # Resolver
                  THEN <<Event("NewResolver", n, Zero, Resolver)>> ELSE <<>>)
            \o (IF how # "bare" THEN <<Event("AddrChanged", n, Zero, a)>> ELSE <<>>)
            \o (IF how = "primary" THEN NamingEvents(a, n) ELSE <<>>)
            \o <<Event("NameRegistered", n, term'[n], a)>>)
    /\ tokenOwner' = [tokenOwner EXCEPT ![n] = a] /\ nodeOwner' = [nodeOwner EXCEPT ![n] = a]
    /\ lapsed' = [lapsed EXCEPT ![n] = FALSE]
    /\ resolverOf' = IF how = "bare" THEN resolverOf ELSE [resolverOf EXCEPT ![n] = Resolver]
    /\ addrOf' = IF how = "bare" THEN addrOf ELSE [addrOf EXCEPT ![n] = a]
    /\ IF how = "primary" THEN Named(a, n) ELSE UNCHANGED <<primary, namings>>

Renew(n) ==
    /\ tokenOwner[n] # Zero /\ ~lapsed[n]
    /\ term' = [term EXCEPT ![n] = @ + 1]
    /\ Emit(<<Event("NameRenewed", n, term'[n], Zero)>>)
    /\ UNCHANGED <<tokenOwner, nodeOwner, resolverOf, addrOf, lapsed, primary, namings>>

TransferName(n, a) ==
    /\ tokenOwner[n] \notin {Zero, a}
    /\ tokenOwner' = [tokenOwner EXCEPT ![n] = a]
    /\ Emit(<<Event("Transfer", n, tokenOwner[n], a)>>)
    /\ UNCHANGED <<nodeOwner, resolverOf, addrOf, term, lapsed, primary, namings>>

\* reclaim by the holder, setOwner by the node's owner; Zero burns the node.
GiveNode(n, a) ==
    /\ tokenOwner[n] # Zero
    /\ nodeOwner' = [nodeOwner EXCEPT ![n] = a]
    /\ Emit(<<Event("NodeTransfer", n, Zero, a)>>)
    /\ UNCHANGED <<tokenOwner, resolverOf, addrOf, term, lapsed, primary, namings>>

SetResolver(n, r) ==
    /\ nodeOwner[n] # Zero
    /\ resolverOf' = [resolverOf EXCEPT ![n] = r]
    /\ Emit(<<Event("NewResolver", n, Zero, r)>>)
    /\ UNCHANGED <<tokenOwner, nodeOwner, addrOf, term, lapsed, primary, namings>>

SetAddr(n, a) ==
    /\ nodeOwner[n] # Zero
    /\ addrOf' = [addrOf EXCEPT ![n] = a]
    /\ Emit(<<Event("AddrChanged", n, Zero, a)>>)
    /\ UNCHANGED <<tokenOwner, nodeOwner, resolverOf, term, lapsed, primary, namings>>

\* setName of the reverse registrar, which looks at no name; Empty takes it back.
SetPrimary(a, n) ==
    /\ Named(a, n)
    /\ Emit(NamingEvents(a, n))
    /\ UNCHANGED <<tokenOwner, nodeOwner, resolverOf, addrOf, term, lapsed>>

Lapse(n) ==
    /\ tokenOwner[n] # Zero /\ ~lapsed[n]
    /\ lapsed' = [lapsed EXCEPT ![n] = TRUE]
    /\ UNCHANGED <<tokenOwner, nodeOwner, resolverOf, addrOf, term, primary, namings, feed, height>>

ChainNext ==
    \/ \E n \in Name : Renew(n) \/ Lapse(n)
    \/ \E n \in Name, a \in Account :
          \/ TransferName(n, a)
          \/ \E how \in {"bare", "resolver", "primary"} : Register(n, a, how)
    \/ \E n \in Name, a \in Account \cup {Zero} : GiveNode(n, a) \/ SetAddr(n, a)
    \/ \E n \in Name, r \in {Resolver, Zero} : SetResolver(n, r)
    \/ \E a \in Account, n \in Name \cup {Empty} : SetPrimary(a, n)
===============================================================================
