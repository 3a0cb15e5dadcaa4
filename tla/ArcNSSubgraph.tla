----------------------------- MODULE ArcNSSubgraph -----------------------------
(***************************************************************************)
(* The subgraph of indexer/ and the client that reads it                   *)
(* (frontend/src/lib/graphql.ts, hooks/useMyDomains.ts, the resolution     *)
(* API).  A handler is a function from the store and one event to the      *)
(* store; graph-node applies the handlers of a block in the order of the   *)
(* log and shows the store between blocks only.                            *)
(*                                                                         *)
(* The immutable entities (Registration, Renewal, DomainEvent), which no   *)
(* handler reads again, are left out.                                      *)
(***************************************************************************)
EXTENDS ChainEvents, Functions, SequencesExt

VARIABLE store       \* the entities

NoDomain == [owner |-> Zero, resolver |-> Zero, expiry |-> 0, resolvedAddress |-> Zero,
             linked |-> FALSE]
\* domain: Zero's owner means that there is no such entity; byAddress and byNode:
\* the two ReverseRecords of an account, by their name field, where an account
\* stands for its own address as text.
StoreInit ==
    [domain    |-> [n \in Name |-> NoDomain],
     known     |-> {},
     addr      |-> [n \in Name |-> Unset],
     byAddress |-> [a \in Account |-> Unset],
     byNode    |-> [a \in Account |-> Unset]]

Known(st, x) == x \in st.known
WithDomain(st, n, field, v) == [st EXCEPT !.domain[n] = [@ EXCEPT ![field] = v]]

------------------------------------------------------------------------------
(* The handlers.                                                             *)

\* LabelhashIndex is written here too, with the domain.
OnNameRegistered(st, e) ==
    [st EXCEPT !.known = @ \cup {e.on},
               !.domain[e.on] = [@ EXCEPT !.owner = e.value, !.expiry = e.from]]

OnNameRenewed(st, e) ==
    IF Known(st, e.on) THEN WithDomain(st, e.on, "expiry", e.from) ELSE st

\* Fault: mints are not told from transfers by the index but by the owner.
OnTransferUnscoped(st, e) ==
    IF e.from # Zero /\ \E n \in st.known : n[1] = e.on[1]
      THEN WithDomain(st, CHOOSE n \in st.known : n[1] = e.on[1], "owner", e.value) ELSE st

\* By tokenId, scoped by the TLD; mints are left to NameRegistered.
OnTransfer(st, e) ==
    IF e.from # Zero /\ Known(st, e.on) THEN WithDomain(st, e.on, "owner", e.value) ELSE st

OnNodeTransfer(st, e) ==
    IF Known(st, e.on) THEN WithDomain(st, e.on, "owner", e.value) ELSE st

OnNewResolver(st, e) ==
    IF Known(st, e.on) THEN WithDomain(st, e.on, "resolver", e.value) ELSE st

\* The record is kept also for a domain not known yet, the mirror is not.
OnAddrChanged(st, e) ==
    LET recorded == [st EXCEPT !.addr[e.on] = e.value]
    IN IF Known(st, e.on)
         THEN WithDomain(WithDomain(recorded, e.on, "resolvedAddress", e.value),
                         e.on, "linked", TRUE)
         ELSE recorded

\* The record by node tells whose it is, until the name takes that place; an
\* empty name, and a node never claimed before, are passed over.
OnNameChanged(st, e) ==
    LET addrId == st.byNode[e.on] IN
    IF e.value = Empty \/ addrId = Unset THEN st
    ELSE [st EXCEPT !.byNode[e.on] = e.value,
                    !.byAddress = IF addrId \in Account THEN [@ EXCEPT ![addrId] = e.value] ELSE @]

OnReverseClaimed(st, e) ==
    [st EXCEPT !.byAddress[e.on] = IF @ = Unset THEN Empty ELSE @,
               !.byNode[e.on] = e.value]

Handle(st, e) ==
    CASE e.kind = "NameRegistered" -> OnNameRegistered(st, e)
      [] e.kind = "NameRenewed"    -> OnNameRenewed(st, e)
      [] e.kind = "Transfer"       -> OnTransfer(st, e)
      [] e.kind = "NodeTransfer"   -> OnNodeTransfer(st, e)
      [] e.kind = "NewResolver"    -> OnNewResolver(st, e)
      [] e.kind = "AddrChanged"    -> OnAddrChanged(st, e)
      [] e.kind = "NameChanged"    -> OnNameChanged(st, e)
      [] e.kind = "ReverseClaimed" -> OnReverseClaimed(st, e)

IndexBlock ==
    /\ feed # <<>>
    /\ store' = FoldLeft(Handle, store, Head(feed))
    /\ feed' = Tail(feed)
    /\ UNCHANGED <<nameVars, height>>

------------------------------------------------------------------------------
(* The readers.                                                              *)

\* resolveName: the mirror, or the linked record, or else the chain.  With no
\* endpoint of the subgraph up the chain is asked at once.
ResolveName(n, up) ==
    LET d == store.domain[n]
        indexed == IF Known(store, n) /\ d.linked THEN d.resolvedAddress ELSE Unset
        onChain == IF resolverOf[n] = Zero THEN Unset
                   ELSE IF addrOf[n] = Zero THEN Unset ELSE addrOf[n]
    IN IF up /\ indexed # Unset THEN indexed ELSE onChain

\* getDomainsByOwner.
DomainsByOwner(a) == {n \in store.known : store.domain[n].owner = a}

\* resolveAddressWithVerification: a candidate from the subgraph, or from the
\* chain when the subgraph has none or is down ...
Candidate(a, up) ==
    LET rev == store.byAddress[a]
    IN IF up /\ rev \notin {Unset, Empty} THEN rev
       ELSE IF primary[a] \in {Zero, Empty} THEN Unset ELSE primary[a]

\* ... confirmed by its address record, always from the chain.
Verified(a, up) ==
    LET n == Candidate(a, up)
    IN IF n # Unset /\ addrOf[n] = a THEN n ELSE Unset

IndexInit == ChainInit /\ store = StoreInit

IndexNext ==
    \/ ChainNext /\ UNCHANGED store
    \/ IndexBlock

IndexSpec == IndexInit /\ [][IndexNext]_<<eventVars, store>>

------------------------------------------------------------------------------
CaughtUp == feed = <<>>

\* Once a block is indexed, the domains of the subgraph are the names of the
\* chain, with their expiry, with an address that is the chain's or has never
\* been mirrored, and with an owner that is the holder, or whom the registry
\* has (the last of the two to change).
DomainsFollowChain ==
    CaughtUp => \A n \in Name : LET d == store.domain[n] IN
        /\ n \in store.known <=> tokenOwner[n] # Zero
        /\ d.expiry = term[n] /\ d.owner \in {tokenOwner[n], nodeOwner[n]}
        /\ d.linked => d.resolvedAddress = addrOf[n]

\* The record by address is the primary name, except that the first name an
\* account sets, and an empty one, are passed over.
PrimaryFollowsChain ==
    CaughtUp => \A a \in Account :
        namings[a] = 2 /\ primary[a] # Empty => store.byAddress[a] = primary[a]

\* A verified answer is the account's primary name and resolves to the account;
\* only an account that took its name back is still answered with the former one.
VerifiedIsPrimary ==
    CaughtUp => \A a \in Account, up \in BOOLEAN : LET n == Verified(a, up) IN
        n # Unset => primary[a] \in {n, Empty} /\ addrOf[n] = a

\* The subgraph and the chain give the same answer for a name that has a
\* resolver and an address.
SourcesAgree ==
    CaughtUp => \A n \in Name :
        resolverOf[n] # Zero /\ addrOf[n] # Zero => ResolveName(n, TRUE) = ResolveName(n, FALSE)

\* Between two blocks the entities, and what the client makes of them, agree with
\* the contracts, although the handlers see the events of a registration in
\* another order than they would need (all of the above).
SubgraphFollowsChain ==
    DomainsFollowChain /\ PrimaryFollowsChain /\ VerifiedIsPrimary /\ SourcesAgree
===============================================================================
