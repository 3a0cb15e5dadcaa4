------------------------------ MODULE BensSubgraph ------------------------------
(***************************************************************************)
(* The subgraph of bens-subgraph/, which Blockscout reads: the same events *)
(* as ArcNSSubgraph, into the entities of ENS.  Its Registration is keyed  *)
(* by the label hash alone, as in ENS, where there is one TLD; here two    *)
(* names of one label share it, and the first one registered keeps it.     *)
(*                                                                         *)
(* The immutable event entities are left out.                              *)
(***************************************************************************)
EXTENDS ChainEvents, Functions, SequencesExt, FiniteSetsExt

VARIABLE bens        \* the entities

\* domain: of the names, owner Zero when there is none; reverse: the reverse
\* nodes with a Domain; record: of every resolver entity its addr.
BensInit ==
    bens = [domain         |-> [n \in Name |-> [owner |-> Zero, registrant |-> Zero, expiryDate |-> 0,
                                                resolver |-> Unset, resolvedAddress |-> Unset]],
            known          |-> {},
            reverse        |-> [a \in Account |-> [owner |-> Zero, resolver |-> Unset]],
            registration   |-> [l \in Label |-> [domain |-> Unset, registrant |-> Zero,
                                                 expiryDate |-> 0]],
            subdomainCount |-> [t \in TLD \cup {"addr.reverse"} |-> 0]]

Labelled(n) == n[1]
TldOf(n)    == n[2]
Claimed(b, a) == b.reverse[a].owner # Zero

\* Fault: a Domain is counted at every registration.
BensRegisteredCounting(b, e) ==
    LET n == e.on
        reg == b.registration[Labelled(n)]
    IN [b EXCEPT !.domain[n] = [@ EXCEPT !.owner = e.value, !.registrant = e.value,
                                         !.expiryDate = e.from],
                 !.known = @ \cup {n},
                 !.subdomainCount[TldOf(n)] = @ + 1,
                 !.registration[Labelled(n)] =
                    [domain |-> IF reg.domain = Unset THEN n ELSE reg.domain,
                     registrant |-> e.value, expiryDate |-> e.from]]

BensRegistered(b, e) ==
    LET n == e.on
        reg == b.registration[Labelled(n)]
    IN [b EXCEPT !.domain[n] = [@ EXCEPT !.owner = e.value, !.registrant = e.value,
                                         !.expiryDate = e.from],
                 !.known = @ \cup {n},
                 !.subdomainCount[TldOf(n)] = IF n \in b.known THEN @ ELSE @ + 1,
                 !.registration[Labelled(n)] =
                    [domain |-> IF reg.domain = Unset THEN n ELSE reg.domain,
                     registrant |-> e.value, expiryDate |-> e.from]]

BensRenewed(b, e) ==
    LET n == e.on
        renewed == IF n \in b.known THEN [b EXCEPT !.domain[n].expiryDate = e.from] ELSE b
    IN IF b.registration[Labelled(n)].domain = Unset THEN renewed
       ELSE [renewed EXCEPT !.registration[Labelled(n)].expiryDate = e.from]

\* The tld of the data source is not used: the domain is the one of the label's
\* Registration.
BensTransferred(b, e) ==
    LET n == b.registration[Labelled(e.on)].domain
    IN IF e.from = Zero \/ n = Unset THEN b
       ELSE [b EXCEPT !.domain[n] = [@ EXCEPT !.owner = e.value, !.registrant = e.value]]

BensNodeTransferred(b, e) ==
    CASE e.on \in b.known                             -> [b EXCEPT !.domain[e.on].owner = e.value]
      [] e.on \in Account /\ Claimed(b, e.on)        -> [b EXCEPT !.reverse[e.on].owner = e.value]
      [] OTHER                                       -> b

\* A resolver entity is one of (resolver, node); Zero unlinks it.
BensNewResolver(b, e) ==
    LET linked == IF e.value = Zero THEN Unset ELSE e.value IN
    CASE e.on \in b.known                             -> [b EXCEPT !.domain[e.on].resolver = linked]
      [] e.on \in Account /\ Claimed(b, e.on)        -> [b EXCEPT !.reverse[e.on].resolver = linked]
      [] OTHER                                       -> b

\* The event of the one resolver there is; it links the domain to it again.
BensAddrChanged(b, e) ==
    IF e.on \in b.known
      THEN [b EXCEPT !.domain[e.on] = [@ EXCEPT !.resolver = Resolver, !.resolvedAddress = e.value]]
      ELSE b

BensNameChanged(b, e) ==
    IF e.value # Empty /\ Claimed(b, e.on)
      THEN [b EXCEPT !.reverse[e.on].resolver = Resolver] ELSE b

BensReverseClaimed(b, e) ==
    [b EXCEPT !.reverse[e.on].owner = e.value,
              !.subdomainCount["addr.reverse"] = IF Claimed(b, e.on) THEN @ ELSE @ + 1]

HandleBens(b, e) ==
    CASE e.kind = "NameRegistered" -> BensRegistered(b, e)
      [] e.kind = "NameRenewed"    -> BensRenewed(b, e)
      [] e.kind = "Transfer"       -> BensTransferred(b, e)
      [] e.kind = "NodeTransfer"   -> BensNodeTransferred(b, e)
      [] e.kind = "NewResolver"    -> BensNewResolver(b, e)
      [] e.kind = "AddrChanged"    -> BensAddrChanged(b, e)
      [] e.kind = "NameChanged"    -> BensNameChanged(b, e)
      [] e.kind = "ReverseClaimed" -> BensReverseClaimed(b, e)

IndexBensBlock ==
    /\ feed # <<>>
    /\ bens' = FoldLeft(HandleBens, bens, Head(feed))
    /\ feed' = Tail(feed)
    /\ UNCHANGED <<nameVars, height>>

BensNext ==
    \/ ChainNext /\ UNCHANGED bens
    \/ IndexBensBlock

BensSpec == ChainInit /\ BensInit /\ [][BensNext]_<<eventVars, bens>>

------------------------------------------------------------------------------
\* A name whose label is registered under another TLD too.
SharesLabel(n) == \E m \in Name \ {n} : Labelled(m) = Labelled(n) /\ tokenOwner[m] # Zero

\* Once a block is indexed, Blockscout shows the names and the reverse nodes of
\* the chain, each counted once under its parent, with their expiry; the holder
\* as registrant, and the owner as in ArcNSSubgraph, except for a label that is
\* registered under both TLDs, whose two names then share one Registration.
BensFollowsChain ==
    feed = <<>> =>
        /\ \A n \in Name : LET d == bens.domain[n] IN
              /\ n \in bens.known <=> tokenOwner[n] # Zero
              /\ d.expiryDate = term[n]
              /\ ~SharesLabel(n) => /\ d.registrant = tokenOwner[n]
                                    /\ d.owner \in {tokenOwner[n], nodeOwner[n]}
                                    /\ bens.registration[Labelled(n)].expiryDate = term[n]
        /\ \A t \in TLD :
              bens.subdomainCount[t] = Quantify(Name, LAMBDA n : TldOf(n) = t /\ tokenOwner[n] # Zero)
        /\ bens.subdomainCount["addr.reverse"] =
              Quantify(Account, LAMBDA a : primary[a] # Zero)
===============================================================================
