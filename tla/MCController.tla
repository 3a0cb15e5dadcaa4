---------------------------- MODULE MCController ----------------------------
(* Two TLDs with one name each, a customer u and a customer v.             *)
EXTENDS ArcNSController

CONSTANTS arc, circle, alice, reverse, addr, u, v, res, res2,
          arcRegistrar, circleRegistrar, arcController, circleController

MCTLD == {arc, circle}
MCSLD == {alice}
MCReverse == <<reverse, addr>>
MCNodes == {<< >>, <<arc>>, <<circle>>, <<arc, alice>>, <<circle, alice>>,
            MCReverse, MCReverse \o <<u>>}
MCArcNodes == {<< >>, <<arc>>, <<arc, alice>>, MCReverse, MCReverse \o <<u>>}
MCPrimaryName == {<<arc, alice>>}
MCRegistrarOf == [t \in TLD |-> IF t = arc THEN arcRegistrar ELSE circleRegistrar]
MCControllerOf == [t \in TLD |-> IF t = arc THEN arcController ELSE circleController]
MCTierOf == [l \in MCSLD |-> 1]
MCPrices == [t \in {1} |-> 2]
MCRaised == [t \in {1} |-> 6]
MCTables == {MCRaised}
MCEarly == [t \in {1} |-> 2]

\* u buys for itself with a primary name, v buys for itself without resolver,
\* and v buys for u with a resolver that is not the controllers' own.
Own == [label |-> alice, owner |-> u, duration |-> 3, secret |-> 0,
        resolver |-> res, reverse |-> TRUE, sender |-> u]
Plain == [label |-> alice, owner |-> v, duration |-> 4, secret |-> 0,
          resolver |-> Zero, reverse |-> FALSE, sender |-> v]
Gift == [Own EXCEPT !.resolver = res2, !.sender = v]
MCSnapshots == {{u}, {v}}
MCRequests == {Own}
MCSaleRequests == {Own, Plain, Gift}
==============================================================================
