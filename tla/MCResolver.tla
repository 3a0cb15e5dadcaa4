----------------------------- MODULE MCResolver -----------------------------
(* One name and the reverse node of u.                                       *)
EXTENDS ArcNSResolver
CONSTANTS arc, alice, reverse, addr, u
MCReverse == <<reverse, addr>>
MCNodes == {<< >>, MCReverse, MCReverse \o <<u>>, <<arc, alice>>}
MCPrimaryName == {<<arc, alice>>}
MCRecorded == {<<arc, alice>>}
==============================================================================
