--------------------------- MODULE MCBaseRegistrar ---------------------------
(***************************************************************************)
(* One registrar, one name.  In the scene "market" two holders trade the   *)
(* name while the registrar keeps its TLD node; in the scene "root" there  *)
(* is one holder, and the owner of the root takes the TLD node from the    *)
(* registrar and gives it back.  Tokens have operators in the first only.  *)
(***************************************************************************)
EXTENDS ArcNSBaseRegistrar
CONSTANTS arc, alice, registrar, u, v

MCTLD == {arc}
MCSLD == {alice}
MCLabel == MCTLD \cup MCSLD
MCNodes == {<< >>, <<arc>>, <<arc, alice>>}
MCRegistrarOf == [t \in MCTLD |-> registrar]

VARIABLE scene

\* Who acts, who may be given the name, and who is approved for everything.
Cast == [market |-> [act |-> {u, v}, grant |-> {u, v}, operate |-> {v}, last |-> MaxTime],
         root   |-> [act |-> {Deployer, u}, grant |-> {u, registrar}, operate |-> {u},
                     last |-> StartTime + 1]]
InScene ==
    LET cast == Cast[scene] IN
    /\ sender \in cast.act \cup ControllerAddr \cup {Zero} /\ now <= cast.last
    /\ \A n \in Name :
          /\ nft[n] \in cast.grant \cup {Zero} /\ approved[n] \in cast.grant \cup {Zero}
          /\ records[n].owner \in cast.grant \cup {Zero}
          /\ scene = "root" => records[n].resolver = Zero /\ expires[n] <= cast.last + 1
    /\ \A o \in Owner : operators[o] \subseteq cast.operate
    /\ \A t \in TLD, o \in Owner :
          nftOperators[t][o] \subseteq (IF scene = "root" THEN {} ELSE cast.operate)

ScenesInit == scene \in {"market", "root"} /\ RegistrarInit /\ InScene
ScenesNext == RegistrarNext /\ UNCHANGED scene /\ InScene'
ScenesSpec == ScenesInit /\ [][ScenesNext]_<<systemVars, scene>>
==============================================================================
