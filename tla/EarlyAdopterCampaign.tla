------------------------- MODULE EarlyAdopterCampaign -------------------------
(***************************************************************************)
(* The campaign of the early adopters' discount, from the deployment of    *)
(* its registry to the offer in the web client: the scripts that deploy    *)
(* and wire it (v3/deployV3.js on mainnet,                                 *)
(* v3/deployDiscountTestnetPreparation.js on testnet), that set, freeze and*)
(* activate the finalized root and verify each stage                       *)
(* (mainnet/discount-*.js, mainnet/verify-discount-state.js), the batches  *)
(* for the Safe that do the same without any check                         *)
(* (mainnet/generate-safe-discount-batches.js), the artifact of the proofs *)
(* with the client that offers the discount (lib/discountProofs.ts,        *)
(* hooks/useSnapshotDiscount.ts), and the subgraph's handlers              *)
(* (indexer/src/discountRegistry.ts).                                      *)
(*                                                                         *)
(* A tool reads several values of the contracts at once, which the node    *)
(* answers one by one: each reading is a step of its own, in any order, and*)
(* the first that is not as expected ends the tool.  Before the tools are  *)
(* used the root may be one of an earlier snapshot; while they are, nobody *)
(* sets another root by hand.                                              *)
(***************************************************************************)
EXTENDS ArcNSEarlyAdopterDiscountRegistry, MerkleSnapshot

CONSTANTS
    Final,          \* the finalized snapshot, written into the scripts and the client
    Previous,       \* an earlier one
    Visitor,        \* wallets that visit the client
    MaxUndone,      \* bound: how often something is undone by hand
    MaxIndexLag     \* bound: events the subgraph is behind

ASSUME CampaignAssumption ==
    /\ {Final, Previous} \subseteq Snapshot /\ Final # Previous
    /\ IsFiniteSet(Final) /\ IsFiniteSet(Previous)
    /\ Visitor \subseteq Wallet /\ Wallet \subseteq Nat \ {0}
    /\ MaxUndone \in Nat /\ MaxIndexLag \in Nat

VARIABLES
    chainOf,         \* "mainnet" or "testnet"
    manifest,        \* the snapshot in the manifest, and in the environment
    deployed,
    registryOwner,
    implementation,  \* of both controllers: without or with the discount
    pointing,        \* the controllers whose discountRegistry() it is
    tool,            \* the script that is running
    passed,          \* the script that was the last to end with PASS
    batches,         \* the Safe's batches that are written and not executed
    published,       \* the artifacts that browsers may have
    visit,           \* the client: what it still has to read
    emitted,         \* events that are not indexed yet
    indexed,         \* DiscountRegistryState, DiscountController, DiscountConsumed
    undone

wiringVars   == <<chainOf, manifest, deployed, registryOwner, implementation, pointing>>
toolVars     == <<tool, passed, batches>>
visitVars    == <<published, visit>>
indexVars    == <<emitted, indexed>>
campaignVars == <<discountVars, wiringVars, toolVars, visitVars, indexVars, undone>>

NoTool  == [kind |-> "none", left |-> {}, at |-> "idle"]
NoVisit == [at |-> "idle", wallet |-> 0, left |-> {}]

\* Mainnet: deployV3.js has deployed and wired the registry for its deployer, and
\* perhaps an earlier root was set.  Testnet: there is none yet.
CampaignInit ==
    /\ chainOf \in {"mainnet", "testnet"}
    /\ manifest \in [file: {Final, Previous}, env: {NoRoot, Final, Previous}]
    /\ deployed = (chainOf = "mainnet")
    /\ registryOwner = (IF deployed THEN "deployer" ELSE "nobody")
    /\ implementation = (IF deployed THEN "discount" ELSE "plain")
    /\ pointing = (IF deployed THEN Caller ELSE {})
    /\ authorizedControllers = pointing
    /\ merkleRoot \in {NoRoot} \cup (IF deployed THEN {Previous} ELSE {})
    /\ discountActive = FALSE /\ rootFrozen = FALSE /\ used = {}
    /\ tool = NoTool /\ passed = "none" /\ batches = {}
    /\ published = {Previous} /\ visit = NoVisit
    /\ emitted = <<>>
    /\ indexed = [root |-> merkleRoot, frozen |-> FALSE, active |-> FALSE, owner |-> registryOwner,
                  authorized |-> authorizedControllers, consumed |-> {}]
    /\ undone = 0

------------------------------------------------------------------------------
(* The registry and the controllers.                                         *)

\* Only mainnet's registry is indexed.
EmitEvent(kind, value) ==
    IF chainOf = "testnet" THEN UNCHANGED emitted
    ELSE /\ Len(emitted) < MaxIndexLag
         /\ emitted' = Append(emitted, [kind |-> kind, value |-> value])

\* The three calls of the campaign.
CampaignCall(operation, root) ==
    \/ operation = "set-root"    /\ SetMerkleRoot(DiscountOwner, root) /\ EmitEvent("root", root)
    \/ operation = "freeze-root" /\ FreezeRoot(DiscountOwner) /\ EmitEvent("frozen", merkleRoot)
    \/ operation = "activate"    /\ SetDiscountActive(DiscountOwner, TRUE) /\ EmitEvent("active", TRUE)

Reverted(operation) ==
    operation \in {"set-root", "freeze-root"} /\
       (rootFrozen \/ (operation = "freeze-root" /\ merkleRoot = NoRoot))

\* handoff-admin.js.
HandOver ==
    /\ registryOwner = "deployer" /\ registryOwner' = "safe" /\ EmitEvent("owner", "safe")
    /\ UNCHANGED <<discountVars, chainOf, manifest, deployed, implementation, pointing,
                   toolVars, visitVars, indexed, undone>>

\* Testnet: the Safe schedules the upgrade of the controllers, which is executed
\* after the timelock's delay, and wires them.
UpgradeControllers ==
    /\ deployed
    /\ \/ implementation = "plain"     /\ implementation' = "scheduled"
       \/ implementation = "scheduled" /\ implementation' = "discount"
    /\ UNCHANGED <<discountVars, chainOf, manifest, deployed, registryOwner, pointing,
                   toolVars, visitVars, indexVars, undone>>

setDiscountRegistry(c, ours) ==
    /\ implementation = "discount"
    /\ pointing' = IF ours THEN pointing \cup {c} ELSE pointing \ {c}
    /\ UNCHANGED <<discountVars, chainOf, manifest, deployed, registryOwner, implementation,
                   toolVars, visitVars, indexVars>>

Authorize(c, ok) ==
    /\ deployed
    /\ SetControllerAuthorization(DiscountOwner, c, ok) /\ EmitEvent("authorized", <<c, ok>>)
    /\ UNCHANGED <<wiringVars, toolVars, visitVars, indexed>>

Wire(c) ==
    /\ \/ c \notin pointing /\ setDiscountRegistry(c, TRUE)
       \/ c \notin authorizedControllers /\ Authorize(c, TRUE)
    /\ UNCHANGED undone

Undo ==
    /\ undone < MaxUndone /\ undone' = undone + 1
    /\ \/ \E c \in pointing : setDiscountRegistry(c, FALSE)
       \/ \E c \in authorizedControllers : Authorize(c, FALSE)
       \/ /\ discountActive /\ SetDiscountActive(DiscountOwner, FALSE) /\ EmitEvent("active", FALSE)
          /\ UNCHANGED <<wiringVars, toolVars, visitVars, indexed>>

------------------------------------------------------------------------------
(* The scripts.                                                              *)

Writes == {"set-root", "freeze-root", "activate"}
STAGES == {"deployed", "root-set", "frozen", "active"}

\* loadAndValidateFinalSnapshot: the manifest is the finalized one, and the
\* environment does not contradict it.  Fault: the environment is taken.
ToolRootOfEnvironment == IF manifest.env # NoRoot THEN manifest.env ELSE manifest.file
ToolRoot ==
    IF manifest.file = Final /\ manifest.env \in {NoRoot, manifest.file} THEN Final ELSE NoRoot

Checks(kind) ==
    {"owner", "root", "frozen", "active"}
      \cup (IF kind \in STAGES THEN {"wired"} ELSE {})
      \cup (IF kind = "verify-preparation" THEN {"implementation"} ELSE {})

\* Whether a value read now is what a tool expects.
Holds(kind, value) ==
    CASE value = "owner"  -> registryOwner = IF kind \in Writes THEN "deployer" ELSE "safe"
      [] value = "root"   -> merkleRoot = IF kind \in {"set-root", "deployed", "verify-preparation"}
                                            THEN NoRoot ELSE ToolRoot
      [] value = "frozen" -> rootFrozen = (kind \in {"activate", "frozen", "active"})
      [] value = "active" -> discountActive = (kind = "active")
      [] value = "wired"  -> pointing = Caller /\ authorizedControllers = Caller
      [] value = "implementation" -> implementation # "discount"

\* What it expects to read after its own transaction.
ReadBack == [kind \in Writes \cup {"prepare"} |->
               CASE kind = "set-root"    -> {"root"}
                 [] kind = "freeze-root" -> {"root", "frozen"}
                 [] kind = "activate"    -> {"active"}
                 [] kind = "prepare"     -> {"owner", "root", "frozen", "active"}]
HoldsAfter(kind, value) ==
    IF kind = "prepare" THEN Holds("verify-preparation", value)
    ELSE CASE value = "root" -> merkleRoot = ToolRoot
           [] value = "frozen" -> rootFrozen
           [] value = "active" -> discountActive

ToolOnly == UNCHANGED <<discountVars, wiringVars, batches, visitVars, indexVars, undone>>

\* The scripts of the campaign are mainnet's.  A second preparation would deploy
\* a registry that nothing names.
StartTool(kind) ==
    /\ tool = NoTool
    /\ CASE kind \in Writes \cup STAGES -> chainOf = "mainnet" /\ ToolRoot # NoRoot
         [] kind = "prepare" -> chainOf = "testnet" /\ ~deployed
         [] kind = "verify-preparation" -> chainOf = "testnet" /\ deployed
    /\ tool' = [kind |-> kind, at |-> "reading",
                left |-> IF kind = "prepare" THEN {"implementation"} ELSE Checks(kind)]
    /\ UNCHANGED passed /\ ToolOnly

ReadValue(value) ==
    /\ tool.at \in {"reading", "reading back"} /\ value \in tool.left
    /\ tool' = IF IF tool.at = "reading" THEN Holds(tool.kind, value) ELSE HoldsAfter(tool.kind, value)
                 THEN [tool EXCEPT !.left = @ \ {value}] ELSE NoTool
    /\ UNCHANGED passed /\ ToolOnly

EndReading ==
    /\ tool.at \in {"reading", "reading back"} /\ tool.left = {}
    /\ IF tool.at = "reading" /\ tool.kind \in DOMAIN ReadBack
         THEN tool' = [tool EXCEPT !.at = "sent"] /\ UNCHANGED passed
         ELSE tool' = NoTool /\ passed' = tool.kind
    /\ ToolOnly

\* The deployer's transaction is included; the script may have been stopped.
Include ==
    /\ tool.at = "sent" /\ tool.kind \in Writes
    /\ IF registryOwner = "deployer" /\ ~Reverted(tool.kind)
         THEN /\ CampaignCall(tool.kind, ToolRoot)
              /\ tool' \in {NoTool, [tool EXCEPT !.at = "reading back", !.left = ReadBack[tool.kind]]}
         ELSE tool' = NoTool /\ UNCHANGED <<discountVars, emitted>>
    /\ UNCHANGED <<wiringVars, passed, batches, visitVars, indexed, undone>>

\* The registry of the testnet, for the Safe.
PrepareTestnet ==
    /\ tool.at = "sent" /\ tool.kind = "prepare"
    /\ deployed' = TRUE /\ registryOwner' = "safe"
    /\ tool' = [tool EXCEPT !.at = "reading back", !.left = ReadBack["prepare"]]
    /\ UNCHANGED <<discountVars, chainOf, manifest, implementation, pointing, passed, batches,
                   visitVars, indexVars, undone>>

\* Three files, in a new directory.
GenerateBatches ==
    /\ chainOf = "mainnet" /\ ToolRoot # NoRoot /\ batches = {}
    /\ batches' = Writes
    /\ UNCHANGED <<discountVars, wiringVars, tool, passed, visitVars, indexVars, undone>>

\* The Safe executes them in the order its signers choose; on the testnet it does
\* the same by hand.
ExecuteBatch(b) ==
    /\ registryOwner = "safe" /\ (chainOf = "testnet" \/ b \in batches)
    /\ ~Reverted(b) /\ CampaignCall(b, IF chainOf = "testnet" THEN Final ELSE ToolRoot)
    /\ batches' = batches \ {b}
    /\ UNCHANGED <<wiringVars, tool, passed, visitVars, indexed, undone>>

------------------------------------------------------------------------------
(* The artifact and the client.                                              *)

\* The tree of each snapshot, computed once.
tree == [S \in {Final, Previous} |-> [root |-> merkleRootOf(S), proofs |-> [w \in S |-> proofOf(S, w)]]]
provenBy == [S \in DOMAIN tree |->
               [w \in S |-> {v \in Wallet : verifyProof(leafFor(v), tree[S].proofs[w], tree[S].root)}]]

\* validateSource: every proof is checked before the artifact is written.
GenerateArtifact ==
    /\ ToolRoot # NoRoot /\ ToolRoot \notin published
    /\ \A w \in ToolRoot : w \in provenBy[ToolRoot][w]
    /\ published' = published \cup {ToolRoot}
    /\ UNCHANGED <<discountVars, wiringVars, toolVars, visit, indexVars, undone>>

VisitOnly == UNCHANGED <<discountVars, wiringVars, toolVars, published, indexVars, undone>>

\* A browser may keep an artifact for ever; the client knows the finalized one.
LookUpProof(w) ==
    /\ visit = NoVisit /\ deployed
    /\ Final \in published /\ w \in Final
    /\ visit' = [at |-> "reading", wallet |-> w, left |-> {"wired", "root", "frozen", "active", "used"}]
    /\ VisitOnly

Offered(value) ==
    CASE value = "wired"  -> pointing = Caller /\ authorizedControllers = Caller
      [] value = "root"   -> merkleRoot = Final
      [] value = "frozen" -> rootFrozen
      [] value = "active" -> discountActive
      [] value = "used"   -> visit.wallet \notin used

ReadForOffer(value) ==
    /\ visit.at = "reading" /\ value \in visit.left
    /\ visit' = IF ~Offered(value) THEN NoVisit
                ELSE [visit EXCEPT !.left = @ \ {value},
                                   !.at = IF visit.left = {value} THEN "offered" ELSE "reading"]
    /\ VisitOnly

\* Another wallet, name or duration.
Leave == visit.at # "idle" /\ visit' = NoVisit /\ VisitOnly

\* registerWithDiscount of a controller.
Claim(c) ==
    /\ visit.at = "offered" /\ c \in pointing
    /\ Consume(c, visit.wallet) /\ EmitEvent("used", visit.wallet)
    /\ UNCHANGED <<wiringVars, toolVars, visitVars, indexed, undone>>

------------------------------------------------------------------------------
(* The subgraph.                                                             *)

IndexEvent ==
    /\ emitted # <<>> /\ emitted' = Tail(emitted)
    /\ LET e == Head(emitted) IN
       indexed' = CASE e.kind = "root"   -> [indexed EXCEPT !.root = e.value]
                    [] e.kind = "frozen" -> [indexed EXCEPT !.root = e.value, !.frozen = TRUE]
                    [] e.kind = "active" -> [indexed EXCEPT !.active = e.value]
                    [] e.kind = "owner"  -> [indexed EXCEPT !.owner = e.value]
                    [] e.kind = "used"   -> [indexed EXCEPT !.consumed = @ \cup {e.value}]
                    [] e.kind = "authorized" ->
                         [indexed EXCEPT !.authorized = IF e.value[2] THEN @ \cup {e.value[1]}
                                                                      ELSE @ \ {e.value[1]}]
    /\ UNCHANGED <<discountVars, wiringVars, toolVars, visitVars, undone>>

RegistryNext ==
    \/ HandOver \/ UpgradeControllers \/ (\E c \in Caller : Wire(c)) \/ Undo
    \/ GenerateBatches \/ (\E b \in Writes : ExecuteBatch(b))
    \/ IndexEvent

ToolsNext ==
    \/ \E kind \in Writes \cup STAGES \cup {"prepare", "verify-preparation"} : StartTool(kind)
    \/ \E value \in {"owner", "root", "frozen", "active", "wired", "implementation"} : ReadValue(value)
    \/ EndReading \/ Include \/ PrepareTestnet

OffersNext ==
    \/ GenerateArtifact
    \/ \E w \in Visitor : LookUpProof(w)
    \/ \E value \in {"wired", "root", "frozen", "active", "used"} : ReadForOffer(value)
    \/ Leave \/ (\E c \in Caller : Claim(c))

CampaignSpec == CampaignInit /\ [][RegistryNext \/ ToolsNext \/ OffersNext]_campaignVars

------------------------------------------------------------------------------
\* The finalized root and no other ends up behind an offer, whatever the order in
\* which scripts, batches, handover and readings come:
\*   - the discount is offered only while its proof is good, and will stay so;
\*   - a script that says the root is frozen, or the discount active, is right
\*     about the root for ever;
\*   - another root is frozen only if the Safe executes the second batch before
\*     the first;
\*   - the subgraph says what the registry is, but for the events it is behind.
CampaignIsFinal ==
    /\ visit.at = "offered" =>
          /\ rootFrozen /\ merkleRoot = Final
          /\ provenBy[merkleRoot][visit.wallet] = {visit.wallet}
    /\ passed \in {"freeze-root", "activate", "frozen", "active"} =>
          rootFrozen /\ merkleRoot = Final
    /\ rootFrozen /\ merkleRoot # Final => "set-root" \in batches /\ "freeze-root" \notin batches
    /\ emitted = <<>> /\ chainOf = "mainnet" =>
          indexed = [root |-> merkleRoot, frozen |-> rootFrozen, active |-> discountActive,
                     owner |-> registryOwner, authorized |-> authorizedControllers, consumed |-> used]
===============================================================================
