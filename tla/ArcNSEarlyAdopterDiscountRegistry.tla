------------------ MODULE ArcNSEarlyAdopterDiscountRegistry ------------------
(***************************************************************************)
(* The one-time discount shared by the controllers of both TLDs:           *)
(* contracts/v3/discount/ArcNSEarlyAdopterDiscountRegistry.sol.            *)
(*                                                                         *)
(* A Merkle root is the set of wallets of its snapshot: a proof for a      *)
(* wallet verifies exactly if the wallet is in the set.                    *)
(***************************************************************************)
CONSTANTS
    Wallet,         \* the wallets
    Caller,         \* the controllers
    Snapshot,       \* the snapshots a root may be set to
    NoRoot,         \* bytes32(0)
    DiscountOwner   \* Ownable owner

VARIABLES merkleRoot, discountActive, rootFrozen, used, authorizedControllers

discountVars ==
    <<merkleRoot, discountActive, rootFrozen, used, authorizedControllers>>

DiscountTypeOK ==
    /\ merkleRoot \in Snapshot \cup {NoRoot}
    /\ discountActive \in BOOLEAN
    /\ rootFrozen \in BOOLEAN
    /\ used \subseteq Wallet
    /\ authorizedControllers \subseteq Caller

DiscountInit ==
    /\ merkleRoot = NoRoot
    /\ discountActive = FALSE
    /\ rootFrozen = FALSE
    /\ used = {}
    /\ authorizedControllers = {}

------------------------------------------------------------------------------
(***************************************************************************)
(* Transactions of the owner.                                              *)
(***************************************************************************)
SetMerkleRoot(s, root) ==
    /\ s = DiscountOwner
    /\ ~rootFrozen
    /\ merkleRoot' = root
    /\ UNCHANGED <<discountActive, rootFrozen, used, authorizedControllers>>

FreezeRoot(s) ==
    /\ s = DiscountOwner
    /\ ~rootFrozen
    /\ merkleRoot # NoRoot
    /\ rootFrozen' = TRUE
    /\ UNCHANGED <<merkleRoot, discountActive, used, authorizedControllers>>

\* Fault: a new campaign lets every wallet in once more.
SetDiscountActiveAfresh(s, active) ==
    /\ s = DiscountOwner
    /\ discountActive' = active
    /\ used' = {}
    /\ UNCHANGED <<merkleRoot, rootFrozen, authorizedControllers>>

SetDiscountActive(s, active) ==
    /\ s = DiscountOwner
    /\ discountActive' = active
    /\ UNCHANGED <<merkleRoot, rootFrozen, used, authorizedControllers>>

SetControllerAuthorization(s, c, authorized) ==
    /\ s = DiscountOwner
    /\ authorizedControllers' = IF authorized THEN authorizedControllers \cup {c}
                                              ELSE authorizedControllers \ {c}
    /\ UNCHANGED <<merkleRoot, discountActive, rootFrozen, used>>

DiscountOwnerTx(s) ==
    \/ \E root \in Snapshot \cup {NoRoot} : SetMerkleRoot(s, root)
    \/ FreezeRoot(s)
    \/ \E active \in BOOLEAN : SetDiscountActive(s, active)
    \/ \E c \in Caller, ok \in BOOLEAN : SetControllerAuthorization(s, c, ok)

------------------------------------------------------------------------------
\* Fault: a root that may still change is used.
ConsumeUnfrozen(c, account) ==
    /\ c \in authorizedControllers
    /\ discountActive
    /\ merkleRoot # NoRoot
    /\ account \notin used
    /\ account \in merkleRoot
    /\ used' = used \cup {account}
    /\ UNCHANGED <<merkleRoot, discountActive, rootFrozen, authorizedControllers>>

\* Called by a controller in the middle of a registration.
Consume(c, account) ==
    /\ c \in authorizedControllers
    /\ discountActive
    /\ rootFrozen
    /\ merkleRoot # NoRoot
    /\ account \notin used
    /\ account \in merkleRoot
    /\ used' = used \cup {account}
    /\ UNCHANGED <<merkleRoot, discountActive, rootFrozen, authorizedControllers>>

\* Only wallets of the snapshot have had the discount, and the snapshot they
\* were checked against is final (no wallet can be let in afterwards, none
\* that was let in can be left out).
UsedWereInSnapshot ==
    used # {} => rootFrozen /\ merkleRoot \in Snapshot /\ used \subseteq merkleRoot
==============================================================================
