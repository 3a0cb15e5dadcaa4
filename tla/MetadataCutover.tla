---------------------------- MODULE MetadataCutover ----------------------------
(***************************************************************************)
(* The exchange of the registrars under a running controller: scripts      *)
(* deploy-metadata-v2-registrars, prepare-metadata-v2-upgrade and          *)
(* validate-metadata-v2-cutover of scripts/mainnet.                        *)
(*                                                                         *)
(* With the controllers paused the script copies owners and expiries from  *)
(* a snapshot of the events into the constructor of new registrars, takes  *)
(* the snapshot again (the fence), and writes a batch for the Safe, which  *)
(* switches everything in one transaction, some time later.  The ERC-721   *)
(* transfers of the old registrar cannot be paused.                        *)
(*                                                                         *)
(* The new registrars need a new implementation of the controllers, which  *)
(* is deployed beforehand with a pair of batches for the timelock.  The    *)
(* upgrade of the switch goes past the timelock, in the Safe's own batch,  *)
(* so the script refuses to run once the timelock's batch is scheduled.    *)
(***************************************************************************)
EXTENDS Naturals, FiniteSets

CONSTANTS
    Token, Holder, NoHolder,
    GRACE_PERIOD,
    DELAY,        \* of the timelock
    MaxTime       \* bound of the clock

ASSUME CutoverAssumption ==
    /\ Token # {} /\ NoHolder \notin Holder
    /\ GRACE_PERIOD \in Nat \ {0} /\ DELAY \in Nat
    /\ MaxTime \in Nat /\ MaxTime > GRACE_PERIOD

VARIABLES
    old, new,     \* the registrars: of each token its holder and its expiry
    live,         \* which of them the controllers and the registry point to
    paused,       \* both controllers
    upgrade,      \* of the controllers: prepared, scheduled (ready at), done
    stage,        \* what the script has reached
    snapshot,     \* the records of the snapshot
    moved,        \* tokens transferred since the batch was written
    now

cutoverVars == <<old, new, live, paused, upgrade, stage, snapshot, moved, now>>

Nobody == [holder |-> NoHolder, expiry |-> 0]
Lease  == [holder: Holder \cup {NoHolder}, expiry: 0..MaxTime + 1]
NotScheduled == MaxTime + DELAY + 1
Stage  == {"none", "snapshot", "deployed", "batch", "done", "validated"}

\* Leases of every age, as renewals and registrations leave them.
CutoverInit ==
    /\ now = GRACE_PERIOD + 1
    /\ old \in [Token -> {l \in Lease : IF l.holder = NoHolder THEN l = Nobody ELSE l.expiry > 0}]
    /\ new = [t \in Token |-> Nobody] /\ snapshot = new
    /\ live = "old" /\ paused = FALSE /\ stage = "none" /\ moved = {}
    /\ upgrade = [prepared |-> FALSE, ready |-> NotScheduled, done |-> FALSE]

Lapsed(l, time) == l.expiry + GRACE_PERIOD < time

------------------------------------------------------------------------------
(* The world: time, holders, buyers, the Safe.                               *)

Tick == now < MaxTime /\ now' = now + 1
        /\ UNCHANGED <<old, new, live, paused, upgrade, stage, snapshot, moved>>

\* An expired token may be moved as well (transferFrom asks _ownerOf).
Transfer(t) ==
    /\ old[t].holder # NoHolder /\ live = "old"
    /\ \E h \in Holder \ {old[t].holder} : old' = [old EXCEPT ![t].holder = h]
    /\ moved' = IF stage = "batch" THEN moved \cup {t} ELSE moved
    /\ UNCHANGED <<new, live, paused, upgrade, stage, snapshot, now>>

\* A registration or a renewal through the controller.
Buy(t) ==
    /\ ~paused /\ live = "old"
    /\ \E h \in Holder :
          /\ old[t].holder # NoHolder /\ ~Lapsed(old[t], now) => h = old[t].holder
          /\ old' = [old EXCEPT ![t] = [holder |-> h, expiry |-> MaxTime + 1]]
    /\ UNCHANGED <<new, live, paused, upgrade, stage, snapshot, moved, now>>

Pause ==
    /\ ~paused /\ live = "old" /\ paused' = TRUE
    /\ UNCHANGED <<old, new, live, upgrade, stage, snapshot, moved, now>>

\* The documented sequence unpauses only after the validation; before a batch
\* exists the Safe may give up.
Unpause ==
    /\ paused /\ stage \notin {"batch", "done"} /\ paused' = FALSE
    /\ UNCHANGED <<old, new, live, upgrade, stage, snapshot, moved, now>>

------------------------------------------------------------------------------
(* The upgrade of the controllers.                                           *)

\* prepare-metadata-v2-upgrade.js: the implementation and the two batches, once.
PrepareUpgrade ==
    /\ ~upgrade.prepared
    /\ ~upgrade.done /\ live = "old"
    /\ upgrade' = [upgrade EXCEPT !.prepared = TRUE]
    /\ UNCHANGED <<old, new, live, paused, stage, snapshot, moved, now>>

\* The Safe hands the first batch to the timelock and, after the delay, the
\* second.
ScheduleUpgrade ==
    /\ upgrade.prepared /\ upgrade.ready = NotScheduled
    /\ upgrade' = [upgrade EXCEPT !.ready = now + DELAY]
    /\ UNCHANGED <<old, new, live, paused, stage, snapshot, moved, now>>
ExecuteUpgrade ==
    /\ upgrade.ready <= now /\ ~upgrade.done
    /\ upgrade' = [upgrade EXCEPT !.done = TRUE]
    /\ UNCHANGED <<old, new, live, paused, stage, snapshot, moved, now>>

------------------------------------------------------------------------------
(* The script.                                                               *)

\* snapshotTld: what is neither free nor lapsed, as the events tell it.
Records(time) ==
    [t \in Token |-> IF old[t].holder # NoHolder /\ ~Lapsed(old[t], time) THEN old[t] ELSE Nobody]

\* The script knows the implementation and the operation of the preparation.
TakeSnapshot ==
    /\ upgrade.prepared /\ upgrade.ready = NotScheduled
    /\ stage = "none" /\ paused /\ live = "old"
    /\ snapshot' = Records(now) /\ stage' = "snapshot"
    /\ UNCHANGED <<old, new, live, paused, upgrade, moved, now>>

DeployRegistrars ==
    /\ stage = "snapshot"
    /\ new' = snapshot /\ stage' = "deployed"
    /\ UNCHANGED <<old, live, paused, upgrade, snapshot, moved, now>>

\* Stopped, or refused by the fence: nothing has been written, the script can be
\* started afresh, with new registrars.
GiveUp ==
    /\ stage' = "none" /\ snapshot' = [t \in Token |-> Nobody] /\ new' = snapshot'
    /\ UNCHANGED <<old, live, paused, upgrade, moved, now>>
Stopped == stage \in {"snapshot", "deployed"} /\ GiveUp

\* Fault: the snapshot is not taken again.
FenceOpen ==
    /\ stage = "deployed"
    /\ IF paused THEN stage' = "batch" /\ UNCHANGED <<old, new, live, paused, upgrade, snapshot, moved, now>>
       ELSE GiveUp

\* The batch is written if the controllers are still paused and nothing differs.
Fence ==
    /\ stage = "deployed"
    /\ IF paused /\ Records(now) = snapshot
         THEN stage' = "batch" /\ UNCHANGED <<old, new, live, paused, upgrade, snapshot, moved, now>>
         ELSE GiveUp

\* The Safe executes the batch, in one transaction: the upgrade and the switch.
Cutover ==
    /\ stage = "batch"
    /\ upgrade' = [upgrade EXCEPT !.done = TRUE]
    /\ live' = "new" /\ stage' = "done"
    /\ UNCHANGED <<old, new, paused, snapshot, moved, now>>

\* validate-metadata-v2-cutover.js compares the new registrars with the artifact.
ValidateCutover ==
    /\ stage = "done" /\ live = "new" /\ paused /\ upgrade.done /\ new = snapshot
    /\ stage' = "validated"
    /\ UNCHANGED <<old, new, live, paused, upgrade, snapshot, moved, now>>

CutoverNext ==
    \/ Tick \/ Pause \/ Unpause
    \/ \E t \in Token : Transfer(t) \/ Buy(t)
    \/ PrepareUpgrade \/ ScheduleUpgrade \/ ExecuteUpgrade
    \/ TakeSnapshot \/ DeployRegistrars \/ Stopped \/ Fence \/ Cutover \/ ValidateCutover

CutoverSpec == CutoverInit /\ [][CutoverNext]_cutoverVars

------------------------------------------------------------------------------
CutoverTypeOK ==
    /\ old \in [Token -> Lease] /\ new \in [Token -> Lease] /\ snapshot \in [Token -> Lease]
    /\ live \in {"old", "new"} /\ paused \in BOOLEAN /\ stage \in Stage
    /\ upgrade \in [prepared: BOOLEAN, ready: 0..NotScheduled, done: BOOLEAN]
    /\ moved \subseteq Token /\ now \in 0..MaxTime

\* The switch takes no lease from anybody and gives none: what was renewable on
\* the old registrar has the same holder and expiry on the new one, and what was
\* available stays available.  Only tokens moved after the fence, which nothing
\* checks again, come out with their previous holder.
CutoverKeepsLeases ==
    [][live # live' =>
          \A t \in Token :
             LET l == old[t] IN
             \/ new[t] = l
             \/ Lapsed(l, now) /\ Lapsed(new[t], now)
             \/ t \in moved /\ new[t].expiry = l.expiry]_cutoverVars
=============================================================================
