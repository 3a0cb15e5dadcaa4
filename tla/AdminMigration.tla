---------------------------- MODULE AdminMigration ----------------------------
(***************************************************************************)
(* How the authority over the contracts leaves the deployer's key: the     *)
(* scripts of scripts/v3 on the testnet (deployMultisig, revokeDeployer,   *)
(* migrateFullOwnership, revokeOracleRoleViaSafe, deployTimelock,          *)
(* safeTestTx) and of scripts/mainnet (deploy-timelock, handoff-admin,     *)
(* assert-admin-handoff).                                                  *)
(*                                                                         *)
(* A script makes a plan from what it reads at its start and then sends one *)
(* transaction after the other, reading again before each.  It can stop    *)
(* anywhere: a failed check, a reverted or lost transaction, a closed      *)
(* terminal.  The operator starts scripts in any order and again, one at a *)
(* time.  What a script leaves for the next one is the deployment file.    *)
(*                                                                         *)
(* The deployer never holds CONTROLLER_ROLE of the resolver (deployV3      *)
(* gives it to the controllers and the reverse registrar), so the branches *)
(* that would take it away are left out.                                   *)
(***************************************************************************)
EXTENDS Naturals, Sequences

CONSTANTS
    Deployer, Timelock,
    Safe,        \* the multisig wallets that can come to exist
    NoParty,
    MaxCrash     \* bound: how often a script is stopped from outside

ASSUME AdminAssumption ==
    /\ NoParty \notin Safe \cup {Deployer, Timelock}
    /\ {Deployer, Timelock} \cap Safe = {} /\ Deployer # Timelock
    /\ MaxCrash \in Nat

VARIABLES
    network,     \* "testnet" or "mainnet": which scripts are there
    holders,     \* AccessControl: who holds each role of each surface
    owner,       \* Ownable.owner() and the registry's root node
    threshold,   \* of each Safe, 0 before it is created
    halted,      \* the arc controller is paused
    file,        \* the deployment file
    run,         \* the script that is running
    crashes

chain     == <<holders, owner, threshold, halted>>
adminVars == <<network, chain, file, run, crashes>>

Party == Safe \cup {Deployer, Timelock}
SurfaceOrder == <<"arcController", "circleController", "resolver">>
Surface      == {SurfaceOrder[i] : i \in DOMAIN SurfaceOrder}
RoleOrder    == <<"DEFAULT_ADMIN", "ADMIN", "UPGRADER", "PAUSER", "ORACLE">>
Role         == {RoleOrder[i] : i \in DOMAIN RoleOrder}
RolesOf(s)   == IF s = "resolver" THEN Role \ {"PAUSER", "ORACLE"} ELSE Role
OwnableOrder == <<"arcRegistrar", "circleRegistrar", "reverseRegistrar",
                  "priceOracle", "discountRegistry", "root">>
Ownable      == {OwnableOrder[i] : i \in DOMAIN OwnableOrder}

NoRun == [script |-> "none", safe |-> NoParty, todo |-> <<>>, deferred |-> {}]

\* What deployV3.js leaves behind.  On the mainnet there is a Safe already, made
\* outside of the scripts.
AdminInit ==
    /\ network \in {"testnet", "mainnet"}
    /\ holders = [s \in Surface |-> [r \in Role |->
                    IF r \in RolesOf(s) THEN {Deployer} ELSE {}]]
    /\ owner = [o \in Ownable |-> Deployer]
    /\ IF network = "mainnet"
         THEN \E n \in Safe, k \in 1..3 :
                  /\ threshold = [m \in Safe |-> IF m = n THEN k ELSE 0]
                  /\ file = [safe |-> n, timelock |-> FALSE, moved |-> FALSE,
                             complete |-> FALSE, deferred |-> {}]
         ELSE /\ threshold = [n \in Safe |-> 0]
              /\ file = [safe |-> NoParty, timelock |-> FALSE, moved |-> FALSE,
                         complete |-> FALSE, deferred |-> {}]
    /\ run = NoRun
    /\ halted = FALSE
    /\ crashes = 0

------------------------------------------------------------------------------
(* Plans: sequences of steps.                                                *)

Held(s, r, p) == p \in holders[s][r]
Admin(s, p)   == Held(s, "DEFAULT_ADMIN", p)

Grant(s, r, by, to) ==
    [do |-> "grant", on |-> s, role |-> r, by |-> by, who |-> to, heir |-> NoParty]
\* heir: who must hold the role for the step to take it from who.
Revoke(s, r, by, from, heir) ==
    [do |-> "revoke", on |-> s, role |-> r, by |-> by, who |-> from, heir |-> heir]
Conveyance(o, to) ==
    [do |-> "transfer", on |-> o, role |-> "owner", by |-> Deployer, who |-> to, heir |-> NoParty]
Other(what, who) ==
    [do |-> what, on |-> "file", role |-> "none", by |-> Deployer, who |-> who, heir |-> NoParty]
Finish == <<Other("finish", NoParty)>>

Each(q, Of(_)) == [i \in DOMAIN q |-> Of(q[i])]

\* The elements of q that are in S, in their order.
Only(q, S) ==
    LET kept[i \in 0..Len(q)] ==
            IF i = 0 THEN <<>>
            ELSE IF q[i] \in S THEN Append(kept[i - 1], q[i]) ELSE kept[i - 1]
    IN kept[Len(q)]

\* <<surface, role>>, surface by surface, in the order of the scripts' tables.
Slot == Surface \X Role
Slots(surfaces, roles) ==
    Only([i \in 1..Len(surfaces) * Len(roles) |->
            <<surfaces[((i - 1) \div Len(roles)) + 1], roles[((i - 1) % Len(roles)) + 1]>>],
         {slot \in Slot : slot[2] \in RolesOf(slot[1])})
HeldBy(p) == {slot \in Slot : Held(slot[1], slot[2], p)}
AllSlots == Slots(SurfaceOrder, RoleOrder)

\* deployMultisig.js goes role by role.
MultisigSlots ==
    LET roles == <<"ADMIN", "UPGRADER", "PAUSER">>
    IN [i \in 1..6 |-> <<SurfaceOrder[((i - 1) % 2) + 1], roles[((i - 1) \div 2) + 1]>>]

DeployMultisigPlan(safe, grant, revoke) ==
    (IF threshold[safe] = 0 THEN <<Other("create", safe)>> ELSE <<>>)
    \o (IF grant THEN Each(MultisigSlots, LAMBDA p : Grant(p[1], p[2], Deployer, safe))
                 ELSE <<>>)
    \o (IF grant /\ revoke
          THEN Each(MultisigSlots, LAMBDA p : Revoke(p[1], p[2], Deployer, Deployer, NoParty))
          ELSE <<>>)
    \o Finish

\* revokeDeployer.js: what the deployer and the Safe both hold, DEFAULT_ADMIN first.
RevokeDeployerPlan(safe) ==
    Each(Only(AllSlots, HeldBy(Deployer) \cap HeldBy(safe)),
         LAMBDA p : Revoke(p[1], p[2], Deployer, Deployer, safe)) \o Finish

\* migrateFullOwnership.js: what the deployer holds, DEFAULT_ADMIN last.
RevokeOrder(slots) ==
    Only(AllSlots, {p \in slots : p[2] # "DEFAULT_ADMIN"})
    \o Only(AllSlots, {p \in slots : p[2] = "DEFAULT_ADMIN"})
MigrateFullPlan(safe) ==
    LET grantPlan  == Only(AllSlots, HeldBy(Deployer) \ HeldBy(safe))
        ownPlan    == Only(SubSeq(OwnableOrder, 1, 4), {o \in Ownable : owner[o] = Deployer})
    IN Each(grantPlan, LAMBDA p : Grant(p[1], p[2], Deployer, safe))
       \o Each(RevokeOrder(HeldBy(Deployer)), LAMBDA p : Revoke(p[1], p[2], Deployer, Deployer, safe))
       \o Each(ownPlan \o <<"root">>, LAMBDA o : Conveyance(o, safe))
       \o Finish

RevokeOraclePlan(safe) ==
    (IF Held("arcController", "ORACLE", Deployer)
       THEN <<Revoke("arcController", "ORACLE", safe, Deployer, NoParty)>> ELSE <<>>)
    \o Finish

DeployTimelockPlan(safe, migrate) ==
    <<Other("timelock", Timelock)>>
    \o (IF migrate
          THEN Each(SurfaceOrder, LAMBDA s : Grant(s, "UPGRADER", safe, Timelock))
               \o Each(SurfaceOrder, LAMBDA s : Revoke(s, "UPGRADER", safe, safe, Timelock))
               \o Finish
          ELSE <<>>)

\* The mainnet's timelock: deployed, looked at, and then written to its file.
MainnetTimelockPlan == <<Other("deploy", Timelock), Other("timelock", Timelock)>>

\* Fault: lifts only the pause it has set itself.
SafeTestOwnPause(safe) ==
    IF halted THEN Finish ELSE <<Other("pause", safe), Other("unpause", safe)>>

\* safeTestTx.js: a pause and an unpause through the Safe; when the controller is
\* paused already, the unpause alone.
SafeTestPlan(safe) ==
    (IF halted THEN <<>> ELSE <<Other("pause", safe)>>) \o <<Other("unpause", safe)>>

\* Fault: revoked first.
HandoffRevokesFirst(s, safe) ==
    LET toSafe == Only(<<"DEFAULT_ADMIN", "ADMIN", "PAUSER", "ORACLE">>, RolesOf(s))
        away   == Only(<<"ADMIN", "PAUSER", "ORACLE", "UPGRADER">>, RolesOf(s)) \o <<"DEFAULT_ADMIN">>
    IN Each(away, LAMBDA r : Revoke(s, r, Deployer, Deployer, NoParty))
       \o Each(toSafe, LAMBDA r : Grant(s, r, Deployer, safe))
       \o <<Grant(s, "UPGRADER", Deployer, Timelock)>>

\* handoff-admin.js, for one surface: everything is granted before anything is revoked.
HandoffOf(s, safe) ==
    LET toSafe == Only(<<"DEFAULT_ADMIN", "ADMIN", "PAUSER", "ORACLE">>, RolesOf(s))
        away   == Only(<<"ADMIN", "PAUSER", "ORACLE", "UPGRADER", "DEFAULT_ADMIN">>, RolesOf(s))
    IN Each(toSafe, LAMBDA r : Grant(s, r, Deployer, safe))
       \o <<Grant(s, "UPGRADER", Deployer, Timelock)>>
       \o Each(away, LAMBDA r : Revoke(s, r, Deployer, Deployer, NoParty))
HandoffPlan(safe) ==
    HandoffOf("arcController", safe) \o HandoffOf("circleController", safe)
    \o HandoffOf("resolver", safe)
    \o Each(OwnableOrder, LAMBDA o : Conveyance(o, safe))

------------------------------------------------------------------------------
(* Starting a script.                                                        *)

Idle == run.todo = <<>>

Start(script, safe, plan) ==
    /\ Idle
    /\ run' = [script |-> script, safe |-> safe, todo |-> plan, deferred |-> {}]
    /\ UNCHANGED <<network, chain, file, crashes>>

\* A Safe in the file is used again; without one a new one is created (the
\* operator has to choose another SAFE_NONCE when a lost run used this one), while
\* Safe has one left.
StartDeployMultisig(grant, revoke) ==
    /\ network = "testnet"
    /\ file.safe # NoParty \/ \E n \in Safe : threshold[n] = 0
    /\ LET safe == IF file.safe # NoParty THEN file.safe
                   ELSE CHOOSE n \in Safe : threshold[n] = 0
       IN Start("deployMultisig", safe, DeployMultisigPlan(safe, grant, revoke))

StartRevokeDeployer ==
    /\ network = "testnet" /\ file.safe # NoParty
    /\ threshold[file.safe] >= 2
    /\ Start("revokeDeployer", file.safe, RevokeDeployerPlan(file.safe))

StartMigrateFull ==
    /\ network = "testnet" /\ file.safe # NoParty
    /\ threshold[file.safe] >= 2
    /\ Start("migrateFullOwnership", file.safe, MigrateFullPlan(file.safe))

StartRevokeOracle ==
    /\ network = "testnet" /\ file.safe # NoParty
    /\ threshold[file.safe] >= 2
    /\ Admin("arcController", file.safe)
    /\ Start("revokeOracleRoleViaSafe", file.safe, RevokeOraclePlan(file.safe))

StartDeployTimelock(migrate) ==
    /\ network = "testnet" /\ file.safe # NoParty
    /\ Start("deployTimelock", file.safe, DeployTimelockPlan(file.safe, migrate))

StartSafeTest ==
    /\ network = "testnet" /\ file.safe # NoParty
    /\ Held("arcController", "PAUSER", file.safe)
    /\ Start("safeTestTx", file.safe, SafeTestPlan(file.safe))

\* The pre-flight of deploy-timelock.js: a Safe of two out of three.  A file that
\* exists is not overwritten.
Preflight(safe) == threshold[safe] = 2
StartMainnetTimelock ==
    /\ network = "mainnet"
    /\ Preflight(file.safe) /\ ~file.timelock
    /\ Start("deploy-timelock", file.safe, MainnetTimelockPlan)

\* handoff-admin.js reads the timelock's file.
StartHandoff ==
    /\ network = "mainnet" /\ file.timelock
    /\ Start("handoffAdmin", file.safe, HandoffPlan(file.safe))
StartMainnetScript == StartMainnetTimelock \/ StartHandoff

------------------------------------------------------------------------------
(* The steps.                                                                *)

Doing(what) == ~Idle /\ Head(run.todo).do = what
Step == Head(run.todo)
Abort == run' = NoRun
Advance == IF Len(run.todo) = 1 THEN Abort ELSE run' = [run EXCEPT !.todo = Tail(@)]

\* A transaction of an administrator of the surface; the scripts sign for a
\* Safe with two keys.
MaySend(s, by) == Admin(s, by) /\ (by \in Safe => threshold[by] <= 2)

\* Any threshold from 1 to 3 is accepted.
CreateSafe ==
    /\ Doing("create")
    /\ \E k \in 1..3 : threshold' = [threshold EXCEPT ![Step.who] = k]
    /\ Advance
    /\ UNCHANGED <<network, holders, owner, halted, file, crashes>>

\* A timelock that no file names has no role and is forgotten: the next run
\* deploys another one.
DeployTimelock ==
    /\ Doing("deploy")
    /\ Advance
    /\ UNCHANGED <<network, chain, file, crashes>>

\* The file is written before any role is moved.
CreateTimelock ==
    /\ Doing("timelock")
    /\ file' = [file EXCEPT !.timelock = TRUE]
    /\ Advance
    /\ UNCHANGED <<network, chain, crashes>>

\* Fault: granted without looking whether it is held already.
GrantAgain ==
    /\ Doing("grant")
    /\ IF MaySend(Step.on, Step.by)
         THEN /\ holders' = [holders EXCEPT ![Step.on][Step.role] = @ \cup {Step.who}]
              /\ Advance
         ELSE Abort /\ UNCHANGED holders
    /\ UNCHANGED <<network, owner, threshold, halted, file, crashes>>

GrantRole ==
    /\ Doing("grant")
    /\ \/ Held(Step.on, Step.role, Step.who) /\ Advance /\ UNCHANGED holders
       \/ /\ ~Held(Step.on, Step.role, Step.who)
          /\ IF MaySend(Step.on, Step.by)
               THEN /\ holders' = [holders EXCEPT ![Step.on][Step.role] = @ \cup {Step.who}]
                    /\ Advance
               ELSE Abort /\ UNCHANGED holders
    /\ UNCHANGED <<network, owner, threshold, halted, file, crashes>>

\* migrateFullOwnership.js leaves to the Safe what the deployer cannot revoke.
Deferrable ==
    /\ run.script = "migrateFullOwnership"
    /\ Step.role # "DEFAULT_ADMIN" /\ ~Admin(Step.on, Deployer)

RevokeRole ==
    /\ Doing("revoke")
    /\ LET held == Held(Step.on, Step.role, Step.who)
           mayGo == Step.heir # NoParty => Held(Step.on, Step.role, Step.heir)
       IN \/ ~held /\ Advance /\ UNCHANGED holders
          \/ /\ held /\ Deferrable
             /\ run' = [run EXCEPT !.todo = Tail(@),
                                   !.deferred = @ \cup {<<Step.on, Step.role>>}]
             /\ UNCHANGED holders
          \/ /\ held /\ ~Deferrable /\ mayGo /\ MaySend(Step.on, Step.by)
             /\ holders' = [holders EXCEPT ![Step.on][Step.role] = @ \ {Step.who}]
             /\ Advance
          \/ /\ held /\ ~Deferrable /\ ~(mayGo /\ MaySend(Step.on, Step.by))
             /\ Abort /\ UNCHANGED holders
    /\ UNCHANGED <<network, owner, threshold, halted, file, crashes>>

\* transferOwnership and registry.setOwner of the root: nothing when the Safe
\* has it, an abort when a third party has.
TransferOwnable ==
    /\ Doing("transfer")
    /\ \/ owner[Step.on] = Step.who /\ Advance /\ UNCHANGED owner
       \/ /\ owner[Step.on] = Deployer
          /\ owner' = [owner EXCEPT ![Step.on] = Step.who] /\ Advance
       \/ /\ owner[Step.on] \notin {Deployer, Step.who}
          /\ Abort /\ UNCHANGED owner
    /\ UNCHANGED <<network, holders, threshold, halted, file, crashes>>

\* A transaction of the Safe with two signatures.
SetPaused ==
    /\ Doing("pause") \/ Doing("unpause")
    /\ IF Held("arcController", "PAUSER", Step.who) /\ threshold[Step.who] <= 2
         THEN halted' = (Step.do = "pause") /\ Advance
         ELSE Abort /\ UNCHANGED halted
    /\ UNCHANGED <<network, holders, owner, threshold, file, crashes>>

\* The last check of migrateFullOwnership.js.
MigrationValid(safe) ==
    /\ \A s \in Surface : \A r \in RolesOf(s) :
          /\ Held(s, r, safe)
          /\ Held(s, r, Deployer) => <<s, r>> \in run.deferred
    /\ \A o \in Ownable \ {"discountRegistry"} : owner[o] = safe

TimelockValid(safe) ==
    \A s \in Surface : Held(s, "UPGRADER", Timelock) /\ ~Held(s, "UPGRADER", safe)

\* Fault: the record does not name what is left to the Safe.
MigrationRecordBare == [file EXCEPT !.complete = TRUE]
MigrationRecord == [file EXCEPT !.complete = TRUE, !.deferred = run.deferred]

\* The last step writes the file.  deployMultisig.js replaces the whole multisig
\* section, with the record of a migration in it.
FinishScript ==
    /\ Doing("finish")
    /\ Abort
    /\ CASE run.script = "deployMultisig" ->
              file' = [file EXCEPT !.safe = run.safe, !.complete = FALSE, !.deferred = {}]
         [] run.script = "migrateFullOwnership" /\ MigrationValid(run.safe) ->
              file' = MigrationRecord
         [] run.script = "deployTimelock" /\ TimelockValid(run.safe) ->
              file' = [file EXCEPT !.moved = TRUE]
         [] OTHER -> UNCHANGED file
    /\ UNCHANGED <<network, chain, crashes>>

\* assert-admin-handoff.js passes.
HandoffValid(safe) ==
    /\ \A s \in Surface : \A r \in RolesOf(s) :
          Held(s, r, IF r = "UPGRADER" THEN Timelock ELSE safe) /\ ~Held(s, r, Deployer)
    /\ \A o \in Ownable : owner[o] = safe
AssertHandoff ==
    /\ network = "mainnet" /\ Idle
    /\ ~file.complete /\ HandoffValid(file.safe)
    /\ file' = [file EXCEPT !.complete = TRUE]
    /\ UNCHANGED <<network, chain, run, crashes>>

\* The owners of the Safe do what migrateFullOwnership.js left to them.
SafeRevokes ==
    /\ Idle
    /\ \E slot \in file.deferred :
          /\ Held(slot[1], slot[2], Deployer) /\ Admin(slot[1], file.safe)
          /\ holders' = [holders EXCEPT ![slot[1]][slot[2]] = @ \ {Deployer}]
    /\ UNCHANGED <<network, owner, threshold, halted, file, run, crashes>>

Crash ==
    /\ ~Idle /\ crashes < MaxCrash
    /\ crashes' = crashes + 1
    /\ Abort
    /\ UNCHANGED <<network, chain, file>>

ScriptStep ==
    \/ CreateSafe \/ DeployTimelock \/ CreateTimelock \/ GrantRole \/ RevokeRole
    \/ TransferOwnable \/ SetPaused \/ FinishScript

AdminNext ==
    \/ \E grant, revoke \in BOOLEAN : StartDeployMultisig(grant, revoke)
    \/ StartRevokeDeployer \/ StartMigrateFull \/ StartRevokeOracle
    \/ \E migrate \in BOOLEAN : StartDeployTimelock(migrate)
    \/ StartSafeTest \/ StartMainnetScript \/ AssertHandoff \/ SafeRevokes
    \/ ScriptStep \/ Crash

\* A script that was started goes on or is stopped; the operator comes back to
\* the migration until it has been recorded, and first of all to the Safe, and
\* repeats the test of the Safe.
AdminFairness ==
    /\ WF_adminVars(ScriptStep)
    /\ SF_adminVars(StartDeployMultisig(FALSE, FALSE))
    /\ SF_adminVars(StartMigrateFull)
    /\ SF_adminVars(StartMainnetScript) /\ SF_adminVars(AssertHandoff)
    /\ SF_adminVars(StartSafeTest)

AdminSpec == AdminInit /\ [][AdminNext]_adminVars /\ AdminFairness

------------------------------------------------------------------------------
AdminTypeOK ==
    /\ network \in {"testnet", "mainnet"}
    /\ holders \in [Surface -> [Role -> SUBSET Party]]
    /\ owner \in [Ownable -> Party]
    /\ threshold \in [Safe -> 0..3] /\ halted \in BOOLEAN
    /\ file \in [safe: Safe \cup {NoParty}, timelock: BOOLEAN, moved: BOOLEAN,
                 complete: BOOLEAN, deferred: SUBSET (Surface \X Role)]
    /\ run.safe \in Safe \cup {NoParty} /\ run.deferred \subseteq Surface \X Role
    /\ crashes \in 0..MaxCrash

\* The roles without which a surface could not be administered, upgraded or
\* paused any more.  (ORACLE is not one: revokeOracleRoleViaSafe.js takes it from
\* the deployer without asking who else has it.)
Vital(s) == RolesOf(s) \ {"ORACLE"}

\* However the scripts are stopped, repeated and mixed, every vital role of every
\* surface has a holder at every moment (the order of grants and revocations and
\* the checks before each revocation).
Governed == \A s \in Surface : \A r \in Vital(s) : holders[s][r] # {}

\* When the file (the assertion script, on the mainnet) says that the migration
\* is complete, it is in the hands of a Safe of two or more; the deployer owns
\* nothing and holds no role, but for those the record leaves to the Safe, which
\* can revoke them.
RecordIsHonest ==
    file.complete =>
        /\ threshold[file.safe] >= 2
        /\ \A s \in Surface : \A r \in RolesOf(s) :
              Held(s, r, Deployer) => <<s, r>> \in file.deferred /\ Admin(s, file.safe)
        /\ \A o \in Ownable \ (IF network = "testnet" THEN {"discountRegistry"} ELSE {}) :
              owner[o] = file.safe

\* migrateFullOwnership.js can no longer get through: the Safe has a threshold of
\* one, or lacks a role that the deployer cannot give it (any more).  The mainnet's
\* Safe has to have a threshold of two.
Stuck ==
    \/ network = "mainnet" /\ ~Preflight(file.safe)
    \/ /\ network = "testnet" /\ file.safe # NoParty
       /\ \/ threshold[file.safe] < 2
          \/ \E s \in Surface : \E r \in RolesOf(s) :
                /\ ~Held(s, r, file.safe)
                /\ ~(Held(s, r, Deployer) /\ Admin(s, Deployer))

\* The test of the Safe may be stopped between the pause and the unpause; whatever
\* scripts run in between, repeating it opens the controller again.
PauseIsLifted == halted ~> ~halted

\* The migration can be resumed after every interruption: it is recorded in the
\* end, on the testnet unless the scripts have been mixed into a corner.
Completes == <>(file.complete \/ Stuck)
=============================================================================
