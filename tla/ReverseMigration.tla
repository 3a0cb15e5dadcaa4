--------------------------- MODULE ReverseMigration ---------------------------
(***************************************************************************)
(* Replacing the reverse registrar of a running deployment: the scripts    *)
(* migrateSecurityFixes, migrateReverseRegistrar and validateMigration of  *)
(* scripts/v3.                                                             *)
(*                                                                         *)
(* For a primary name to be written the reverse registrar that the         *)
(* controllers call must own the node addr.reverse and hold CONTROLLER_ROLE *)
(* of the resolver.  These are four writes to four contracts, in different *)
(* orders in the two scripts; each run begins with a new reverse registrar, *)
(* and the deployment file, by which the next run knows the old one, is    *)
(* written at the end.  Controllers call the reverse registrar inside      *)
(* try/catch, so nothing else fails while the pieces do not fit.  The      *)
(* scripts also upgrade the controllers, to the code they are run with;    *)
(* code that is on the chain already is not deployed again.                *)
(***************************************************************************)
EXTENDS Naturals, Sequences, FiniteSets

CONSTANTS
    Registrar,       \* reverse registrars; one nothing refers to is as good as new
    First,           \* the one deployV3 set up
    NoRegistrar,
    MaxInterrupt     \* bound: runs that stop before their end, for whatever reason

ASSUME ReverseAssumption == First \in Registrar /\ NoRegistrar \notin Registrar /\ MaxInterrupt \in Nat

VARIABLES
    nodeOwner,       \* owner of the node addr.reverse
    trusted,         \* holders of CONTROLLER_ROLE among the reverse registrars
    pointer,         \* reverseRegistrar() of each controller
    code,            \* the implementation of each controller
    record,          \* the deployment file: current, old, implementations
    job,             \* the script that is running
    verdict,         \* of the validation since the last script
    interrupts

wiring      == <<nodeOwner, trusted, pointer, code>>
reverseVars == <<wiring, record, job, verdict, interrupts>>

Controllers == {"arcController", "circleController"}

NoJob == [script |-> "none", new |-> NoRegistrar, old |-> NoRegistrar, oldTrusted |-> FALSE, todo |-> <<>>]

ReverseInit ==
    /\ nodeOwner = First /\ trusted = {First}
    /\ pointer = [c \in Controllers |-> First]
    /\ code = [c \in Controllers |-> "first"]
    /\ record = [current |-> First, old |-> NoRegistrar, code |-> code]
    /\ job = NoJob /\ verdict = "none" /\ interrupts = 0

Quiet == job = NoJob
Fresh == CHOOSE r \in Registrar : /\ r \notin trusted \cup {nodeOwner, record.current, record.old}
                                  /\ \A c \in Controllers : pointer[c] # r

Begin(script, old, todo) ==
    /\ Quiet
    /\ job' = [script |-> script, new |-> Fresh, old |-> old,
               oldTrusted |-> old \in trusted, todo |-> todo]
    /\ verdict' = "none"
    /\ UNCHANGED <<wiring, record, interrupts>>

SecuritySteps == <<"deploy", "upgradeArc", "upgradeCircle", "node",
                   "grant", "revoke", "pointArc", "pointCircle", "confirm">>

\* Fault: the old one is the one before the last, as in the other script.
SecurityFixesPrevious ==
    Begin("migrateSecurityFixes",
          IF record.old # NoRegistrar THEN record.old ELSE record.current, SecuritySteps)

\* Whether the old one has to be stripped is read here and used at "revoke".
SecurityFixes ==
    Begin("migrateSecurityFixes", record.current, SecuritySteps)

\* The old one is what the file calls old, if it does: on a second migration
\* that is the registrar before the last.
PreviousOf(file) == IF file.old # NoRegistrar THEN file.old ELSE file.current
ReverseRegistrarOnly ==
    Begin("migrateReverseRegistrar", PreviousOf(record),
          <<"deploy", "upgradeArc", "upgradeCircle", "pointArc", "pointCircle",
            "setOwner", "grant", "revoke", "confirm">>)

Now(step) == job.todo # <<>> /\ Head(job.todo) = step
Done == job' = [job EXCEPT !.todo = Tail(@)] /\ UNCHANGED <<verdict, interrupts>>
Interrupt == /\ interrupts < MaxInterrupt /\ interrupts' = interrupts + 1
             /\ job' = NoJob /\ UNCHANGED verdict

Deploy == Now("deploy") /\ Done /\ UNCHANGED <<wiring, record>>

Upgrade(c) ==
    /\ Now(IF c = "arcController" THEN "upgradeArc" ELSE "upgradeCircle")
    /\ code' = [code EXCEPT ![c] = "second"]
    /\ Done /\ UNCHANGED <<nodeOwner, trusted, pointer, record>>

\* The deployer owns the node "reverse" and with it may move its child.
MoveNode ==
    /\ Now("node")
    /\ nodeOwner' = job.new
    /\ Done /\ UNCHANGED <<trusted, pointer, code, record>>

\* registry.setOwner by the deployer, who is not the owner of addr.reverse: it
\* reverts, after both controllers have been switched.
SetNodeOwner ==
    /\ Now("setOwner")
    /\ nodeOwner # job.new
    /\ Interrupt /\ UNCHANGED <<wiring, record>>

GrantController ==
    /\ Now("grant")
    /\ trusted' = trusted \cup {job.new}
    /\ Done /\ UNCHANGED <<nodeOwner, pointer, code, record>>

RevokeOld ==
    /\ Now("revoke")
    /\ trusted' = IF job.oldTrusted THEN trusted \ {job.old} ELSE trusted
    /\ Done /\ UNCHANGED <<nodeOwner, pointer, code, record>>

\* Fault: the second controller keeps its registrar.
PointArcOnly(c) ==
    /\ Now(IF c = "arcController" THEN "pointArc" ELSE "pointCircle")
    /\ pointer' = [pointer EXCEPT !["arcController"] = job.new]
    /\ Done /\ UNCHANGED <<nodeOwner, trusted, code, record>>

Point(c) ==
    /\ Now(IF c = "arcController" THEN "pointArc" ELSE "pointCircle")
    /\ pointer' = [pointer EXCEPT ![c] = job.new]
    /\ Done /\ UNCHANGED <<nodeOwner, trusted, code, record>>

Confirmed ==
    /\ nodeOwner = job.new /\ job.new \in trusted /\ job.old \notin trusted
    /\ \A c \in Controllers : pointer[c] = job.new

\* The confirmations, and then the file, with the implementations read after the
\* upgrades.
Confirm ==
    /\ Now("confirm")
    /\ IF Confirmed
         THEN /\ record' = [current |-> job.new, old |-> record.current, code |-> code]
              /\ job' = NoJob /\ UNCHANGED <<verdict, interrupts>>
         ELSE Interrupt /\ UNCHANGED record
    /\ UNCHANGED wiring

Stop ==
    /\ ~Quiet /\ Interrupt
    /\ UNCHANGED <<wiring, record>>

\* validateMigration.js, checks 1 to 7.  It looks at one old registrar, the one in
\* the file; on the live network the checks that send transactions are skipped.
InOrder ==
    /\ nodeOwner = record.current /\ record.current \in trusted
    /\ record.old # NoRegistrar => record.old \notin trusted
    /\ \A c \in Controllers : code[c] = record.code[c] /\ pointer[c] = record.current
ValidateMigration ==
    /\ Quiet /\ verdict = "none"
    /\ verdict' = IF InOrder THEN "passed" ELSE "failed"
    /\ UNCHANGED <<wiring, record, job, interrupts>>

JobStep ==
    \/ Deploy \/ MoveNode \/ SetNodeOwner \/ GrantController \/ RevokeOld
    \/ \E c \in Controllers : Upgrade(c) \/ Point(c)
    \/ Confirm

\* While the bound of interruptions is not used up, so that every run can end.
ReverseNext ==
    \/ SecurityFixes
    \/ interrupts < MaxInterrupt /\ ReverseRegistrarOnly
    \/ JobStep \/ Stop \/ ValidateMigration

\* A script goes on or stops; the security migration is run again, and validated.
ReverseFairness ==
    /\ WF_reverseVars(JobStep)
    /\ SF_reverseVars(SecurityFixes) /\ SF_reverseVars(ValidateMigration)

ReverseSpec == ReverseInit /\ [][ReverseNext]_reverseVars /\ ReverseFairness

------------------------------------------------------------------------------
ReverseTypeOK ==
    /\ nodeOwner \in Registrar /\ trusted \subseteq Registrar
    /\ pointer \in [Controllers -> Registrar]
    /\ code \in [Controllers -> {"first", "second"}]
    /\ record.current \in Registrar /\ record.old \in Registrar \cup {NoRegistrar}
    /\ record.code \in [Controllers -> {"first", "second"}]
    /\ verdict \in {"none", "passed", "failed"}
    /\ job.new \in Registrar \cup {NoRegistrar} /\ job.old \in Registrar \cup {NoRegistrar}
    /\ job.oldTrusted \in BOOLEAN /\ interrupts \in 0..MaxInterrupt

\* CONTROLLER_ROLE writes every record of the resolver.  Between two runs no
\* reverse registrar but the current one holds it, save one for each run that
\* was stopped: the next run does not know the registrar it left behind.
OnlyCurrentTrusted ==
    Quiet => Cardinality(trusted \ {record.current}) <= interrupts

\* However often the scripts stop half way, running the security migration again
\* brings the writes and the file back together, as the validation then confirms.
ReverseRecovers == []<>(Quiet /\ verdict = "passed")
=============================================================================
