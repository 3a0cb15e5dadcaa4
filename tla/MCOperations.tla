----------------------------- MODULE MCOperations -----------------------------
(***************************************************************************)
(* The operator's three procedures over one deployment.  They touch        *)
(* different contracts, or different fields of them, and one person carries *)
(* them out, so a behaviour is a behaviour of one of them.                 *)
(***************************************************************************)
EXTENDS AdminMigration, ReverseMigration, MetadataCutover

VARIABLE procedure

operationsVars == <<procedure, adminVars, reverseVars, cutoverVars>>

OperationsInit ==
    /\ procedure \in {"handover", "reverse", "cutover"}
    /\ AdminInit /\ (procedure # "handover" => network = "testnet")
    /\ ReverseInit
    /\ CutoverInit /\ (procedure # "cutover" => old = new)

Handover(A) == procedure = "handover" /\ A /\ UNCHANGED <<procedure, reverseVars, cutoverVars>>
Reverse(A)  == procedure = "reverse"  /\ A /\ UNCHANGED <<procedure, adminVars, cutoverVars>>
Exchange(A) == procedure = "cutover"  /\ A /\ UNCHANGED <<procedure, adminVars, reverseVars>>

OperationsNext == Handover(AdminNext) \/ Reverse(ReverseNext) \/ Exchange(CutoverNext)

\* The fairness of the three modules.
OperationsFairness ==
    /\ WF_operationsVars(Handover(ScriptStep))
    /\ SF_operationsVars(Handover(StartDeployMultisig(FALSE, FALSE)))
    /\ SF_operationsVars(Handover(StartMigrateFull))
    /\ SF_operationsVars(Handover(StartMainnetScript))
    /\ SF_operationsVars(Handover(StartSafeTest))
    /\ SF_operationsVars(Handover(AssertHandoff))
    /\ WF_operationsVars(Reverse(JobStep)) /\ SF_operationsVars(Reverse(SecurityFixes))
    /\ SF_operationsVars(Reverse(ValidateMigration))

OperationsSpec == OperationsInit /\ [][OperationsNext]_operationsVars /\ OperationsFairness

\* The handover of the authority can be resumed after every interruption: it is
\* recorded in the end.
HandoverCompletes == procedure = "handover" => Completes

\* The replacement of the reverse registrar recovers from every interruption.
ReverseIsRepaired == procedure = "reverse" => ReverseRecovers
==============================================================================
