------------------------ MODULE RegistrationPipeline ------------------------
(***************************************************************************)
(* The commit-reveal pipeline of the first web client                      *)
(* (frontend/src/hooks/_archive/useRegistrationPipeline.ts) against the    *)
(* upgradeable controller it drove (contracts/proxy): one name, one        *)
(* browser tab, one wallet.                                                *)
(*                                                                         *)
(* A flow is one click on "register".  It goes through the wallet twice,   *)
(* for commit() and for register(); each time the wallet may refuse, answer*)
(* with an error although the transaction went out, or not answer in time. *)
(* Between two awaits of a flow anything else may move: the chain, the     *)
(* account of the wallet, the administrator, and a second flow that was    *)
(* started after reset().                                                  *)
(*                                                                         *)
(* A flow's secret is fresh, so its commitment hash is the flow itself;    *)
(* the hash binds the account that was connected at the click as owner and *)
(* as sender.                                                              *)
(***************************************************************************)
EXTENDS Naturals, FiniteSets

CONSTANTS
    Flow,                 \* the clicks, numbered in their order
    WalletAccount,        \* the accounts of the wallet
    Other,                \* somebody else, who may take the name
    None,
    Fault,                \* what an administrator, or the account itself, can change
                          \* under a flow: the approval of the resolver, the price, the
                          \* USDC balance or allowance, the authority of the controller
    RETRIES,              \* SUBMISSION_RETRY_DELAYS_MS.length
    MIN_AGE_V2,           \* MIN_COMMITMENT_AGE of that controller
    MAX_AGE_V2,           \* MAX_COMMITMENT_AGE
    MATURITY_TOTAL,       \* TIMEOUT.MATURITY_TOTAL_MS, on the same clock
    PENDING,              \* the longest a transaction stays pending
    MaxMishap             \* bound: changes of the chain by others and of the account,
                          \* answers that are lost, prompts left open, resets

ASSUME PipelineAssumption ==
    /\ Flow \subseteq Nat /\ RETRIES \in Nat
    /\ Fault \subseteq {"resolver", "price", "payment", "authority"}
    /\ None \notin Nat /\ WalletAccount # {} /\ {Other, None} \cap WalletAccount = {} /\ Other # None
    /\ MIN_AGE_V2 \in Nat \ {0}
    /\ MAX_AGE_V2 \in Nat /\ MIN_AGE_V2 < MAX_AGE_V2
    /\ MATURITY_TOTAL \in Nat /\ MATURITY_TOTAL >= MIN_AGE_V2
    /\ PENDING \in Nat /\ PENDING < MAX_AGE_V2
    /\ MaxMishap \in Nat

VARIABLES
    flow,         \* of each flow: its place, account, attempts, transaction
    lock,         \* GLOBAL_REGISTER_LOCK
    addrRef,      \* addrRef.current
    connected,    \* the account active in the wallet
    prompts,      \* wallet prompts the flow no longer waits for
    txs,          \* the transactions pending, and those a flow looks at
    commitmentAge,\* of each flow's hash: None, or its age, capped past the window
    lapsed,       \* the flows whose hash has outlived its window once
    revealed,     \* usedCommitments
    holder,       \* the holder of the name
    faults,       \* what others have changed to the flow's disadvantage
    mishaps       \* how many of these have happened

clientVars == <<flow, lock, addrRef>>
chainVars  == <<commitmentAge, lapsed, revealed, holder, faults, mishaps>>
pipelineVars == <<clientVars, connected, prompts, txs, chainVars>>

Kind  == {"commit", "register"}
Ended == {"success", "failed", "drifted"}

\* Where the hook awaits something without a timeout: the client of the connector;
\* what the provider knows of a transaction whose receipt did not come; the block of
\* the fallback while the commitment matures; the modules imported for the checks; the
\* reads after a failed simulation.
Unguarded == {"binding", "commitVisible", "maturing", "checks", "simulating", "registerVisible"}

PipelineInit ==
    /\ flow = [f \in Flow |-> [at |-> "idle", account |-> None, attempt |-> 0,
                               n |-> 0, waited |-> 0]]
    /\ lock = FALSE /\ addrRef = None
    /\ connected \in WalletAccount
    /\ prompts = {} /\ txs = {}
    /\ commitmentAge = [f \in Flow |-> None]
    /\ lapsed = {} /\ revealed = {} /\ holder = None /\ faults = {} /\ mishaps = 0

------------------------------------------------------------------------------
(* The controller, ArcNSRegistrarControllerV2.                               *)

Committed(f) == commitmentAge[f] # None
Matured(f) == Committed(f) /\ commitmentAge[f] >= MIN_AGE_V2
Expired(f) == Committed(f) /\ commitmentAge[f] > MAX_AGE_V2

\* register() called by s with the arguments of flow f goes through.
Accepts(f, s) ==
    /\ s = flow[f].account
    /\ f \notin revealed /\ Matured(f) /\ ~Expired(f)
    /\ faults = {} /\ holder = None

CommitIncluded(f) ==
    /\ commitmentAge' = IF f \notin revealed /\ (~Committed(f) \/ Expired(f))
                        THEN [commitmentAge EXCEPT ![f] = 0] ELSE commitmentAge
    /\ UNCHANGED <<revealed, holder>>

RegisterIncluded(f, s) ==
    IF Accepts(f, s)
      THEN /\ commitmentAge' = [commitmentAge EXCEPT ![f] = None]
           /\ revealed' = revealed \cup {f}
           /\ holder' = flow[f].account
      ELSE UNCHANGED <<commitmentAge, revealed, holder>>

\* A flow looks at the transaction whose hash it was given, nobody at the others.
Mine(f, kind) == {t \in txs : t.flow = f /\ t.kind = kind /\ t.n = flow[f].n}
Watched(t) ==
    /\ t.n = flow[t.flow].n
    /\ flow[t.flow].at \in (IF t.kind = "commit" THEN {"commitSent", "commitVisible"}
                                                ELSE {"registerSent", "registerVisible"})

IncludeTx(t) ==
    /\ ~t.mined
    /\ IF t.kind = "commit" THEN CommitIncluded(t.flow) ELSE RegisterIncluded(t.flow, t.from)
    /\ txs' = (txs \ {t}) \cup
                 (IF Watched(t) THEN {[t EXCEPT !.mined = TRUE, !.waited = 0]} ELSE {})
    /\ UNCHANGED <<clientVars, connected, prompts, lapsed, faults, mishaps>>

Drop(t) ==
    /\ ~t.mined
    /\ txs' = txs \ {t}
    /\ UNCHANGED <<clientVars, connected, prompts, chainVars>>

Settle == \E t \in txs : IncludeTx(t) \/ Drop(t)

Mishap == mishaps < MaxMishap /\ mishaps' = mishaps + 1

Disturb ==
    /\ Mishap
    /\ \/ \E x \in Fault \ faults : faults' = faults \cup {x} /\ UNCHANGED holder
       \/ holder = None /\ holder' = Other /\ UNCHANGED faults
    /\ UNCHANGED <<clientVars, connected, prompts, txs, commitmentAge, lapsed, revealed>>

SwitchAccount ==
    /\ Mishap
    /\ connected' \in WalletAccount \ {connected}
    /\ UNCHANGED <<clientVars, prompts, txs, commitmentAge, lapsed, revealed, holder, faults>>

Older(age, most) == IF age > most THEN age ELSE age + 1

ClockTick ==
    /\ \A t \in txs : ~t.mined => t.waited < PENDING
    /\ txs' = {IF ~t.mined THEN [t EXCEPT !.waited = @ + 1] ELSE t : t \in txs}
    /\ commitmentAge' = [f \in Flow |-> IF Committed(f)
                                        THEN Older(commitmentAge[f], MAX_AGE_V2) ELSE None]
    /\ lapsed' = lapsed \cup {f \in Flow : Committed(f) /\ commitmentAge[f] >= MAX_AGE_V2}
    /\ flow' = [f \in Flow |-> IF flow[f].at = "maturing"
                    THEN [flow[f] EXCEPT !.waited = Older(@, MATURITY_TOTAL)] ELSE flow[f]]
    /\ UNCHANGED <<lock, addrRef, connected, prompts, revealed, holder, faults, mishaps>>

------------------------------------------------------------------------------
(* The hook.  Every action is the code between two awaits.                   *)

At(f, p) == flow[f].at = p
Go(f, p) ==
    /\ flow' = [flow EXCEPT ![f].at = p]
    /\ UNCHANGED <<lock, addrRef, connected, prompts, txs, chainVars>>

\* catch and finally: whatever ends a flow releases the lock and the reference,
\* also when they have become another flow's.
EndAs(f, p) ==
    /\ flow' = [flow EXCEPT ![f].at = p]
    /\ lock' = FALSE /\ addrRef' = None
Fail(f) == EndAs(f, "failed") /\ UNCHANGED <<connected, prompts, txs, chainVars>>

Begin(f) ==
    /\ At(f, "idle") /\ \A g \in Flow : g < f => ~At(g, "idle")
    /\ ~lock
    /\ lock' = TRUE /\ addrRef' = connected
    /\ flow' = [flow EXCEPT ![f].at = "binding", ![f].account = connected]
    /\ UNCHANGED <<connected, prompts, txs, chainVars>>

\* The connector has no client for the flow's account on this chain.
BindSender(f) ==
    /\ At(f, "binding")
    /\ Fail(f)

\* A zero gas balance ends the flow; other readings, and the comparison of the
\* hash with the controller's, do not.
Preflight(f) ==
    /\ At(f, "binding")
    /\ Go(f, "commit") \/ Fail(f)

\* One call of submit() within submitWithRetry.
Submission(f, kind) ==
    txs \cup {[flow |-> f, kind |-> kind, n |-> flow[f].attempt, from |-> connected,
               waited |-> 0, mined |-> FALSE]}

SubmitSent(f, kind) ==
    /\ txs' = Submission(f, kind)
    /\ flow' = [flow EXCEPT ![f].at = IF kind = "commit" THEN "commitSent" ELSE "registerSent",
                            ![f].n = flow[f].attempt, ![f].attempt = 0]
    /\ UNCHANGED <<lock, addrRef, connected, prompts, chainVars>>

\* An error came back; the transaction may have gone out all the same.
MayBePassedOn(f, kind) ==
    /\ \/ UNCHANGED <<txs, mishaps>>
       \/ txs' = Submission(f, kind) /\ Mishap
    /\ UNCHANGED <<commitmentAge, lapsed, revealed, holder, faults>>

\* Fault: the count of the attempts starts again after the last one.
SubmitRetriedForEver(f, kind) ==
    /\ MayBePassedOn(f, kind)
    /\ flow' = [flow EXCEPT ![f].attempt = IF @ < RETRIES THEN @ + 1 ELSE 0]
    /\ UNCHANGED <<lock, addrRef, connected, prompts>>

\* The pool is full or the provider failed, possibly after passing it on.
SubmitRetried(f, kind) ==
    /\ flow[f].attempt < RETRIES
    /\ MayBePassedOn(f, kind)
    /\ flow' = [flow EXCEPT ![f].attempt = @ + 1]
    /\ UNCHANGED <<lock, addrRef, connected, prompts>>

\* Refused, not retryable (a nonce conflict: the wallet may have sent it before),
\* or the retries are used up.
SubmitFailed(f, kind) ==
    /\ MayBePassedOn(f, kind)
    /\ EndAs(f, "failed")
    /\ UNCHANGED <<connected, prompts>>

\* The prompt times out and stays open in the wallet.
SubmitTimedOut(f, kind) ==
    /\ Mishap
    /\ prompts' = prompts \cup {<<f, kind>>}
    /\ EndAs(f, "failed")
    /\ UNCHANGED <<connected, txs, commitmentAge, lapsed, revealed, holder, faults>>

Submit(f, kind) ==
    /\ At(f, kind)
    /\ \/ SubmitSent(f, kind)
       \/ SubmitRetried(f, kind)
       \/ SubmitFailed(f, kind)
       \/ SubmitTimedOut(f, kind)

\* The user answers a prompt nobody waits for any more.
LateConfirm ==
    /\ \E p \in prompts, go \in BOOLEAN :
          /\ prompts' = prompts \ {p}
          /\ txs' = IF go THEN txs \cup {[flow |-> p[1], kind |-> p[2], n |-> RETRIES + 1,
                                          from |-> connected, waited |-> 0,
                                          mined |-> FALSE]}
                    ELSE txs
    /\ UNCHANGED <<clientVars, connected, chainVars>>

ProveTransactionVisible(f, kind) ==
    /\ At(f, IF kind = "commit" THEN "commitSent" ELSE "registerSent")
    /\ \/ /\ Mine(f, kind) # {}
          /\ Go(f, IF kind = "commit" THEN "commitVisible" ELSE "registerVisible")
       \/ Fail(f)

\* The receipt of commit(); its status is not looked at, the storage is next.
CommitReceipt(f) ==
    /\ At(f, "commitVisible")
    /\ \/ /\ \E t \in Mine(f, "commit") : t.mined /\ txs' = txs \ {t}
          /\ flow' = [flow EXCEPT ![f].at = "committed"]
          /\ UNCHANGED <<lock, addrRef, connected, prompts, chainVars>>
       \/ Fail(f)

StorageCheck(f) ==
    /\ At(f, "committed")
    /\ (Committed(f) /\ Go(f, "maturing")) \/ Fail(f)

\* address is the closure's, addrRef the reference shared by all flows.
DriftCheck(f) ==
    IF addrRef = flow[f].account
      THEN Go(f, "proof")
      ELSE EndAs(f, "drifted") /\ UNCHANGED <<connected, prompts, txs, chainVars>>

\* One turn of the loop, and what follows it without an await; a turn that finds
\* the commitment too young, or cannot read it, changes nothing.
MaturityPoll(f) ==
    /\ At(f, "maturing")
    /\ LET late == flow[f].waited > MATURITY_TOTAL IN
       \/ (late \/ ~Committed(f) \/ Expired(f)) /\ Fail(f)
       \/ ~late /\ Matured(f) /\ ~Expired(f) /\ DriftCheck(f)

FinalProof(f) ==
    /\ At(f, "proof")
    /\ \/ Matured(f) /\ ~Expired(f) /\ Go(f, "checks")
       \/ Fail(f)

ResolverCheck  == "resolver" \notin faults
PriceCheck     == "price" \notin faults
PaymentCheck   == "payment" \notin faults
RegistrarCheck == holder = None
AuthorityCheck == "authority" \notin faults

\* A reading that fails is passed over, an unfavourable one ends the flow.
PreSimulateChecks(f) ==
    /\ At(f, "checks")
    /\ \/ Go(f, "simulating")
       \/ /\ ~(ResolverCheck /\ PriceCheck /\ PaymentCheck /\ RegistrarCheck /\ AuthorityCheck)
          /\ Fail(f)

\* The simulation is made for the account of the click.
Simulate(f) ==
    /\ At(f, "simulating")
    /\ \/ Accepts(f, flow[f].account) /\ Go(f, "register")
       \/ Fail(f)

\* Fault: success as soon as the transaction is visible.
RegisterReceiptUnmined(f) ==
    /\ At(f, "registerVisible")
    /\ EndAs(f, "success")
    /\ UNCHANGED <<connected, prompts, txs, chainVars>>

\* A receipt, whatever its status, is a success.
RegisterReceipt(f) ==
    /\ At(f, "registerVisible")
    /\ \/ /\ \E t \in Mine(f, "register") : t.mined
          /\ EndAs(f, "success")
          /\ UNCHANGED <<connected, prompts, txs, chainVars>>
       \/ Fail(f)

\* The provider never answers, and no timer is set: the flow stays where it is, and
\* with it the lock.
Hang(f) ==
    /\ flow[f].at \in Unguarded
    /\ Go(f, "hung")

Reset ==
    /\ lock
    /\ Mishap
    /\ lock' = FALSE
    /\ UNCHANGED <<flow, addrRef, connected, prompts, txs, commitmentAge, lapsed, revealed, holder,
                   faults>>

FlowStep(f) ==
    \/ BindSender(f) \/ Preflight(f) \/ StorageCheck(f) \/ MaturityPoll(f)
    \/ \E kind \in Kind : Submit(f, kind) \/ ProveTransactionVisible(f, kind)
    \/ CommitReceipt(f) \/ FinalProof(f) \/ PreSimulateChecks(f)
    \/ Simulate(f) \/ RegisterReceipt(f)

PipelineNext ==
    \/ \E f \in Flow : Begin(f) \/ FlowStep(f) \/ Hang(f)
    \/ Reset \/ LateConfirm \/ SwitchAccount
    \/ Settle \/ Disturb \/ ClockTick

\* A flow that does not hang goes on: its other waits have deadlines (withTimeout and
\* the timers of the loops).  The chain includes or forgets what it was sent, and the
\* clock goes on.
PipelineFairness ==
    /\ \A f \in Flow : WF_pipelineVars(FlowStep(f))
    /\ WF_pipelineVars(Settle) /\ WF_pipelineVars(ClockTick)

PipelineSpec == PipelineInit /\ [][PipelineNext]_pipelineVars /\ PipelineFairness

------------------------------------------------------------------------------
\* The hook reports success on any receipt, whatever its status.  In spite of
\* retries, duplicates, late answers and resets that is right: the flow's own
\* commitment has been revealed and the name is the account's.  The exceptions:
\* the name was taken first, somebody changed the chain, the wallet had been
\* switched to another account when it signed, or the commitment outlived its
\* window before register() was included (a duplicate of commit() that was still
\* pending may have renewed it since).
SuccessIsReal ==
    \A f \in Flow : At(f, "success") =>
       \/ f \in revealed /\ holder = flow[f].account
       \/ f \notin revealed /\ holder # None
       \/ faults # {} \/ f \in lapsed
       \/ \E t \in Mine(f, "register") : t.mined /\ t.from # flow[f].account

\* A flow that has begun comes to an end, whatever the wallet, the provider and
\* the chain do, or hangs in one of the awaits that have no timeout: neither the
\* retries, nor the poll of the maturity, nor a lost transaction or an unanswered
\* prompt keeps it (and GLOBAL_REGISTER_LOCK) for ever.
FlowEnds == \A f \in Flow : At(f, "binding") ~> flow[f].at \in Ended \cup {"hung"}
=============================================================================
