--------------------------- MODULE PrimaryNameFlows ---------------------------
(***************************************************************************)
(* The flows of the live web client that change the primary name of the    *)
(* connected account and the address a name resolves to: "set as primary"  *)
(* (hooks/usePrimaryName.ts), registration (hooks/useRegistration.ts and   *)
(* components/DomainCard.tsx) and "receiving address"                      *)
(* (hooks/useReceivingAddress.ts).  Each is several transactions of one    *)
(* wallet, with a prompt before and a wait after most of them.  They run   *)
(* in several components and browser tabs at once; a component knows the   *)
(* primary name by a cached reading.                                       *)
(*                                                                         *)
(* A wallet's transactions are included in the order of their nonces.      *)
(* Wallet and network are right; approve and commit of a registration      *)
(* change nothing here and belong to the step before its last prompt.      *)
(***************************************************************************)
EXTENDS Naturals, Sequences

CONSTANTS
    Tab,             \* components that may run a flow
    Title,           \* names
    Me, Someone,     \* the connected account, anybody else
    Nobody,          \* no owner, no address, no name
    MaxClick,        \* bound: flows started
    MaxOutside       \* bound: what others do, and transactions that revert

ASSUME FlowsAssumption ==
    /\ Me # Someone /\ Me # Nobody /\ Someone # Nobody /\ Nobody \notin Title
    /\ MaxClick \in Nat /\ MaxOutside \in Nat

VARIABLES
    nameOwner,       \* owner of the token and of its node
    resolves,        \* addr of the resolver
    primaryName,     \* name of the account's reverse node
    seen,            \* the cached reading of it, shared by the components
    outbox,          \* transactions sent and not included, by nonce
    tab,             \* of each component the flow it runs
    excused,         \* names with a reason not to resolve to the account, see PrimaryKeepsAddress
    clicks, outside

flowVars == <<nameOwner, resolves, primaryName, seen, outbox, tab, excused, clicks, outside>>
worldVars == <<nameOwner, resolves, primaryName>>

\* title: the name the flow is for; prev: prevPrimary as captured at the click.
Resting == [at |-> "idle", title |-> Nobody, prev |-> Nobody]
Busy(t) == tab[t].at # "idle"

FlowsInit ==
    /\ primaryName \in Title /\ seen = primaryName
    /\ resolves = [n \in Title |-> IF n = primaryName THEN Me ELSE Nobody]
    /\ nameOwner \in {resolves, [n \in Title |-> Nobody]}
    /\ outbox = <<>> /\ tab = [t \in Tab |-> Resting]
    /\ excused = {} /\ clicks = 0 /\ outside = 0

------------------------------------------------------------------------------
(* The chain.                                                                *)

Send(t, what, n) == outbox' = Append(outbox, [tab |-> t, what |-> what, title |-> n, prev |-> tab[t].prev])
Pending(t) == \E i \in DOMAIN outbox : outbox[i].tab = t
Outside == outside < MaxOutside /\ outside' = outside + 1

\* A flow, or a transaction under way, gives up n as the primary name.
BeingGivenUp(n) ==
    \/ \E t \in Tab : tab[t].prev = n
    \/ \E i \in DOMAIN outbox : outbox[i].prev = n

Reverts(tx) ==
    CASE tx.what = "setName"                        -> FALSE
      [] tx.what \in {"register", "registerPrimary"} -> nameOwner[tx.title] # Nobody
      [] OTHER                                      -> nameOwner[tx.title] # Me

Effect(tx) ==
    /\ nameOwner' = IF tx.what \in {"register", "registerPrimary"}
                      THEN [nameOwner EXCEPT ![tx.title] = Me] ELSE nameOwner
    /\ resolves' = CASE tx.what \in {"setAddr", "registerPrimary"} -> [resolves EXCEPT ![tx.title] = Me]
                     [] tx.what = "setOtherAddr"  -> [resolves EXCEPT ![tx.title] = Someone]
                     [] tx.what = "clearAddr"     -> [resolves EXCEPT ![tx.title] = Nobody]
                     [] OTHER                     -> resolves
    /\ primaryName' = IF tx.what \in {"setName", "registerPrimary"} THEN tx.title ELSE primaryName
    /\ excused' = CASE tx.what \in {"setAddr", "registerPrimary"} ->
                            IF BeingGivenUp(tx.title) THEN excused ELSE excused \ {tx.title}
                    [] tx.what = "setOtherAddr"                   -> excused \cup {tx.title}
                    [] OTHER                                      -> excused

\* The next transaction is included; it may revert for reasons of its own (the
\* price, the pause, gas), and then the name its flow gives up is left cleared.
Confirmation ==
    /\ outbox # <<>> /\ outbox' = Tail(outbox)
    /\ LET tx == Head(outbox) IN
       \/ ~Reverts(tx) /\ Effect(tx) /\ UNCHANGED outside
       \/ /\ (Reverts(tx) /\ UNCHANGED outside) \/ Outside
          /\ excused' = excused \cup ({tx.prev, tx.title} \ {Nobody})
          /\ UNCHANGED worldVars
    /\ UNCHANGED <<seen, tab, clicks>>

\* A name is sold, or taken by somebody else, whose address it then gets.
LoseName(n) ==
    /\ Outside
    /\ nameOwner[n] # Someone
    /\ nameOwner' = [nameOwner EXCEPT ![n] = Someone]
    /\ resolves' \in {resolves, [resolves EXCEPT ![n] = Someone]}
    /\ UNCHANGED <<primaryName, seen, outbox, tab, excused, clicks>>

------------------------------------------------------------------------------
(* The flows.                                                                *)

\* Two flows in conflict: one gives up the name that the other sets.
Click(t, at, n, prev) ==
    /\ ~Busy(t) /\ clicks < MaxClick /\ clicks' = clicks + 1
    /\ tab' = [tab EXCEPT ![t] = [at |-> at, title |-> n, prev |-> prev]]
    /\ excused' = excused \cup
          {m \in Title : \E u \in Tab \ {t} : /\ Busy(u)
                                              /\ \/ m = n /\ tab[u].prev = n
                                                 \/ m = prev /\ tab[u].title = prev}
    /\ UNCHANGED <<worldVars, seen, outbox, outside>>
Goes(t, at) ==
    /\ tab' = [tab EXCEPT ![t].at = at]
    /\ UNCHANGED <<worldVars, clicks, outside>>
Ends(t) ==
    /\ tab' = [tab EXCEPT ![t] = Resting]
    /\ UNCHANGED <<worldVars, clicks, outside>>
Excuse(names) == excused' = excused \cup names

\* The user may refuse a prompt, or the wallet finds that the call reverts.
Prompt(t, at, what, n, then) ==
    /\ tab[t].at = at
    /\ Send(t, what, n) /\ Goes(t, then)
    /\ UNCHANGED <<seen, excused>>
Refused(t, at) == tab[t].at = at /\ Ends(t) /\ UNCHANGED <<seen, outbox, excused>>

\* waitForTransactionReceipt, whose status is not looked at.
Receipt(t, at) == tab[t].at = at /\ ~Pending(t) /\ UNCHANGED outbox
GivenUp(t, at) == tab[t].at = at /\ Pending(t) /\ UNCHANGED outbox

Refetch ==
    /\ seen' = primaryName
    /\ UNCHANGED <<worldVars, outbox, tab, excused, clicks, outside>>

------------------------------------------------------------------------------
(* setPrimaryName.                                                           *)

\* A name of the list of domains, which may be out of date, or one whose
\* registration has just been announced.
SetPrimaryName(t, n) ==
    /\ nameOwner[n] # Nobody \/ \E i \in DOMAIN outbox : outbox[i].title = n
    /\ Click(t, "naming", n, seen)

SetName(t) ==
    \/ Prompt(t, "naming", "setName", tab[t].title, "named")
    \/ Refused(t, "naming")
NameReceipt(t) ==
    \/ Receipt(t, "named") /\ Goes(t, "checking") /\ seen' = primaryName /\ UNCHANGED excused
    \/ GivenUp(t, "named") /\ Ends(t) /\ Excuse({tab[t].title}) /\ UNCHANGED seen

CheckAddr(t) ==
    /\ tab[t].at = "checking"
    /\ UNCHANGED outbox
    /\ \/ /\ Goes(t, IF resolves[tab[t].title] = Me THEN "clearing" ELSE "syncing")
          /\ UNCHANGED <<seen, excused>>
       \* The address cannot be read: the flow neither sets nor clears anything more.
       \/ /\ Ends(t) /\ seen' = primaryName
          /\ Excuse(IF resolves[tab[t].title] = Me THEN {} ELSE {tab[t].title})
SyncAddr(t) ==
    \/ Prompt(t, "syncing", "setAddr", tab[t].title, "synced")
    \/ /\ tab[t].at = "syncing" /\ Goes(t, "clearing")
       /\ Excuse({tab[t].title}) /\ UNCHANGED <<seen, outbox>>
SyncReceipt(t) ==
    /\ Receipt(t, "synced") \/ GivenUp(t, "synced")
    /\ Goes(t, "clearing")
    /\ UNCHANGED <<seen, excused>>

Finish(t) == Ends(t) /\ seen' = primaryName /\ UNCHANGED <<outbox, excused>>

------------------------------------------------------------------------------
(* clearPrevPrimaryAddr.                                                     *)

\* Fault: the new name is not told from the previous one.
ToClearAlways(t) == tab[t].prev # Nobody
ToClear(t) == tab[t].prev \notin {Nobody, tab[t].title}

ClearPrevPrimaryAddr(t) ==
    /\ tab[t].at = "clearing"
    /\ IF ToClear(t) /\ nameOwner[tab[t].prev] = Me
         THEN Goes(t, "clearPrompt") /\ UNCHANGED <<seen, outbox, excused>>
         ELSE Finish(t)
ClearAddr(t) ==
    \/ Prompt(t, "clearPrompt", "clearAddr", tab[t].prev, "cleared")
    \/ tab[t].at = "clearPrompt" /\ Finish(t)
ClearReceipt(t) == (Receipt(t, "cleared") \/ GivenUp(t, "cleared")) /\ Finish(t)

------------------------------------------------------------------------------
(* Registration and receiving address.                                       *)

RegisterName(t, n, reverse) ==
    /\ nameOwner[n] = Nobody
    /\ Click(t, IF reverse THEN "registeringPrimary" ELSE "registering", n,
             IF reverse THEN seen ELSE Nobody)

\* The hash alone is success, and the effect in DomainCard goes on to clear the
\* previous name, unless the box has been unticked meanwhile.
SendRegister(t) ==
    \/ \E at \in {"clearing", "idle"} : Prompt(t, "registeringPrimary", "registerPrimary", tab[t].title, at)
    \/ Prompt(t, "registering", "register", tab[t].title, "idle")
    \/ Refused(t, "registering") \/ Refused(t, "registeringPrimary")

\* The owner is read before the prompt.
SetReceivingAddress(t, n, other) ==
    /\ nameOwner[n] = Me
    /\ Click(t, IF other THEN "addressingOther" ELSE "addressing", n, Nobody)
SendAddress(t) ==
    \/ Prompt(t, "addressing", "setAddr", tab[t].title, "addressed")
    \/ Prompt(t, "addressingOther", "setOtherAddr", tab[t].title, "addressed")
    \/ Refused(t, "addressing") \/ Refused(t, "addressingOther")
AddressReceipt(t) ==
    /\ Receipt(t, "addressed") \/ GivenUp(t, "addressed")
    /\ Ends(t)
    /\ UNCHANGED <<seen, excused>>

TabStep(t) ==
    \/ SetName(t) \/ NameReceipt(t) \/ CheckAddr(t) \/ SyncAddr(t) \/ SyncReceipt(t)
    \/ ClearPrevPrimaryAddr(t) \/ ClearAddr(t) \/ ClearReceipt(t)
    \/ SendRegister(t) \/ SendAddress(t) \/ AddressReceipt(t)

FlowsNext ==
    \/ Confirmation \/ Refetch
    \/ \E n \in Title : LoseName(n)
    \/ \E t \in Tab, n \in Title :
          \/ SetPrimaryName(t, n)
          \/ \E choice \in BOOLEAN : RegisterName(t, n, choice) \/ SetReceivingAddress(t, n, choice)
    \/ \E t \in Tab : TabStep(t)

FlowsSpec == FlowsInit /\ [][FlowsNext]_flowVars

------------------------------------------------------------------------------
\* When no flow is under way, the account's primary name, if the account holds it,
\* resolves to the account: no flow clears the address of the name that another
\* one, or the same one, has made primary, in any order of prompts, receipts and
\* inclusions.  A name is excused, until its address is set again, when
\*   - the user pointed it elsewhere, or refused the prompt for its address;
\*   - the client gave up waiting for setName, or could not read the address, and
\*     left it as it was;
\*   - a transaction about it reverted and the client went on, for it does not
\*     look at the status of receipts and takes a hash for a registration;
\*   - two flows were in conflict about it, one to set it and one to give it up.
PrimaryKeepsAddress ==
    outbox = <<>> /\ (\A t \in Tab : ~Busy(t)) /\ primaryName \in Title =>
        \/ nameOwner[primaryName] # Me \/ resolves[primaryName] = Me
        \/ primaryName \in excused
===============================================================================
