------------------------------ MODULE OwnedNames ------------------------------
(***************************************************************************)
(* The list of a wallet's names (frontend/src/hooks/useMyDomains.ts): asked*)
(* of the subgraph and, when no endpoint answers, put together from the    *)
(* transfers to the wallet in the logs of both registrars.  The wallet     *)
(* changes, names are traded and the index lags behind while a load is     *)
(* under way; a load that is cleaned up goes on, and must change nothing.  *)
(*                                                                         *)
(* A load fixes what it answers when it reads, and delivers it later.  An  *)
(* effect runs after the page has been drawn.                              *)
(*                                                                         *)
(* Two panels of the page draw the list: the portfolio, and the panel where*)
(* one of the names is selected to be the primary name                     *)
(* (components/Portfolio.tsx, components/PrimaryName.tsx).  What is done to*)
(* the chain then is in PrimaryNameFlows.                                  *)
(***************************************************************************)
EXTENDS Naturals, FiniteSets

CONSTANTS
    OwnedName,     \* tokens of both registrars
    Owner,         \* wallets of the user
    Market,        \* everybody else
    NoOwner,       \* no wallet connected
    MaxSwitch,     \* bound: wallet changes and refetches
    MaxTrade       \* bound: transfers

ASSUME OwnedAssumption ==
    /\ Market \notin Owner /\ NoOwner \notin Owner /\ NoOwner # Market
    /\ MaxSwitch \in Nat /\ MaxTrade \in Nat

VARIABLES
    holder, held,  \* the registrars: who has a name, who has been sent it
    indexOwner,       \* the subgraph: who has a name
    address,       \* the connected wallet
    listDue,       \* a dependency of the effect has changed
    domains,       \* [names, source], with the reading they are from
    listLoading, listError,
    loads,         \* those under way; the last one started is not cancelled
    kept,          \* names with the wallet, here and in the index, since it was asked
    selectedDomain,   \* in the panel of the primary name: one name or none
    primarySetting,   \* setPrimaryName runs
    switches, trades

panelVars == <<selectedDomain, primarySetting>>
ownedVars == <<holder, held, indexOwner, address, listDue, domains, listLoading, listError, loads,
               kept, panelVars, switches, trades>>
chainOfNames == <<holder, held, indexOwner, trades>>

NoList == [names |-> {}, source |-> "none"]

OwnedInit ==
    /\ holder = [n \in OwnedName |-> Market] /\ indexOwner = holder
    /\ held = [w \in Owner |-> {}]
    /\ address = NoOwner /\ listDue = TRUE
    /\ domains = NoList /\ listLoading = FALSE /\ listError = FALSE
    /\ loads = {} /\ kept = {} /\ switches = 0 /\ trades = 0
    /\ selectedDomain = {} /\ primarySetting = FALSE

\* Names from the logs have no label and cannot be selected; of the others those
\* that have lapsed are taken to be left out.
Selectable(list) == IF list.source = "subgraph" THEN list.names ELSE {}

\* A new list drops the selection that is not in it.
DrawList == selectedDomain' = selectedDomain \cap Selectable(domains') /\ UNCHANGED primarySetting

TradeName(n, w) ==
    /\ trades < MaxTrade /\ trades' = trades + 1
    /\ w # holder[n] /\ holder' = [holder EXCEPT ![n] = w]
    /\ held' = IF w \in Owner THEN [held EXCEPT ![w] = @ \cup {n}] ELSE held
    /\ kept' = kept \ {n}
    /\ UNCHANGED <<indexOwner, address, listDue, domains, listLoading, listError, loads, panelVars, switches>>

\* The index follows one name at a time.
CatchUp(n) ==
    /\ indexOwner[n] # holder[n] /\ indexOwner' = [indexOwner EXCEPT ![n] = holder[n]]
    /\ UNCHANGED <<holder, held, address, listDue, domains, listLoading, listError, loads, kept,
                   panelVars, switches, trades>>

\* useAccount() gives another address, or refetch() moves the tick.
Depend(w) ==
    /\ switches < MaxSwitch /\ switches' = switches + 1
    /\ address' = w /\ listDue' = TRUE
    /\ UNCHANGED <<chainOfNames, domains, listLoading, listError, loads, kept, panelVars>>

Cancelled(L) == {[l EXCEPT !.live = FALSE] : l \in L}

\* The cleanup of the run before, then the run.  Without a wallet the list is
\* emptied; a load that was under way has left isLoading on.
RunListEffect ==
    /\ listDue /\ listDue' = FALSE
    /\ IF address = NoOwner
         THEN /\ domains' = NoList /\ DrawList /\ loads' = Cancelled(loads) /\ kept' = {}
              /\ UNCHANGED <<listLoading, listError>>
         ELSE /\ listLoading' = TRUE /\ listError' = FALSE
              /\ loads' = Cancelled(loads) \cup
                            {[for |-> address, stage |-> "index", names |-> {}, live |-> TRUE]}
              /\ kept' = {n \in OwnedName : holder[n] = address /\ indexOwner[n] = address}
              /\ UNCHANGED <<domains, panelVars>>
    /\ UNCHANGED <<chainOfNames, address, switches>>

Owned(owners, w) == {n \in OwnedName : owners[n] = w}

\* getDomainsByOwnerResult: an endpoint answers, or none does.  Cancelled by then,
\* the load does not go to the logs.
ReadIndex(l) ==
    /\ l.stage = "index"
    /\ \/ loads' = (loads \ {l}) \cup
                     {[l EXCEPT !.stage = "subgraph", !.names = Owned(indexOwner, l.for)]}
       \/ l.live /\ loads' = (loads \ {l}) \cup {[l EXCEPT !.stage = "logs"]}
       \/ ~l.live /\ loads' = loads \ {l}
    /\ UNCHANGED <<chainOfNames, address, listDue, domains, listLoading, listError, kept, panelVars, switches>>

\* loadViaRpc: every name ever sent to the wallet, whoever has it now; a name whose
\* expiry cannot be read is left out.
ReadLogs(l) ==
    /\ l.stage = "logs"
    /\ \/ \E names \in SUBSET held[l.for] :
             loads' = (loads \ {l}) \cup {[l EXCEPT !.stage = "rpc", !.names = names]}
       \/ loads' = (loads \ {l}) \cup {[l EXCEPT !.stage = "failed"]}
    /\ UNCHANGED <<chainOfNames, address, listDue, domains, listLoading, listError, kept, panelVars, switches>>

\* setDomains or setError, and the finally.
EndLoad(l) ==
    /\ l.stage \in {"subgraph", "rpc", "failed"} /\ loads' = loads \ {l}
    /\ IF l.live
         THEN /\ listLoading' = FALSE /\ listError' = (l.stage = "failed")
              /\ domains' = IF l.stage = "failed" THEN domains
                              ELSE [names |-> l.names, source |-> l.stage]
              /\ DrawList
         ELSE UNCHANGED <<domains, listLoading, listError, panelVars>>
    /\ UNCHANGED <<chainOfNames, address, listDue, kept, switches>>

------------------------------------------------------------------------------
(* The panels.                                                               *)

Connected == address # NoOwner

\* The portfolio shows the list; the other panel does not look at the error.
ListShown == Connected /\ ~listLoading /\ ~listError

PanelOnly == UNCHANGED <<chainOfNames, address, listDue, domains, listLoading, listError, loads, kept,
                         switches>>

\* One of the options, or none again.
SelectDomain(choice) ==
    /\ Connected /\ ~listLoading /\ ~primarySetting /\ Selectable(domains) # {}
    /\ choice \subseteq Selectable(domains) /\ Cardinality(choice) <= 1
    /\ selectedDomain' = choice /\ UNCHANGED primarySetting /\ PanelOnly

canSubmit ==
    /\ Connected /\ ~listLoading /\ ~primarySetting
    /\ selectedDomain # {} /\ selectedDomain \subseteq Selectable(domains)

HandleSet ==
    /\ canSubmit /\ primarySetting' = TRUE
    /\ UNCHANGED selectedDomain /\ PanelOnly

\* With whatever outcome.
SetPrimaryReturns ==
    /\ primarySetting /\ primarySetting' = FALSE
    /\ selectedDomain' = {} /\ PanelOnly

OwnedNext ==
    \/ \E n \in OwnedName : CatchUp(n) \/ \E w \in Owner \cup {Market} : TradeName(n, w)
    \/ \E w \in Owner \cup {NoOwner} : Depend(w)
    \/ RunListEffect
    \/ \E l \in loads : ReadIndex(l) \/ ReadLogs(l) \/ EndLoad(l)
    \/ \E choice \in SUBSET OwnedName : SelectDomain(choice)
    \/ HandleSet \/ SetPrimaryReturns

OwnedSpec == OwnedInit /\ [][OwnedNext]_ownedVars

------------------------------------------------------------------------------
\* However late an answer comes, and whatever the wallet was when it was asked, a
\* list that is shown (no load under way, no error, the effect not pending) has only
\* names that have been the connected wallet's, and from the subgraph it has every
\* name that the wallet had, and the index knew it had, from the question until now.
\* From the logs it may lack names and may have names that were sent away.  A name
\* selected for the primary name is never one of a list that is gone.
OwnListShown ==
    /\ ListShown /\ ~listDue =>
         /\ domains.names \subseteq held[address]
         /\ domains.source = "subgraph" => kept \subseteq domains.names
    /\ selectedDomain \subseteq Selectable(domains)

\* "Hard guard: only proceed if the selection is a verified owned domain"
\* (components/MyDomains.tsx), a logic that components/PrimaryName.tsx says it
\* preserves: what can be submitted as the primary name has been the connected
\* wallet's.  MyDomains draws nothing but the error after a load that failed;
\* PrimaryName keeps offering the list of the wallet before.
SelectionIsOwned == canSubmit /\ ~listDue => selectedDomain \subseteq held[address]
===============================================================================
