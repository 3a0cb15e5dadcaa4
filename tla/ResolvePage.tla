----------------------------- MODULE ResolvePage -----------------------------
(***************************************************************************)
(* The resolve page (frontend/src/app/resolve/page.tsx): the address of the*)
(* name asked is read by an effect of its own, its owner and expiry by     *)
(* three queries that are kept by name (@tanstack/react-query).  The page  *)
(* shows what it has when all four have settled.                           *)
(*                                                                         *)
(* A reading is represented by the name it was made for.  An effect runs   *)
(* after the page has been drawn.                                          *)
(***************************************************************************)
EXTENDS Naturals

CONSTANTS
    Word,          \* valid names
    Registered,    \* those that ownerOf() answers for
    NoWord,        \* nothing asked, or a query that does not parse
    MaxAsk         \* bound: questions and retries

ASSUME PageAssumption == Registered \subseteq Word /\ NoWord \notin Word /\ MaxAsk \in Nat

VARIABLES
    queried,
    effectDue,     \* a dependency of the effect has changed
    data,          \* the address shown: the name it is of
    isLoading,
    addressError,
    call,          \* the effect's own call, not cancelled: the name it is for
    lateCalls,     \* cancelled ones
    reads,         \* of each name the three queries together
    asks

pageVars == <<queried, effectDue, data, isLoading, addressError, call, lateCalls, reads, asks>>

PageInit ==
    /\ queried = NoWord /\ effectDue = FALSE /\ data = NoWord
    /\ isLoading = FALSE /\ addressError = FALSE
    /\ call = NoWord /\ lateCalls = {}
    /\ reads = [w \in Word |-> "none"] /\ asks = 0

\* handleResolve.  The queries of a name start unless they are kept.
HandleResolve(w) ==
    /\ asks < MaxAsk /\ asks' = asks + 1
    /\ queried' = w /\ effectDue' = (effectDue \/ w # queried)
    /\ reads' = IF w # NoWord /\ reads[w] # "loaded" THEN [reads EXCEPT ![w] = "pending"] ELSE reads
    /\ UNCHANGED <<data, isLoading, addressError, call, lateCalls>>

\* The cleanup of the run before cancels its call.
RunEffect ==
    /\ effectDue /\ effectDue' = FALSE
    /\ lateCalls' = lateCalls \cup ({call} \ {NoWord})
    /\ call' = queried
    /\ IF queried = NoWord
         THEN data' = NoWord /\ UNCHANGED <<isLoading, addressError>>
         ELSE isLoading' = TRUE /\ addressError' = FALSE /\ UNCHANGED data
    /\ UNCHANGED <<queried, reads, asks>>

AddressRead ==
    /\ call # NoWord /\ call' = NoWord /\ isLoading' = FALSE
    /\ \/ data' = call /\ UNCHANGED addressError
       \/ data' = NoWord /\ addressError' = TRUE
    /\ UNCHANGED <<queried, effectDue, lateCalls, reads, asks>>

LateAddressRead ==
    \E w \in lateCalls :
       /\ lateCalls' = lateCalls \ {w}
       /\ UNCHANGED <<queried, effectDue, data, isLoading, addressError, call, reads, asks>>

\* ownerOf() reverts for a name that is not registered, which is an error as any.
QueriesSettle(w) ==
    /\ reads[w] = "pending"
    /\ \/ w \in Registered /\ reads' = [reads EXCEPT ![w] = "loaded"]
       \/ reads' = [reads EXCEPT ![w] = "error"]
    /\ UNCHANGED <<queried, effectDue, data, isLoading, addressError, call, lateCalls, asks>>

readsSettled ==
    queried # NoWord /\ ~isLoading /\ reads[queried] \in {"loaded", "error"}
readError == addressError \/ reads[queried] = "error"

\* The button: a new run of the effect, and the queries again.
Retry ==
    /\ asks < MaxAsk /\ asks' = asks + 1
    /\ readsSettled /\ readError
    /\ effectDue' = TRUE
    /\ reads' = [reads EXCEPT ![queried] = IF @ = "error" THEN "pending" ELSE @]
    /\ UNCHANGED <<queried, data, isLoading, addressError, call, lateCalls>>

PageNext ==
    \/ \E w \in Word \cup {NoWord} : HandleResolve(w)
    \/ RunEffect \/ AddressRead \/ LateAddressRead
    \/ \E w \in Word : QueriesSettle(w)
    \/ Retry

PageSpec == PageInit /\ [][PageNext]_pageVars

------------------------------------------------------------------------------
\* The results of a name show the address of that name and of no other, however
\* late the answers to earlier questions come.  The exception is what is drawn
\* before the effect has run: when the queries of a name are still kept from an
\* earlier question, its owner is shown with the address of the name before.
ResultsAreTheirs ==
    readsSettled /\ ~readError /\ ~effectDue => data = queried
===============================================================================
