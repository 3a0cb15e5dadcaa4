--------------------------- MODULE DomainResolution ---------------------------
(***************************************************************************)
(* The resolution of the name in the input by the first web client         *)
(* (frontend/src/hooks/_archive/useDomainResolutionPipeline.ts) with its   *)
(* cache (lib/resolveCache.ts): what is kept at once, then the subgraph if *)
(* it is not stale and the chain names the same owner, else the chain; and *)
(* again every 15 seconds while the name stays.                            *)
(*                                                                         *)
(* A reading is represented by its name and its age, as in the API; a run  *)
(* of resolve() checks after an await that its name is still the one       *)
(* entered.                                                                *)
(***************************************************************************)
EXTENDS Naturals

CONSTANTS
    Query,              \* the names
    Blank,              \* an empty input
    Run,                \* runs of resolve() that may overlap, numbered
    STALE_THRESHOLD,
    L1_TTL, L2_TTL,
    L1_LEFT,            \* what cacheOptimistic leaves of L1_TTL
    RUN,                \* the longest a run takes
    MaxBehind,          \* bound: how far the subgraph is behind
    MaxEntry            \* bound: names entered, and registered

ASSUME ResolutionAssumption ==
    /\ {STALE_THRESHOLD, L1_TTL, L2_TTL, L1_LEFT, RUN, MaxBehind, MaxEntry} \subseteq Nat
    /\ Run \subseteq Nat
    /\ L1_LEFT <= L1_TTL /\ L1_TTL <= L2_TTL /\ Blank \notin Query

VARIABLES
    entered,         \* fullName
    resolveRef,
    view,            \* the record shown: of which name, under which; how old when it
                     \* appeared, until the clock goes on
    resolveCache,    \* of each name the record and its age; both layers
    stored,          \* localStorage can be used
    resolving,
    subgraphBehind,
    entries

resolutionVars == <<entered, resolveRef, view, resolveCache, stored, resolving, subgraphBehind, entries>>

NoRecord == [of |-> Blank, source |-> Blank, old |-> 0, overtaken |-> FALSE]
NotRunning  == [at |-> "resting", of |-> Blank, old |-> 0, overtaken |-> FALSE, waited |-> 0]

ResolutionInit ==
    /\ entered = Blank /\ resolveRef = Blank
    /\ view = [record |-> NoRecord, under |-> Blank]
    /\ resolveCache = [q \in Query |-> [record |-> NoRecord, kept |-> 0]]
    /\ stored \in BOOLEAN
    /\ resolving = [i \in Run |-> NotRunning]
    /\ subgraphBehind = 0 /\ entries = 0

\* The memory first, then localStorage, which keeps the same entries longer.
cacheRead(q) ==
    LET entry == resolveCache[q]
        ttl   == IF stored THEN L2_TTL ELSE L1_TTL
    IN IF entry.kept > ttl THEN NoRecord ELSE entry.record

ShowRecord(record) == view' = [record |-> record, under |-> entered]

Resolve(i, q) ==
    /\ resolving[i] = NotRunning /\ \A j \in Run : j < i => resolving[j] # NotRunning
    /\ resolving' = [resolving EXCEPT ![i] = [NotRunning EXCEPT !.at = "domain", !.of = q]]
    /\ IF cacheRead(q) # NoRecord
         THEN view' = [record |-> cacheRead(q), under |-> q]
         ELSE UNCHANGED view

\* A new name in the input; the effect of an empty one leaves everything, the
\* reference too.
EnterQuery(i, q) ==
    /\ entries < MaxEntry /\ entries' = entries + 1
    /\ q # entered /\ entered' = q
    /\ IF q = Blank THEN UNCHANGED <<resolveRef, resolving, view>>
                    ELSE resolveRef' = q /\ Resolve(i, q)
    /\ UNCHANGED <<resolveCache, stored, subgraphBehind>>

\* The interval is cleared with the name.
Repeat(i) ==
    /\ entered # Blank /\ resolveRef = entered
    /\ Resolve(i, entered)
    /\ UNCHANGED <<entered, resolveRef, resolveCache, stored, subgraphBehind, entries>>

StillAsked(i) == resolveRef = resolving[i].of

Proceed(i, r) ==
    /\ resolving' = [resolving EXCEPT ![i] = r]
    /\ UNCHANGED <<entered, resolveRef, view, resolveCache, stored, subgraphBehind, entries>>

ReadDomain(i) ==
    /\ resolving[i].at = "domain"
    /\ IF ~StillAsked(i) THEN Proceed(i, NotRunning)
       ELSE \/ Proceed(i, [resolving[i] EXCEPT !.at = "meta", !.old = subgraphBehind])
            \/ Proceed(i, [resolving[i] EXCEPT !.at = "chain"])

\* How far the subgraph is behind now says little of the reading before.
ReadMeta(i) ==
    /\ resolving[i].at = "meta"
    /\ \/ subgraphBehind <= STALE_THRESHOLD /\ Proceed(i, [resolving[i] EXCEPT !.at = "owner"])
       \/ Proceed(i, IF StillAsked(i) THEN [resolving[i] EXCEPT !.at = "chain"] ELSE NotRunning)

\* The chain's answer replaces the subgraph's if it names another owner.
ReadOwner(i) ==
    /\ resolving[i].at = "owner"
    /\ \/ Proceed(i, [resolving[i] EXCEPT !.at = "subgraph"])
       \/ Proceed(i, [resolving[i] EXCEPT !.at = "rpc", !.old = 0, !.overtaken = FALSE])

ReadChain(i) ==
    /\ resolving[i].at = "chain"
    /\ \/ Proceed(i, [resolving[i] EXCEPT !.at = "rpc", !.old = 0, !.overtaken = FALSE])
       \/ Proceed(i, NotRunning)

Deliver(i) ==
    /\ resolving[i].at \in {"subgraph", "rpc"}
    /\ IF StillAsked(i)
         THEN LET record == [of |-> resolving[i].of, source |-> resolving[i].at, old |-> resolving[i].old,
                             overtaken |-> resolving[i].overtaken]
              IN /\ ShowRecord(record)
                 /\ resolveCache' = [resolveCache EXCEPT ![resolving[i].of] =
                                       [record |-> [record EXCEPT !.source = "cache"], kept |-> 0]]
         ELSE UNCHANGED <<view, resolveCache>>
    /\ resolving' = [resolving EXCEPT ![i] = NotRunning]
    /\ UNCHANGED <<entered, resolveRef, stored, subgraphBehind, entries>>

\* optimisticRegister, for a caller that has just registered the name: nothing in
\* the repository calls it yet.  What it writes is as recent as the registration,
\* with a time stamp so far back that the memory soon forgets it; localStorage,
\* whose time is counted from the same stamp, does not.
OptimisticRegister(q) ==
    /\ entries < MaxEntry /\ entries' = entries + 1
    /\ resolveCache' = [resolveCache EXCEPT ![q] =
          [record |-> [of |-> q, source |-> "cache", old |-> 0, overtaken |-> FALSE],
           kept |-> L1_TTL - L1_LEFT]]
    /\ UNCHANGED <<entered, resolveRef, view, stored, resolving, subgraphBehind>>

OldestRecord == MaxBehind + RUN + L2_TTL + 1
AgedRecord(n) == IF n >= OldestRecord THEN n ELSE n + 1

\* The subgraph falls behind, or catches up; then it has overtaken what was read.
ResolutionTick ==
    /\ \A i \in Run : resolving[i] # NotRunning => resolving[i].waited < RUN
    /\ subgraphBehind' \in {0} \cup (IF subgraphBehind < MaxBehind THEN {subgraphBehind + 1}
                                                               ELSE {MaxBehind})
    /\ resolving' = [i \in Run |-> IF resolving[i] = NotRunning THEN NotRunning ELSE
          [resolving[i] EXCEPT !.old = AgedRecord(@), !.waited = @ + 1,
                         !.overtaken = @ \/ (resolving[i].at = "meta" /\ subgraphBehind' = 0)]]
    /\ resolveCache' = [q \in Query |->
          IF resolveCache[q].record = NoRecord THEN resolveCache[q]
          ELSE IF cacheRead(q) = NoRecord THEN [record |-> NoRecord, kept |-> 0]
          ELSE [record |-> [resolveCache[q].record EXCEPT !.old = AgedRecord(@)],
                kept |-> resolveCache[q].kept + 1]]
    /\ view' = [view EXCEPT !.record.old = 0, !.record.overtaken = FALSE]
    /\ UNCHANGED <<entered, resolveRef, stored, entries>>

ResolutionNext ==
    \/ \E i \in Run :
          \/ \E q \in Query \cup {Blank} : EnterQuery(i, q)
          \/ Repeat(i)
          \/ ReadDomain(i) \/ ReadMeta(i) \/ ReadOwner(i) \/ ReadChain(i) \/ Deliver(i)
    \/ \E q \in Query : OptimisticRegister(q)
    \/ ResolutionTick

ResolutionSpec == ResolutionInit /\ [][ResolutionNext]_resolutionVars

------------------------------------------------------------------------------
\* A record is shown under the name it is of, in spite of runs that overlap and
\* of answers that come after another name was entered; in the input that was
\* emptied the last name's answer may still arrive.  When it is shown it is as
\* recent as the checks make it: the chain's by one run, the subgraph's by its
\* threshold besides, unless the subgraph caught up between the reading and the
\* look at how far behind it was; from the cache, by the cache's time more.
ShownIsRecent ==
    LET r == view.record IN
    r # NoRecord =>
       /\ view.under \in {r.of, Blank}
       /\ r.overtaken \/ r.old <= STALE_THRESHOLD + RUN + (IF r.source = "cache" THEN L2_TTL ELSE 0)
===============================================================================
