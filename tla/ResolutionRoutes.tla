--------------------------- MODULE ResolutionRoutes ---------------------------
(***************************************************************************)
(* The public resolution API: GET /api/v1/resolve/name/[name] and          *)
(* /address/[address] (frontend/src/app/api/v1/resolve), with the cache of *)
(* each route and the readings they make (lib/graphql.ts), first of the    *)
(* subgraph and then of the chain.                                         *)
(*                                                                         *)
(* A reading is represented by its age, the time since the chain said so: a*)
(* reading of the chain is 0 old when it is made, one of the subgraph as   *)
(* old as the subgraph is behind.  Nothing else about it matters to how    *)
(* late an answer can be.                                                  *)
(***************************************************************************)
EXTENDS Naturals

CONSTANTS
    Asker,
    Key,        \* a name, or an address
    TTL,        \* of a route's cache
    FETCH,      \* the longest a request takes
    LAG_INDEX,        \* how far the subgraph may be behind
    Nil

ASSUME RoutesAssumption == TTL \in Nat \ {0} /\ FETCH \in Nat /\ LAG_INDEX \in Nat

VARIABLES
    route,        \* the one looked at; they share nothing
    behind,       \* of the subgraph, now
    routeCache,   \* of each key the body and its age
    request,      \* of each caller the request under way
    answer        \* given in this moment

routeVars == <<route, behind, routeCache, request, answer>>

Route == {"name", "address"}
NoRequest  == [at |-> "idle"]

RoutesInit ==
    /\ route \in Route /\ behind = 0
    /\ routeCache = [k \in Key |-> Nil]
    /\ request = [c \in Asker |-> NoRequest]
    /\ answer = Nil

\* Fault: an answer from the cache counts as new.
FromCacheSliding(k) ==
    /\ answer' = [routeCache[k] EXCEPT !.kept = 0]
    /\ routeCache' = [routeCache EXCEPT ![k].kept = 0]
FromCache(k) ==
    /\ answer' = routeCache[k]
    /\ UNCHANGED routeCache

Hit(k) == routeCache[k] # Nil /\ routeCache[k].kept < TTL

Get(c, k) ==
    /\ request[c] = NoRequest
    /\ IF Hit(k)
         THEN FromCache(k) /\ UNCHANGED request
         ELSE /\ request' = [request EXCEPT ![c] =
                    [at |-> "index", key |-> k, verdict |-> Nil, faulty |-> FALSE,
                     source |-> Nil, old |-> 0, verified |-> 0, waited |-> 0]]
              /\ answer' = Nil /\ UNCHANGED routeCache
    /\ UNCHANGED <<route, behind>>

Reading(c, changes) ==
    /\ request' = [request EXCEPT ![c] = [f \in DOMAIN request[c] |->
                     IF f \in DOMAIN changes THEN changes[f] ELSE request[c][f]]]
    /\ answer' = Nil /\ UNCHANGED <<route, behind, routeCache>>

\* The address of a name is taken as the subgraph has it; the name of an address
\* is only a candidate.  Without an answer the chain is asked.
IndexRead(c) ==
    /\ request[c].at = "index"
    /\ \/ Reading(c, [source |-> "subgraph", old |-> behind,
                   at |-> IF route = "name" THEN "done" ELSE "forward",
                   verdict |-> IF route = "name" THEN "ok" ELSE Nil])
       \/ Reading(c, [at |-> "chain"])

\* Registry and resolver.  A failure leaves resolveName without a source, which
\* the route tells from "not found"; for an address it cannot be told.
ChainRead(c) ==
    /\ request[c].at = "chain"
    /\ \/ Reading(c, [source |-> "rpc", old |-> 0,
                   at |-> IF route = "name" THEN "done" ELSE "forward",
                   verdict |-> IF route = "name" THEN "ok" ELSE Nil])
       \/ Reading(c, [source |-> "rpc", old |-> 0, at |-> "done", verdict |-> "not_found"])
       \/ Reading(c, [at |-> "done", faulty |-> TRUE,
                   verdict |-> IF route = "name" THEN "unavailable" ELSE "not_found"])

\* The candidate counts if its address record, on the chain, is the address.
ForwardRead(c) ==
    /\ request[c].at = "forward"
    /\ \/ \E v \in {"ok", "not_found"} :
             Reading(c, [at |-> "done", verdict |-> v, verified |-> 0])
       \/ Reading(c, [at |-> "done", verdict |-> "not_found", faulty |-> TRUE])

\* Everything but a 503 is kept; the time in the cache counts from now.
Reply(c) ==
    /\ request[c].at = "done"
    /\ LET q == request[c]
           body == [key |-> q.key, verdict |-> q.verdict, source |-> q.source,
                    faulty |-> q.faulty, old |-> q.old, verified |-> q.verified, kept |-> 0]
       IN /\ answer' = body
          /\ routeCache' = IF q.verdict = "unavailable" THEN routeCache
                           ELSE [routeCache EXCEPT ![q.key] = body]
    /\ request' = [request EXCEPT ![c] = NoRequest]
    /\ UNCHANGED <<route, behind>>

OldestEver == LAG_INDEX + FETCH + TTL + 1
Aged(n) == IF n >= OldestEver THEN n ELSE n + 1

RoutesTick ==
    /\ \A c \in Asker : request[c] # NoRequest => request[c].waited < FETCH
    /\ behind' \in 0..(IF behind < LAG_INDEX THEN behind + 1 ELSE LAG_INDEX)
    /\ request' = [c \in Asker |-> IF request[c] = NoRequest THEN NoRequest ELSE
          [request[c] EXCEPT !.old = Aged(@), !.verified = Aged(@), !.waited = @ + 1]]
    /\ routeCache' = [k \in Key |->
          IF ~Hit(k) THEN Nil
          ELSE [routeCache[k] EXCEPT !.old = Aged(@), !.verified = Aged(@), !.kept = @ + 1]]
    /\ answer' = Nil /\ UNCHANGED route

RoutesNext ==
    \/ \E c \in Asker :
          \/ \E k \in Key : Get(c, k)
          \/ IndexRead(c) \/ ChainRead(c) \/ ForwardRead(c) \/ Reply(c)
    \/ RoutesTick

RoutesSpec == RoutesInit /\ [][RoutesNext]_routeVars

------------------------------------------------------------------------------
\* An answer was the chain's at most the cache's time and a request ago, to which
\* the subgraph's delay is added if it says so; the check of an address' name is
\* never older than that, whatever the subgraph says.  The exception: an outage is
\* answered, and kept, as "not_found" for an address.
RoutesRecent ==
    answer # Nil /\ answer.verdict # "unavailable" =>
       \/ answer.faulty /\ route = "address" /\ answer.verdict = "not_found"
       \/ /\ answer.old <= TTL + FETCH + (IF answer.source = "subgraph" THEN LAG_INDEX ELSE 0)
          /\ route = "address" /\ answer.verdict = "ok" => answer.verified <= TTL + FETCH
          /\ ~answer.faulty
===============================================================================
