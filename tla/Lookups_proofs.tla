---------------------------- MODULE Lookups_proofs ----------------------------
(***************************************************************************)
(* The promises of the places that look names up, each for any number of   *)
(* callers, names, keys and runs and for all ages the caches allow.        *)
(*                                                                         *)
(* An age is bounded by what has passed since the reading was made: how    *)
(* long a request has been under way, how long a body has been kept.  The  *)
(* invariants say so of every stage, so that a promise about what is shown *)
(* is the case of its last stage.                                          *)
(***************************************************************************)
EXTENDS ResolutionRoutes, ResolvePage, DomainResolution, OwnedNames, NameSearch, TLAPS,
        SequenceTheorems, WellFoundedInduction

------------------------------------------------------------------------------
(* The public resolution API (ResolutionRoutes).                            *)

USE RoutesAssumption

Verdicts == {"ok", "not_found", "unavailable", Nil}
Requests == [at: {"index", "chain", "forward", "done"}, key: Key, verdict: Verdicts,
             faulty: BOOLEAN, source: {"subgraph", "rpc", Nil}, old: Nat, verified: Nat,
             waited: Nat]
Bodies   == [key: Key, verdict: Verdicts, source: {"subgraph", "rpc", Nil}, faulty: BOOLEAN,
             old: Nat, verified: Nat, kept: Nat]

RoutesTypeOK ==
    /\ route \in Route /\ behind \in 0..LAG_INDEX
    /\ \A k \in Key : routeCache[k] # Nil => routeCache[k] \in Bodies
    /\ DOMAIN routeCache = Key /\ routeCache = [k \in Key |-> routeCache[k]]
    /\ request \in [Asker -> Requests \cup {NoRequest}]

LagOf(source) == IF source = "subgraph" THEN LAG_INDEX ELSE 0

\* What an answer says was the chain's n ago, and the subgraph's delay besides; an outage
\* is the exception.
RecentIn(a, n) ==
    \/ a.faulty /\ route = "address" /\ a.verdict = "not_found"
    \/ /\ a.old <= n + LagOf(a.source) /\ ~a.faulty
       /\ route = "address" /\ a.verdict = "ok" => a.verified <= n

RequestIsRecent(q) ==
    /\ q.at = "index" \/ q.at = "chain" => ~q.faulty
    /\ q.at = "forward" => route = "address" /\ ~q.faulty /\ q.old <= q.waited + LagOf(q.source)
    /\ q.at = "done" => q.verdict = "unavailable" \/ RecentIn(q, q.waited)
RequestsAreRecent ==
    \A c \in Asker : request[c] # NoRequest => RequestIsRecent(request[c]) /\ request[c].waited <= FETCH

CacheIsRecent ==
    \A k \in Key : routeCache[k] # Nil =>
       RecentIn(routeCache[k], routeCache[k].kept + FETCH)

RoutesInv == RoutesTypeOK /\ RequestsAreRecent /\ CacheIsRecent /\ RoutesRecent

LEMMA RoutesBounds == TTL \in Nat /\ TTL # 0 /\ FETCH \in Nat /\ LAG_INDEX \in Nat
OBVIOUS

USE RoutesBounds

LEMMA LagIsNat == ASSUME NEW s PROVE LagOf(s) \in Nat
BY DEF LagOf

\* Time that passes, and more of it allowed, keeps an answer recent.
LEMMA RecentLonger ==
    ASSUME NEW a, NEW n \in Nat, NEW m \in Nat, n <= m, a.old \in Nat, a.verified \in Nat,
           RecentIn(a, n)
    PROVE  RecentIn(a, m)
<1>1. a.old <= n + LagOf(a.source) => a.old <= m + LagOf(a.source)
  BY LagIsNat
<1>2. a.verified <= n => a.verified <= m
  OBVIOUS
<1> QED
  BY <1>1, <1>2 DEF RecentIn

LEMMA RoutesInitially == RoutesInit => RoutesInv
<1> SUFFICES ASSUME RoutesInit PROVE RoutesInv
  OBVIOUS
<1>1. RoutesTypeOK
  BY DEF RoutesInit, RoutesTypeOK
<1>2. RequestsAreRecent /\ CacheIsRecent /\ RoutesRecent
  BY DEF RoutesInit, RequestsAreRecent, CacheIsRecent, RoutesRecent
<1> QED
  BY <1>1, <1>2 DEF RoutesInv

\* A request that goes on, without an answer.
LEMMA RequestKeeps ==
    ASSUME RoutesInv, NEW c \in Asker, NEW q \in Requests,
           request' = [request EXCEPT ![c] = q], answer' = Nil,
           UNCHANGED <<route, behind, routeCache>>,
           RequestIsRecent(q), q.waited <= FETCH
    PROVE  RoutesInv'
<1>1. RoutesTypeOK'
  BY DEF RoutesInv, RoutesTypeOK
<1>3. RequestsAreRecent'
  BY DEF RoutesInv, RoutesTypeOK, RequestsAreRecent, RequestIsRecent, RecentIn
<1>4. CacheIsRecent' /\ RoutesRecent'
  BY DEF RoutesInv, CacheIsRecent, RecentIn, RoutesRecent
<1> QED
  BY <1>1, <1>3, <1>4 DEF RoutesInv

LEMMA GetKeeps ==
    ASSUME RoutesInv, NEW c \in Asker, NEW k \in Key, Get(c, k)
    PROVE  RoutesInv'
<1>1. CASE Hit(k)
  <2>1. UNCHANGED <<route, behind, routeCache, request>> /\ answer' = routeCache[k]
    BY <1>1 DEF Get, FromCache
  <2>2. /\ routeCache[k] \in Bodies /\ RecentIn(routeCache[k], routeCache[k].kept + FETCH)
        /\ routeCache[k].kept < TTL
    BY <1>1 DEF Hit, RoutesInv, RoutesTypeOK, CacheIsRecent
  <2>3. RecentIn(routeCache[k], TTL + FETCH)
    <3>1. /\ routeCache[k].kept + FETCH \in Nat /\ TTL + FETCH \in Nat
          /\ routeCache[k].kept + FETCH <= TTL + FETCH
          /\ routeCache[k].old \in Nat /\ routeCache[k].verified \in Nat
      BY <2>2 DEF Bodies
    <3> QED
      BY <2>2, <3>1, RecentLonger
  <2>4. RoutesRecent'
    BY <2>1, <2>3 DEF RecentIn, LagOf, RoutesRecent
  <2>5. RoutesTypeOK' /\ RequestsAreRecent' /\ CacheIsRecent'
    BY <2>1 DEF RoutesInv, RoutesTypeOK, RequestsAreRecent, RequestIsRecent, RecentIn, CacheIsRecent
  <2> QED
    BY <2>4, <2>5 DEF RoutesInv
<1>2. CASE ~Hit(k)
  <2> DEFINE q == [at |-> "index", key |-> k, verdict |-> Nil, faulty |-> FALSE,
                   source |-> Nil, old |-> 0, verified |-> 0, waited |-> 0]
  <2>1. /\ request' = [request EXCEPT ![c] = q] /\ answer' = Nil
        /\ UNCHANGED <<route, behind, routeCache>>
    BY <1>2 DEF Get
  <2>2. q \in Requests /\ RequestIsRecent(q) /\ q.waited <= FETCH
    BY DEF Requests, Verdicts, RequestIsRecent
  <2> HIDE DEF q
  <2> QED
    BY <2>1, <2>2, RequestKeeps
<1> QED
  BY <1>1, <1>2

LEMMA RouteReadingKeeps ==
    ASSUME RoutesInv, NEW c \in Asker, IndexRead(c) \/ ChainRead(c) \/ ForwardRead(c)
    PROVE  RoutesInv'
<1> DEFINE r == request[c]
           Merged(ch) == [f \in DOMAIN r |-> IF f \in DOMAIN ch THEN ch[f] ELSE r[f]]
<1>1. /\ r \in Requests /\ RequestIsRecent(r) /\ r.waited <= FETCH /\ behind \in 0..LAG_INDEX
      /\ r.waited \in Nat /\ route \in {"name", "address"}
  BY DEF RoutesInv, RoutesTypeOK, RequestsAreRecent, NoRequest, IndexRead, ChainRead, ForwardRead,
         Requests, Route
<1>2. ASSUME NEW ch, Reading(c, ch), Merged(ch) \in Requests, RequestIsRecent(Merged(ch)),
             Merged(ch).waited = r.waited
      PROVE  RoutesInv'
  <2> DEFINE q == Merged(ch)
  <2>1. request' = [request EXCEPT ![c] = q] /\ answer' = Nil /\ UNCHANGED <<route, behind, routeCache>>
    BY <1>2 DEF Reading
  <2>2. q \in Requests /\ RequestIsRecent(q) /\ q.waited <= FETCH
    BY <1>1, <1>2
  <2> HIDE DEF q
  <2> QED
    BY <2>1, <2>2, RequestKeeps
<1> HIDE DEF r
<1>3. CASE IndexRead(c)
  <2> DEFINE ch == [source |-> "subgraph", old |-> behind,
                    at |-> IF route = "name" THEN "done" ELSE "forward",
                    verdict |-> IF route = "name" THEN "ok" ELSE Nil]
             s  == Merged(ch)
             t  == Merged([at |-> "chain"])
  <2>1. r.at = "index" /\ (Reading(c, ch) \/ Reading(c, [at |-> "chain"]))
    BY <1>3 DEF IndexRead, r
  <2>2. /\ s \in Requests /\ s.waited = r.waited /\ s.faulty = r.faulty /\ s.old = behind
        /\ s.source = "subgraph" /\ s.at = IF route = "name" THEN "done" ELSE "forward"
        /\ s.verdict = IF route = "name" THEN "ok" ELSE Nil
    BY <1>1 DEF Requests, Verdicts
  <2>3. t \in Requests /\ t.waited = r.waited /\ t.at = "chain" /\ t.faulty = r.faulty
    BY <1>1 DEF Requests
  <2>4. ~r.faulty
    BY <1>1, <2>1 DEF RequestIsRecent
  <2>5. RequestIsRecent(s)
    <3> HIDE DEF s
    <3> QED
      BY <1>1, <2>2, <2>4 DEF RequestIsRecent, RecentIn, LagOf
  <2>6. RequestIsRecent(t)
    <3> HIDE DEF t
    <3> QED
      BY <2>3, <2>4 DEF RequestIsRecent
  <2> HIDE DEF ch, Merged
  <2> QED
    BY <1>2, <2>1, <2>2, <2>3, <2>5, <2>6
<1>4. CASE ChainRead(c)
  <2> DEFINE found   == [source |-> "rpc", old |-> 0,
                         at |-> IF route = "name" THEN "done" ELSE "forward",
                         verdict |-> IF route = "name" THEN "ok" ELSE Nil]
             missing == [source |-> "rpc", old |-> 0, at |-> "done", verdict |-> "not_found"]
             outage  == [at |-> "done", faulty |-> TRUE,
                         verdict |-> IF route = "name" THEN "unavailable" ELSE "not_found"]
             s == Merged(found)
             t == Merged(missing)
             u == Merged(outage)
  <2>1. r.at = "chain" /\ (Reading(c, found) \/ Reading(c, missing) \/ Reading(c, outage))
    BY <1>4 DEF ChainRead, r
  <2>2. /\ s \in Requests /\ s.waited = r.waited /\ s.faulty = r.faulty /\ s.old = 0
        /\ s.source = "rpc" /\ s.at = IF route = "name" THEN "done" ELSE "forward"
        /\ s.verdict = IF route = "name" THEN "ok" ELSE Nil
    BY <1>1 DEF Requests, Verdicts
  <2>3. /\ t \in Requests /\ t.waited = r.waited /\ t.faulty = r.faulty /\ t.old = 0
        /\ t.source = "rpc" /\ t.at = "done" /\ t.verdict = "not_found"
    BY <1>1 DEF Requests, Verdicts
  <2>4. /\ u \in Requests /\ u.waited = r.waited /\ u.faulty /\ u.at = "done"
        /\ u.verdict = IF route = "name" THEN "unavailable" ELSE "not_found"
    BY <1>1 DEF Requests, Verdicts
  <2>5. ~r.faulty
    BY <1>1, <2>1 DEF RequestIsRecent
  <2>6. RequestIsRecent(s) /\ RequestIsRecent(t) /\ RequestIsRecent(u)
    <3> HIDE DEF s, t, u
    <3> QED
      BY <1>1, <2>2, <2>3, <2>4, <2>5 DEF RequestIsRecent, RecentIn, LagOf
  <2> HIDE DEF found, missing, outage, Merged
  <2> QED
    BY <1>2, <2>1, <2>2, <2>3, <2>4, <2>6
<1>5. CASE ForwardRead(c)
  <2> DEFINE checked(v) == [at |-> "done", verdict |-> v, verified |-> 0]
             outage  == [at |-> "done", verdict |-> "not_found", faulty |-> TRUE]
             u == Merged(outage)
  <2>1. /\ r.at = "forward"
        /\ Reading(c, checked("ok")) \/ Reading(c, checked("not_found")) \/ Reading(c, outage)
    BY <1>5 DEF ForwardRead, r
  <2>2. ASSUME NEW v \in {"ok", "not_found"}
        PROVE  /\ Merged(checked(v)) \in Requests /\ Merged(checked(v)).waited = r.waited
               /\ RequestIsRecent(Merged(checked(v)))
    <3> DEFINE s == Merged(checked(v))
    <3>1. /\ s \in Requests /\ s.waited = r.waited /\ s.faulty = r.faulty /\ s.old = r.old
          /\ s.source = r.source /\ s.at = "done" /\ s.verdict = v /\ s.verified = 0
      BY <1>1 DEF Requests, Verdicts
    <3> HIDE DEF s
    <3>2. RequestIsRecent(s)
      BY <1>1, <2>1, <3>1 DEF RequestIsRecent, RecentIn
    <3> QED
      BY <3>1, <3>2 DEF s
  <2>3. /\ u \in Requests /\ u.waited = r.waited /\ u.faulty /\ u.at = "done"
        /\ u.verdict = "not_found"
    BY <1>1 DEF Requests, Verdicts
  <2>4. RequestIsRecent(u)
    <3> HIDE DEF u
    <3> QED
      BY <1>1, <2>1, <2>3 DEF RequestIsRecent, RecentIn
  <2> HIDE DEF checked, outage, Merged
  <2> QED
    BY <1>2, <2>1, <2>2, <2>3, <2>4
<1> QED
  BY <1>3, <1>4, <1>5

LEMMA ReplyKeeps ==
    ASSUME RoutesInv, NEW c \in Asker, Reply(c)
    PROVE  RoutesInv'
<1> DEFINE q == request[c]
           body == [key |-> q.key, verdict |-> q.verdict, source |-> q.source,
                    faulty |-> q.faulty, old |-> q.old, verified |-> q.verified, kept |-> 0]
<1>1. /\ q \in Requests /\ q.at = "done" /\ RequestIsRecent(q) /\ q.waited <= FETCH
      /\ answer' = body /\ UNCHANGED <<route, behind>>
      /\ request' = [request EXCEPT ![c] = NoRequest]
      /\ routeCache' = IF q.verdict = "unavailable" THEN routeCache
                       ELSE [routeCache EXCEPT ![q.key] = body]
  BY DEF Reply, RoutesInv, RoutesTypeOK, RequestsAreRecent, NoRequest
<1>2. /\ body \in Bodies /\ body.verdict = q.verdict /\ body.kept = 0 /\ body.source = q.source
      /\ body.faulty = q.faulty /\ body.old = q.old /\ body.verified = q.verified
      /\ q.key \in Key /\ q.old \in Nat /\ q.verified \in Nat /\ q.waited \in Nat
  BY <1>1 DEF Bodies, Requests
<1> HIDE DEF body, q
<1>3. body.verdict = "unavailable" \/ RecentIn(body, FETCH)
  <2>1. q.verdict = "unavailable" \/ RecentIn(q, q.waited)
    BY <1>1 DEF RequestIsRecent
  <2>2. q.verdict = "unavailable" \/ RecentIn(q, FETCH)
    BY <1>1, <1>2, <2>1, RecentLonger
  <2> QED
    BY <1>2, <2>2 DEF RecentIn
<1>4. RoutesTypeOK'
  BY <1>1, <1>2 DEF RoutesInv, RoutesTypeOK
<1>5. RequestsAreRecent'
  BY <1>1 DEF RoutesInv, RoutesTypeOK, RequestsAreRecent, RequestIsRecent, RecentIn
<1>6. CacheIsRecent'
  <2>1. body.verdict # "unavailable" => RecentIn(body, body.kept + FETCH)
    BY <1>2, <1>3
  <2> QED
    BY <1>1, <1>2, <2>1 DEF RoutesInv, RoutesTypeOK, CacheIsRecent, RecentIn
<1>7. RoutesRecent'
  <2>1. FETCH <= TTL + FETCH /\ TTL + FETCH \in Nat
    OBVIOUS
  <2>2. body.verdict = "unavailable" \/ RecentIn(body, TTL + FETCH)
    BY <1>2, <1>3, <2>1, RecentLonger
  <2> QED
    BY <1>1, <2>2 DEF RecentIn, LagOf, RoutesRecent
<1> QED
  BY <1>4, <1>5, <1>6, <1>7 DEF RoutesInv

LEMMA AgedIsOlder == ASSUME NEW n \in Nat PROVE Aged(n) \in Nat /\ Aged(n) <= n + 1
BY DEF Aged, OldestEver

\* A moment later what was recent is so for a moment longer.
LEMMA RecentLater ==
    ASSUME NEW a, NEW b, NEW n \in Nat, RecentIn(a, n), a.old \in Nat, a.verified \in Nat,
           b.faulty = a.faulty, b.verdict = a.verdict, b.source = a.source,
           b.old = Aged(a.old), b.verified = Aged(a.verified)
    PROVE  RecentIn(b, n + 1)
<1>1. /\ b.old \in Nat /\ b.old <= a.old + 1 /\ b.verified \in Nat /\ b.verified <= a.verified + 1
      /\ LagOf(a.source) \in Nat
  BY AgedIsOlder, LagIsNat
<1>2. /\ a.old <= n + LagOf(a.source) => b.old <= (n + 1) + LagOf(b.source)
      /\ a.verified <= n => b.verified <= n + 1
  BY <1>1
<1> QED
  BY <1>2 DEF RecentIn

LEMMA RoutesTickKeeps ==
    ASSUME RoutesInv, RoutesTick
    PROVE  RoutesInv'
<1>1. route' = route /\ answer' = Nil
  BY DEF RoutesTick
<1>2. behind' \in 0..LAG_INDEX
  <2>1. behind \in 0..LAG_INDEX
    BY DEF RoutesInv, RoutesTypeOK
  <2>2. behind' \in 0..(IF behind < LAG_INDEX THEN behind + 1 ELSE LAG_INDEX)
    BY DEF RoutesTick
  <2> QED
    BY <2>1, <2>2
<1>3. ASSUME NEW c \in Asker
      PROVE  /\ request'[c] \in Requests \cup {NoRequest}
             /\ request'[c] # NoRequest =>
                   RequestIsRecent(request'[c]) /\ request'[c].waited <= FETCH
  <2> DEFINE r == request[c]
             s == [r EXCEPT !.old = Aged(@), !.verified = Aged(@), !.waited = @ + 1]
  <2>1. request'[c] = IF r = NoRequest THEN NoRequest ELSE s
    BY DEF RoutesTick
  <2>2. CASE r = NoRequest
    BY <2>1, <2>2
  <2>3. CASE r # NoRequest
    <3>1. r \in Requests /\ RequestIsRecent(r) /\ r.waited < FETCH
      BY <2>3 DEF RoutesInv, RoutesTypeOK, RequestsAreRecent, RoutesTick
    <3>2. r.old \in Nat /\ r.verified \in Nat /\ r.waited \in Nat
      BY <3>1 DEF Requests
    <3> HIDE DEF r
    <3>3. Aged(r.old) \in Nat /\ Aged(r.verified) \in Nat /\ Aged(r.old) <= r.old + 1
      BY <3>2, AgedIsOlder
    <3>4. /\ s \in Requests /\ s.old = Aged(r.old) /\ s.verified = Aged(r.verified)
          /\ s.waited = r.waited + 1 /\ s.at = r.at /\ s.faulty = r.faulty
          /\ s.verdict = r.verdict /\ s.source = r.source
      <4>1. s = [r EXCEPT !.old = Aged(r.old), !.verified = Aged(r.verified), !.waited = r.waited + 1]
        BY <3>1 DEF Requests
      <4>2. r.waited + 1 \in Nat
        BY <3>2
      <4> DEFINE o == Aged(r.old)
                 v == Aged(r.verified)
                 n == r.waited + 1
      <4>3. o \in Nat /\ v \in Nat /\ n \in Nat /\ s = [r EXCEPT !.old = o, !.verified = v, !.waited = n]
        BY <3>3, <4>1, <4>2
      <4> HIDE DEF s, o, v, n
      <4>4. /\ s \in Requests /\ s.old = o /\ s.verified = v /\ s.waited = n
            /\ s.at = r.at /\ s.faulty = r.faulty /\ s.verdict = r.verdict /\ s.source = r.source
        BY <3>1, <4>3 DEF Requests
      <4> QED
        BY <4>4 DEF o, v, n
    <3> HIDE DEF s
    <3>5. s.waited <= FETCH
      BY <3>1, <3>2, <3>4
    <3>6. s.at = "done" => s.verdict = "unavailable" \/ RecentIn(s, s.waited)
      BY <3>1, <3>2, <3>4, RecentLater DEF RequestIsRecent
    <3>7. s.at = "forward" => s.old <= s.waited + LagOf(s.source)
      BY <3>1, <3>2, <3>3, <3>4, LagIsNat DEF RequestIsRecent
    <3>8. RequestIsRecent(s)
      BY <3>1, <3>4, <3>6, <3>7 DEF RequestIsRecent
    <3> QED
      BY <2>1, <2>3, <3>4, <3>5, <3>8 DEF r
  <2> QED
    BY <2>2, <2>3
<1>4. ASSUME NEW k \in Key, routeCache'[k] # Nil
      PROVE  /\ routeCache'[k] \in Bodies
             /\ RecentIn(routeCache'[k], routeCache'[k].kept + FETCH)
  <2> DEFINE b == routeCache[k]
             s == [b EXCEPT !.old = Aged(@), !.verified = Aged(@), !.kept = @ + 1]
  <2>1. routeCache'[k] = s /\ Hit(k)
    BY <1>4 DEF RoutesTick
  <2>2. b \in Bodies /\ RecentIn(b, b.kept + FETCH)
    BY <2>1 DEF Hit, RoutesInv, RoutesTypeOK, CacheIsRecent
  <2> HIDE DEF b
  <2>3. b.old \in Nat /\ b.verified \in Nat /\ b.kept \in Nat
        /\ Aged(b.old) \in Nat /\ Aged(b.verified) \in Nat
    BY <2>2, AgedIsOlder DEF Bodies
  <2>4. /\ s \in Bodies /\ s.old = Aged(b.old) /\ s.verified = Aged(b.verified)
        /\ s.kept = b.kept + 1 /\ s.faulty = b.faulty /\ s.verdict = b.verdict
        /\ s.source = b.source
    <3>1. s = [b EXCEPT !.old = Aged(b.old), !.verified = Aged(b.verified), !.kept = b.kept + 1]
      BY <2>2 DEF Bodies
    <3>2. b.kept + 1 \in Nat
      BY <2>3
    <3> DEFINE o == Aged(b.old)
               v == Aged(b.verified)
               n == b.kept + 1
    <3>3. o \in Nat /\ v \in Nat /\ n \in Nat /\ s = [b EXCEPT !.old = o, !.verified = v, !.kept = n]
      BY <2>3, <3>1, <3>2
    <3> HIDE DEF s, o, v, n
    <3>4. /\ s \in Bodies /\ s.old = o /\ s.verified = v /\ s.kept = n
          /\ s.faulty = b.faulty /\ s.verdict = b.verdict /\ s.source = b.source
      BY <2>2, <3>3 DEF Bodies
    <3> QED
      BY <3>4 DEF o, v, n
  <2> HIDE DEF s
  <2>5. b.kept + FETCH \in Nat /\ s.kept + FETCH = (b.kept + FETCH) + 1
    BY <2>3, <2>4
  <2>6. RecentIn(s, s.kept + FETCH)
    BY <2>2, <2>3, <2>4, <2>5, RecentLater
  <2> QED
    BY <2>1, <2>4, <2>6
<1>5. /\ DOMAIN routeCache' = Key /\ routeCache' = [k \in Key |-> routeCache'[k]]
      /\ request' = [c \in Asker |-> request'[c]]
  BY DEF RoutesTick
<1>6. RoutesTypeOK'
  BY <1>1, <1>2, <1>3, <1>4, <1>5 DEF RoutesInv, RoutesTypeOK
<1>7. RequestsAreRecent' /\ CacheIsRecent'
  BY <1>1, <1>3, <1>4 DEF RequestsAreRecent, CacheIsRecent, RequestIsRecent, RecentIn
<1>8. RoutesRecent'
  BY <1>1 DEF RoutesRecent
<1> QED
  BY <1>6, <1>7, <1>8 DEF RoutesInv

LEMMA RoutesStep == RoutesInv /\ [RoutesNext]_routeVars => RoutesInv'
<1> SUFFICES ASSUME RoutesInv, [RoutesNext]_routeVars PROVE RoutesInv'
  OBVIOUS
<1>1. CASE UNCHANGED routeVars
  BY <1>1 DEF routeVars, RoutesInv, RoutesTypeOK, RequestsAreRecent, RequestIsRecent, RecentIn,
              CacheIsRecent, RoutesRecent
<1> QED
  BY <1>1, GetKeeps, RouteReadingKeeps, ReplyKeeps, RoutesTickKeeps DEF RoutesNext

\* An answer was the chain's at most the cache's time and a request ago.
THEOREM RoutesRecentHolds == RoutesSpec => []RoutesRecent
<1>1. RoutesSpec => []RoutesInv
  BY RoutesInitially, RoutesStep, PTL DEF RoutesSpec
<1>2. RoutesInv => RoutesRecent
  BY DEF RoutesInv
<1> QED
  BY <1>1, <1>2, PTL

------------------------------------------------------------------------------
(* The resolve page (ResolvePage).                                          *)

USE PageAssumption

PageTypeOK ==
    /\ queried \in Word \cup {NoWord} /\ data \in Word \cup {NoWord}
    /\ call \in Word \cup {NoWord} /\ lateCalls \subseteq Word
    /\ effectDue \in BOOLEAN /\ isLoading \in BOOLEAN /\ addressError \in BOOLEAN
    /\ reads \in [Word -> {"none", "pending", "loaded", "error"}]

\* Unless the effect is due, the call under way is for the name asked, and when none is
\* the address is that name's or missing for an error.
AddressOfQueried ==
    queried # NoWord /\ ~effectDue =>
       \/ isLoading /\ call = queried
       \/ call = NoWord /\ (data = queried \/ addressError)

PageInv == PageTypeOK /\ AddressOfQueried

LEMMA PageInitially == PageInit => PageInv
BY DEF PageInit, PageInv, PageTypeOK, AddressOfQueried

LEMMA PageStep == PageInv /\ [PageNext]_pageVars => PageInv'
<1> SUFFICES ASSUME PageInv, [PageNext]_pageVars PROVE PageInv'
  OBVIOUS
<1> USE DEF PageInv, PageTypeOK, AddressOfQueried
<1>1. ASSUME NEW w \in Word \cup {NoWord}, HandleResolve(w) PROVE PageInv'
  BY <1>1 DEF HandleResolve
<1>2. CASE RunEffect
  BY <1>2 DEF RunEffect
<1>3. CASE AddressRead
  BY <1>3 DEF AddressRead
<1>4. CASE LateAddressRead
  BY <1>4 DEF LateAddressRead
<1>5. ASSUME NEW w \in Word, QueriesSettle(w) PROVE PageInv'
  BY <1>5 DEF QueriesSettle
<1>6. CASE Retry
  BY <1>6 DEF Retry, readsSettled
<1>7. CASE UNCHANGED pageVars
  BY <1>7 DEF pageVars
<1> QED
  BY <1>1, <1>2, <1>3, <1>4, <1>5, <1>6, <1>7 DEF PageNext

LEMMA PageInvIsEnough == PageInv => ResultsAreTheirs
BY DEF PageInv, AddressOfQueried, ResultsAreTheirs, readsSettled, readError, PageTypeOK

\* The results of a name show the address of that name and of no other.
THEOREM ResultsAreTheirsHolds == PageSpec => []ResultsAreTheirs
<1>1. PageSpec => []PageInv
  BY PageInitially, PageStep, PTL DEF PageSpec
<1> QED
  BY <1>1, PageInvIsEnough, PTL

------------------------------------------------------------------------------
(* The resolution hook and its caches (DomainResolution).                   *)

Records == [of: Query \cup {Blank}, source: {"subgraph", "rpc", "cache", Blank}, old: Nat,
            overtaken: BOOLEAN]
Stages  == {"resting", "domain", "meta", "chain", "owner", "subgraph", "rpc"}
Runs    == [at: Stages, of: Query \cup {Blank}, old: Nat, overtaken: BOOLEAN, waited: 0..RUN]

ResolutionTypeOK ==
    /\ entered \in Query \cup {Blank} /\ resolveRef \in Query \cup {Blank}
    /\ view \in [record: Records, under: Query \cup {Blank}]
    /\ resolveCache \in [Query -> [record: Records, kept: Nat]]
    /\ stored \in BOOLEAN /\ subgraphBehind \in 0..MaxBehind /\ entries \in Nat
    /\ resolving \in [Run -> Runs]
    /\ \A i \in Run : resolving[i].at # "resting" => resolving[i].of \in Query

\* The reference follows the input, and outlives it when it is emptied.
ReferenceIsEntered == entered \in {resolveRef, Blank}

\* As old as the subgraph's threshold and the time of the run make it; before the look at
\* the subgraph, as old as the subgraph is lag.
RunIsRecent(r, lag) ==
    /\ r.at = "meta" => r.overtaken \/ r.old <= lag + r.waited
    /\ r.at \in {"owner", "subgraph", "rpc"} => r.overtaken \/ r.old <= STALE_THRESHOLD + r.waited
RunsAreRecent == \A i \in Run : RunIsRecent(resolving[i], subgraphBehind)

CachedIsRecent ==
    \A q \in Query : LET r == resolveCache[q].record IN
       r # NoRecord =>
          /\ r.of = q /\ r.source = "cache"
          /\ r.overtaken \/ r.old <= STALE_THRESHOLD + RUN + resolveCache[q].kept

ResolutionInv ==
    ResolutionTypeOK /\ ReferenceIsEntered /\ RunsAreRecent /\ CachedIsRecent /\ ShownIsRecent

LEMMA ResolutionBounds ==
    /\ STALE_THRESHOLD \in Nat /\ L1_TTL \in Nat /\ L2_TTL \in Nat /\ L1_TTL <= L2_TTL
    /\ L1_LEFT \in Nat /\ L1_LEFT <= L1_TTL
    /\ RUN \in Nat /\ MaxBehind \in Nat /\ MaxEntry \in Nat /\ Blank \notin Query
BY ResolutionAssumption

USE ResolutionBounds

LEMMA NoRecordFacts ==
    /\ NoRecord \in Records /\ NotRunning \in Runs /\ NotRunning.at = "resting"
BY DEF NoRecord, NotRunning, Records, Runs, Stages

LEMMA ResolutionInitially == ResolutionInit => ResolutionInv
<1> SUFFICES ASSUME ResolutionInit PROVE ResolutionInv
  OBVIOUS
<1>1. /\ entered = Blank /\ resolveRef = Blank
      /\ view = [record |-> NoRecord, under |-> Blank]
      /\ resolveCache = [q \in Query |-> [record |-> NoRecord, kept |-> 0]]
      /\ stored \in BOOLEAN /\ resolving = [i \in Run |-> NotRunning]
      /\ subgraphBehind = 0 /\ entries = 0
  BY DEF ResolutionInit
<1>2. ResolutionTypeOK
  BY <1>1, NoRecordFacts DEF ResolutionTypeOK
<1>3. RunsAreRecent /\ CachedIsRecent /\ ReferenceIsEntered /\ ShownIsRecent
  BY <1>1, NoRecordFacts DEF RunsAreRecent, RunIsRecent, CachedIsRecent, ReferenceIsEntered,
                             ShownIsRecent
<1> QED
  BY <1>2, <1>3 DEF ResolutionInv

\* What the cache gives is of the name asked and within the cache's time.
LEMMA CacheReadIsRecent ==
    ASSUME ResolutionInv, NEW q \in Query, cacheRead(q) # NoRecord
    PROVE  /\ cacheRead(q) \in Records /\ cacheRead(q).of = q /\ cacheRead(q).source = "cache"
           /\ cacheRead(q).overtaken \/ cacheRead(q).old <= STALE_THRESHOLD + RUN + L2_TTL
<1>1. resolveCache[q] \in [record: Records, kept: Nat]
  BY DEF ResolutionInv, ResolutionTypeOK
<1>2. /\ cacheRead(q) = resolveCache[q].record
      /\ resolveCache[q].kept <= L2_TTL
  BY <1>1, NoRecordFacts DEF cacheRead
<1> QED
  BY <1>1, <1>2 DEF ResolutionInv, CachedIsRecent, Records

\* A run that begins, and what the cache has at once.
LEMMA ResolveKeeps ==
    ASSUME ResolutionInv, NEW i \in Run, NEW q \in Query, Resolve(i, q),
           entered' \in {q}, resolveRef' = q, entries' \in Nat,
           UNCHANGED <<resolveCache, stored, subgraphBehind>>
    PROVE  ResolutionInv'
<1> DEFINE r == [NotRunning EXCEPT !.at = "domain", !.of = q]
<1>1. r \in Runs /\ r.at = "domain" /\ r.of = q
  BY NoRecordFacts DEF NotRunning, Runs, Stages
<1>2. resolving' = [resolving EXCEPT ![i] = r]
  BY DEF Resolve
<1> HIDE DEF r
<1>3. CASE cacheRead(q) # NoRecord
  <2>1. view' = [record |-> cacheRead(q), under |-> q]
    BY <1>3 DEF Resolve
  <2>2. /\ view' \in [record: Records, under: Query \cup {Blank}]
        /\ view'.under = view'.record.of /\ view'.record.source = "cache"
        /\ view'.record.overtaken \/ view'.record.old <= STALE_THRESHOLD + RUN + L2_TTL
    BY <1>3, <2>1, CacheReadIsRecent
  <2>3. ResolutionTypeOK'
    BY <1>1, <1>2, <2>2 DEF ResolutionInv, ResolutionTypeOK
  <2>4. ShownIsRecent'
    BY <2>2, NoRecordFacts DEF ShownIsRecent
  <2>5. ReferenceIsEntered' /\ RunsAreRecent' /\ CachedIsRecent'
    BY <1>1, <1>2 DEF ResolutionInv, ResolutionTypeOK, ReferenceIsEntered, RunsAreRecent, RunIsRecent,
                      CachedIsRecent
  <2> QED
    BY <2>3, <2>4, <2>5 DEF ResolutionInv
<1>4. CASE cacheRead(q) = NoRecord
  <2>1. view' = view
    BY <1>4 DEF Resolve
  <2>2. ResolutionTypeOK' /\ ShownIsRecent'
    BY <1>1, <1>2, <2>1 DEF ResolutionInv, ResolutionTypeOK, ShownIsRecent
  <2>3. ReferenceIsEntered' /\ RunsAreRecent' /\ CachedIsRecent'
    BY <1>1, <1>2 DEF ResolutionInv, ResolutionTypeOK, ReferenceIsEntered, RunsAreRecent, RunIsRecent,
                      CachedIsRecent
  <2> QED
    BY <2>2, <2>3 DEF ResolutionInv
<1> QED
  BY <1>3, <1>4

LEMMA EnterKeeps ==
    ASSUME ResolutionInv, NEW i \in Run, NEW q \in Query \cup {Blank}, EnterQuery(i, q)
    PROVE  ResolutionInv'
<1>1. entries' \in Nat /\ entered' = q /\ UNCHANGED <<resolveCache, stored, subgraphBehind>>
  BY DEF EnterQuery, ResolutionInv, ResolutionTypeOK
<1>2. CASE q = Blank
  <2>1. UNCHANGED <<resolveRef, resolving, view>>
    BY <1>2 DEF EnterQuery
  <2> QED
    BY <1>1, <1>2, <2>1 DEF ResolutionInv, ResolutionTypeOK, ReferenceIsEntered, RunsAreRecent,
                            RunIsRecent, CachedIsRecent, ShownIsRecent
<1>3. CASE q # Blank
  BY <1>1, <1>3, ResolveKeeps DEF EnterQuery
<1> QED
  BY <1>2, <1>3

LEMMA RepeatKeeps ==
    ASSUME ResolutionInv, NEW i \in Run, Repeat(i)
    PROVE  ResolutionInv'
<1>1. entered \in Query /\ resolveRef' = entered /\ entered' = entered /\ entries' \in Nat
  BY DEF Repeat, ResolutionInv, ResolutionTypeOK
<1> QED
  BY <1>1, ResolveKeeps DEF Repeat

\* A run that goes on.
LEMMA ProceedKeeps ==
    ASSUME ResolutionInv, NEW i \in Run, NEW r \in Runs, Proceed(i, r),
           RunIsRecent(r, subgraphBehind), r.at # "resting" => r.of \in Query
    PROVE  ResolutionInv'
<1>1. /\ resolving' = [resolving EXCEPT ![i] = r]
      /\ UNCHANGED <<entered, resolveRef, view, resolveCache, stored, subgraphBehind, entries>>
  BY DEF Proceed
<1>2. ResolutionTypeOK'
  BY <1>1 DEF ResolutionInv, ResolutionTypeOK
<1>3. ReferenceIsEntered' /\ RunsAreRecent' /\ CachedIsRecent' /\ ShownIsRecent'
  BY <1>1 DEF ResolutionInv, ResolutionTypeOK, ReferenceIsEntered, RunsAreRecent, RunIsRecent,
              CachedIsRecent, ShownIsRecent
<1> QED
  BY <1>2, <1>3 DEF ResolutionInv

LEMMA RunReadingKeeps ==
    ASSUME ResolutionInv, NEW i \in Run,
           ReadDomain(i) \/ ReadMeta(i) \/ ReadOwner(i) \/ ReadChain(i)
    PROVE  ResolutionInv'
<1> DEFINE r == resolving[i]
<1>1. /\ r \in Runs /\ (r.at # "resting" => r.of \in Query) /\ RunIsRecent(r, subgraphBehind)
      /\ subgraphBehind \in Nat /\ r.waited \in Nat
  BY DEF ResolutionInv, ResolutionTypeOK, RunsAreRecent, Runs
<1>2. ASSUME Proceed(i, NotRunning) PROVE ResolutionInv'
  BY <1>2, NoRecordFacts, ProceedKeeps DEF RunIsRecent
<1>3. ASSUME NEW s \in Runs, s.of = r.of, r.at # "resting", Proceed(i, s),
             RunIsRecent(s, subgraphBehind)
      PROVE  ResolutionInv'
  BY <1>1, <1>3, ProceedKeeps
<1> HIDE DEF r
<1>4. CASE ReadDomain(i)
  <2> DEFINE s == [r EXCEPT !.at = "meta", !.old = subgraphBehind]
             t == [r EXCEPT !.at = "chain"]
  <2>1. r.at = "domain" /\ (Proceed(i, NotRunning) \/ Proceed(i, s) \/ Proceed(i, t))
    BY <1>4 DEF ReadDomain, r
  <2>2. /\ s \in Runs /\ s.of = r.of /\ s.at = "meta" /\ s.old = subgraphBehind
        /\ s.waited = r.waited
        /\ t \in Runs /\ t.of = r.of /\ t.at = "chain"
    BY <1>1 DEF Runs, Stages
  <2> HIDE DEF s, t
  <2>3. RunIsRecent(s, subgraphBehind) /\ RunIsRecent(t, subgraphBehind)
    BY <1>1, <2>2 DEF RunIsRecent
  <2> QED
    BY <1>2, <1>3, <2>1, <2>2, <2>3
<1>5. CASE ReadMeta(i)
  <2> DEFINE s == [r EXCEPT !.at = "owner"]
             t == [r EXCEPT !.at = "chain"]
  <2>1. /\ r.at = "meta"
        /\ \/ Proceed(i, NotRunning) \/ Proceed(i, t)
           \/ subgraphBehind <= STALE_THRESHOLD /\ Proceed(i, s)
    BY <1>5 DEF ReadMeta, r
  <2>2. /\ s \in Runs /\ s.of = r.of /\ s.at = "owner" /\ s.old = r.old
        /\ s.waited = r.waited /\ s.overtaken = r.overtaken
        /\ t \in Runs /\ t.of = r.of /\ t.at = "chain" /\ r.old \in Nat
    BY <1>1 DEF Runs, Stages
  <2> HIDE DEF s, t
  <2>3. subgraphBehind <= STALE_THRESHOLD => RunIsRecent(s, subgraphBehind)
    BY <1>1, <2>1, <2>2 DEF RunIsRecent
  <2>4. RunIsRecent(t, subgraphBehind)
    BY <2>2 DEF RunIsRecent
  <2> QED
    BY <1>2, <1>3, <2>1, <2>2, <2>3, <2>4
<1>6. ASSUME Proceed(i, [r EXCEPT !.at = "rpc", !.old = 0, !.overtaken = FALSE]), r.at # "resting"
      PROVE  ResolutionInv'
  <2> DEFINE s == [r EXCEPT !.at = "rpc", !.old = 0, !.overtaken = FALSE]
  <2>1. /\ s \in Runs /\ s.of = r.of /\ s.at = "rpc" /\ s.old = 0 /\ s.waited = r.waited
    BY <1>1 DEF Runs, Stages
  <2>2. Proceed(i, s)
    BY <1>6
  <2> HIDE DEF s
  <2>3. RunIsRecent(s, subgraphBehind)
    BY <1>1, <2>1 DEF RunIsRecent
  <2> QED
    BY <1>3, <1>6, <2>1, <2>2, <2>3
<1>7. CASE ReadOwner(i)
  <2> DEFINE s == [r EXCEPT !.at = "subgraph"]
  <2>1. /\ r.at = "owner"
        /\ \/ Proceed(i, s)
           \/ Proceed(i, [r EXCEPT !.at = "rpc", !.old = 0, !.overtaken = FALSE])
    BY <1>7 DEF ReadOwner, r
  <2>2. /\ s \in Runs /\ s.of = r.of /\ s.at = "subgraph" /\ s.old = r.old
        /\ s.waited = r.waited /\ s.overtaken = r.overtaken
    BY <1>1 DEF Runs, Stages
  <2> HIDE DEF s
  <2>3. RunIsRecent(s, subgraphBehind)
    BY <1>1, <2>1, <2>2 DEF RunIsRecent
  <2> QED
    BY <1>3, <1>6, <2>1, <2>2, <2>3
<1>8. CASE ReadChain(i)
  BY <1>2, <1>6, <1>8 DEF ReadChain, r
<1> QED
  BY <1>4, <1>5, <1>7, <1>8

LEMMA DeliverKeeps ==
    ASSUME ResolutionInv, NEW i \in Run, Deliver(i)
    PROVE  ResolutionInv'
<1> DEFINE r == resolving[i]
<1>1. /\ r \in Runs /\ r.of \in Query /\ RunIsRecent(r, subgraphBehind) /\ r.at \in {"subgraph", "rpc"}
      /\ resolving' = [resolving EXCEPT ![i] = NotRunning]
      /\ UNCHANGED <<entered, resolveRef, stored, subgraphBehind, entries>>
      /\ view \in [record: Records, under: Query \cup {Blank}]
  BY DEF ResolutionInv, ResolutionTypeOK, RunsAreRecent, Deliver
<1>2. RunsAreRecent' /\ ReferenceIsEntered'
  BY <1>1, NoRecordFacts DEF ResolutionInv, ResolutionTypeOK, RunsAreRecent, RunIsRecent,
                             ReferenceIsEntered
<1>3. CASE StillAsked(i)
  <2> DEFINE record == [of |-> r.of, source |-> r.at, old |-> r.old, overtaken |-> r.overtaken]
             entry  == [record EXCEPT !.source = "cache"]
  <2>1. /\ view' = [record |-> record, under |-> entered]
        /\ resolveCache' = [resolveCache EXCEPT ![r.of] = [record |-> entry, kept |-> 0]]
    BY <1>3 DEF Deliver, ShowRecord
  <2>2. /\ record \in Records /\ record.of = r.of /\ record.old = r.old
        /\ record.overtaken = r.overtaken
        /\ entry \in Records /\ entry.of = r.of /\ entry.old = r.old
        /\ entry.overtaken = r.overtaken /\ entry.source = "cache"
    BY <1>1 DEF Records, Runs
  <2> HIDE DEF record, entry
  <2>3. r.overtaken \/ r.old <= STALE_THRESHOLD + RUN
    <3>1. r.waited \in 0..RUN /\ r.old \in Nat
      BY <1>1 DEF Runs
    <3> QED
      BY <1>1, <3>1 DEF RunIsRecent
  <2>4. resolveRef = r.of
    BY <1>3 DEF StillAsked
  <2>5. ResolutionTypeOK'
    BY <1>1, <2>1, <2>2, NoRecordFacts DEF ResolutionInv, ResolutionTypeOK
  <2>6. ShownIsRecent'
    <3>1. view'.record = record /\ view'.under = entered
      BY <2>1
    <3>2. /\ r.overtaken \/ r.old <= STALE_THRESHOLD + RUN + 0
          /\ r.overtaken \/ r.old <= STALE_THRESHOLD + RUN + L2_TTL
      BY <1>1, <2>3 DEF Runs
    <3> QED
      BY <2>2, <2>4, <3>1, <3>2 DEF ShownIsRecent, ResolutionInv, ReferenceIsEntered
  <2>7. CachedIsRecent'
    <3>1. r.old \in Nat /\ (r.overtaken \/ r.old <= STALE_THRESHOLD + RUN + 0)
      BY <1>1, <2>3 DEF Runs
    <3> QED
      BY <1>1, <2>1, <2>2, <3>1 DEF ResolutionInv, ResolutionTypeOK, CachedIsRecent
  <2> QED
    BY <1>2, <2>5, <2>6, <2>7 DEF ResolutionInv
<1>4. CASE ~StillAsked(i)
  <2>1. UNCHANGED <<view, resolveCache>>
    BY <1>4 DEF Deliver
  <2>2. ResolutionTypeOK'
    BY <1>1, <2>1, NoRecordFacts DEF ResolutionInv, ResolutionTypeOK
  <2> QED
    BY <1>2, <2>1, <2>2 DEF ResolutionInv, CachedIsRecent, ShownIsRecent
<1> QED
  BY <1>3, <1>4

LEMMA OptimisticKeeps ==
    ASSUME ResolutionInv, NEW q \in Query, OptimisticRegister(q)
    PROVE  ResolutionInv'
<1>1. PICK r : r = [of |-> q, source |-> "cache", old |-> 0, overtaken |-> FALSE]
  OBVIOUS
<1>2. r \in Records /\ r.of = q /\ r.source = "cache" /\ r.old = 0
  BY <1>1 DEF Records
<1>3. PICK n \in Nat : n = L1_TTL - L1_LEFT
  BY NoRecordFacts
<1>4. /\ resolveCache' = [resolveCache EXCEPT ![q] = [record |-> r, kept |-> n]]
      /\ UNCHANGED <<entered, resolveRef, view, stored, resolving, subgraphBehind>>
      /\ entries' = entries + 1
  BY <1>1, <1>3 DEF OptimisticRegister
<1>5. r.old <= STALE_THRESHOLD + RUN + n
  BY <1>2, <1>3, NoRecordFacts
<1>6. CachedIsRecent'
  BY <1>2, <1>4, <1>5 DEF ResolutionInv, ResolutionTypeOK, CachedIsRecent
<1>7. ResolutionTypeOK'
  BY <1>2, <1>3, <1>4 DEF ResolutionInv, ResolutionTypeOK
<1> QED
  BY <1>4, <1>6, <1>7 DEF ResolutionInv, ReferenceIsEntered, RunsAreRecent, RunIsRecent, ShownIsRecent

LEMMA AgedRecordIsOlder == ASSUME NEW n \in Nat PROVE AgedRecord(n) \in Nat /\ AgedRecord(n) <= n + 1
BY NoRecordFacts DEF AgedRecord

LEMMA ResolutionTickKeeps ==
    ASSUME ResolutionInv, ResolutionTick
    PROVE  ResolutionInv'
<1>1. /\ UNCHANGED <<entered, resolveRef, stored, entries>>
      /\ subgraphBehind' \in 0..MaxBehind
      /\ subgraphBehind' # 0 => subgraphBehind <= subgraphBehind'
      /\ subgraphBehind \in Nat /\ subgraphBehind' \in Nat
  <2>1. subgraphBehind \in 0..MaxBehind
    BY DEF ResolutionInv, ResolutionTypeOK
  <2>2. \/ subgraphBehind' \in {0, MaxBehind}
        \/ subgraphBehind < MaxBehind /\ subgraphBehind' = subgraphBehind + 1
    BY DEF ResolutionTick
  <2>3. UNCHANGED <<entered, resolveRef, stored, entries>>
    BY DEF ResolutionTick
  <2> QED
    BY <2>1, <2>2, <2>3
<1>2. ASSUME NEW i \in Run
      PROVE  /\ resolving'[i] \in Runs /\ RunIsRecent(resolving'[i], subgraphBehind')
             /\ resolving'[i].at # "resting" => resolving'[i].of \in Query
  <2> DEFINE r == resolving[i]
             s == [r EXCEPT !.old = AgedRecord(@), !.waited = @ + 1,
                            !.overtaken = @ \/ (r.at = "meta" /\ subgraphBehind' = 0)]
  <2>1. r \in Runs /\ RunIsRecent(r, subgraphBehind) /\ (r.at # "resting" => r.of \in Query)
    BY DEF ResolutionInv, ResolutionTypeOK, RunsAreRecent
  <2>2. resolving'[i] = IF r = NotRunning THEN NotRunning ELSE s
    BY DEF ResolutionTick
  <2>3. CASE r = NotRunning
    BY <2>2, <2>3, NoRecordFacts DEF RunIsRecent
  <2>4. CASE r # NotRunning
    <3>1. r.waited < RUN /\ r.waited \in Nat /\ r.old \in Nat /\ r.overtaken \in BOOLEAN
          /\ r.waited + 1 \in 0..RUN
      <4>1. r.waited < RUN
        BY <2>4 DEF ResolutionTick
      <4> HIDE DEF r
      <4> QED
        BY <2>1, <4>1 DEF Runs
    <3> DEFINE late == r.overtaken \/ (r.at = "meta" /\ subgraphBehind' = 0)
    <3>2. s = [r EXCEPT !.old = AgedRecord(r.old), !.waited = r.waited + 1, !.overtaken = late]
      BY <2>1 DEF Runs
    <3>3. late \in BOOLEAN /\ AgedRecord(r.old) \in Nat /\ AgedRecord(r.old) <= r.old + 1
      BY <3>1, AgedRecordIsOlder
    <3>4. /\ s \in Runs /\ s.at = r.at /\ s.of = r.of /\ s.old = AgedRecord(r.old)
          /\ s.waited = r.waited + 1 /\ s.overtaken = late
      <4> HIDE DEF s, r, late
      <4> QED
        BY <2>1, <3>1, <3>2, <3>3 DEF Runs
    <3> HIDE DEF s
    <3>5. RunIsRecent(s, subgraphBehind')
      <4>1. CASE r.overtaken
        BY <3>4, <4>1 DEF RunIsRecent
      <4>2. CASE ~r.overtaken /\ r.at = "meta" /\ subgraphBehind' = 0
        BY <3>4, <4>2 DEF RunIsRecent
      <4>3. CASE ~r.overtaken /\ r.at = "meta" /\ subgraphBehind' # 0
        <5>1. r.old <= subgraphBehind + r.waited /\ subgraphBehind <= subgraphBehind'
          BY <1>1, <2>1, <4>3 DEF RunIsRecent
        <5>2. AgedRecord(r.old) <= subgraphBehind' + (r.waited + 1)
          BY <1>1, <3>1, <3>3, <5>1
        <5> QED
          BY <3>4, <4>3, <5>2 DEF RunIsRecent
      <4>4. CASE ~r.overtaken /\ r.at \in {"owner", "subgraph", "rpc"}
        <5>1. r.old <= STALE_THRESHOLD + r.waited
          BY <2>1, <4>4 DEF RunIsRecent
        <5>2. AgedRecord(r.old) <= STALE_THRESHOLD + (r.waited + 1)
          BY <3>1, <3>3, <5>1
        <5> QED
          BY <3>4, <4>4, <5>2 DEF RunIsRecent
      <4> QED
        BY <3>4, <4>1, <4>2, <4>3, <4>4 DEF RunIsRecent
    <3> QED
      BY <2>1, <2>2, <2>4, <3>4, <3>5
  <2> QED
    BY <2>3, <2>4
<1>3. ASSUME NEW q \in Query
      PROVE  /\ resolveCache'[q] \in [record: Records, kept: Nat]
             /\ resolveCache'[q].record # NoRecord =>
                  /\ resolveCache'[q].record.of = q /\ resolveCache'[q].record.source = "cache"
                  /\ \/ resolveCache'[q].record.overtaken
                     \/ resolveCache'[q].record.old <= STALE_THRESHOLD + RUN + resolveCache'[q].kept
  <2> DEFINE r == resolveCache[q].record
             n == resolveCache[q].kept
             s == [r EXCEPT !.old = AgedRecord(@)]
  <2>1. r \in Records /\ n \in Nat /\ resolveCache[q] \in [record: Records, kept: Nat]
        /\ (r # NoRecord => /\ r.of = q /\ r.source = "cache"
                            /\ r.overtaken \/ r.old <= STALE_THRESHOLD + RUN + n)
    BY DEF ResolutionInv, ResolutionTypeOK, CachedIsRecent
  <2>2. resolveCache'[q] = IF r = NoRecord THEN resolveCache[q]
                           ELSE IF cacheRead(q) = NoRecord THEN [record |-> NoRecord, kept |-> 0]
                           ELSE [record |-> s, kept |-> n + 1]
    BY DEF ResolutionTick
  <2>3. /\ s \in Records /\ s.of = r.of /\ s.source = r.source /\ s.overtaken = r.overtaken
        /\ s.old \in Nat /\ s.old <= r.old + 1 /\ r.old \in Nat
    BY <2>1, AgedRecordIsOlder DEF Records
  <2> HIDE DEF s
  <2>4. CASE r = NoRecord
    BY <2>1, <2>2, <2>4
  <2>5. CASE r # NoRecord /\ cacheRead(q) = NoRecord
    BY <2>2, <2>5, NoRecordFacts
  <2>6. CASE r # NoRecord /\ cacheRead(q) # NoRecord
    <3>1. r.overtaken \/ s.old <= STALE_THRESHOLD + RUN + (n + 1)
      BY <2>1, <2>3, <2>6, NoRecordFacts
    <3> QED
      BY <2>1, <2>2, <2>3, <2>6, <3>1
  <2> QED
    BY <2>4, <2>5, <2>6
<1>4. /\ view' \in [record: Records, under: Query \cup {Blank}]
      /\ view'.under = view.under /\ view'.record.of = view.record.of
      /\ view'.record.source = view.record.source /\ view'.record.old = 0
      /\ view.record = NoRecord => view'.record = NoRecord
  <2> DEFINE r == view.record
             s == [r EXCEPT !.old = 0, !.overtaken = FALSE]
  <2>1. view \in [record: Records, under: Query \cup {Blank}] /\ r \in Records
    BY DEF ResolutionInv, ResolutionTypeOK
  <2>2. view' = [view EXCEPT !.record.old = 0, !.record.overtaken = FALSE]
    BY DEF ResolutionTick
  <2>3. view' = [view EXCEPT !.record = s]
    BY <2>1, <2>2
  <2> HIDE DEF r
  <2>4. /\ s \in Records /\ s.of = r.of /\ s.source = r.source /\ s.old = 0
    BY <2>1 DEF Records
  <2>5. ASSUME NEW n, n = [NoRecord EXCEPT !.old = 0, !.overtaken = FALSE]
        PROVE  n = [of |-> Blank, source |-> Blank, old |-> 0, overtaken |-> FALSE]
    BY <2>5 DEF NoRecord
  <2>6. r = NoRecord => s = NoRecord
    BY <2>5 DEF s, NoRecord
  <2> HIDE DEF s
  <2> QED
    BY <2>1, <2>3, <2>4, <2>6 DEF r
<1>5. /\ resolveCache' = [q \in Query |-> resolveCache'[q]]
      /\ resolving' = [i \in Run |-> resolving'[i]]
  BY DEF ResolutionTick
<1>6. ResolutionTypeOK'
  BY <1>1, <1>2, <1>3, <1>4, <1>5 DEF ResolutionInv, ResolutionTypeOK
<1>7. ReferenceIsEntered' /\ RunsAreRecent' /\ CachedIsRecent'
  BY <1>1, <1>2, <1>3 DEF ResolutionInv, ReferenceIsEntered, RunsAreRecent, CachedIsRecent
<1>8. ShownIsRecent'
  <2>1. 0 <= STALE_THRESHOLD + RUN + 0 /\ 0 <= STALE_THRESHOLD + RUN + L2_TTL
    BY NoRecordFacts
  <2> QED
    BY <1>4, <2>1 DEF ResolutionInv, ShownIsRecent
<1> QED
  BY <1>6, <1>7, <1>8 DEF ResolutionInv

LEMMA ResolutionStep == ResolutionInv /\ [ResolutionNext]_resolutionVars => ResolutionInv'
<1> SUFFICES ASSUME ResolutionInv, [ResolutionNext]_resolutionVars PROVE ResolutionInv'
  OBVIOUS
<1>1. CASE UNCHANGED resolutionVars
  BY <1>1 DEF resolutionVars, ResolutionInv, ResolutionTypeOK, ReferenceIsEntered, RunsAreRecent,
              RunIsRecent, CachedIsRecent, ShownIsRecent
<1> QED
  BY <1>1, EnterKeeps, RepeatKeeps, RunReadingKeeps, DeliverKeeps, OptimisticKeeps,
     ResolutionTickKeeps DEF ResolutionNext

\* A record is shown under the name it is of, and is as recent as the checks make it.
THEOREM ShownIsRecentHolds == ResolutionSpec => []ShownIsRecent
<1>1. ResolutionSpec => []ResolutionInv
  BY ResolutionInitially, ResolutionStep, PTL DEF ResolutionSpec
<1>2. ResolutionInv => ShownIsRecent
  BY DEF ResolutionInv
<1> QED
  BY <1>1, <1>2, PTL

------------------------------------------------------------------------------
(* The list of owned names (OwnedNames).                                    *)

USE OwnedAssumption

Loads == [for: Owner, stage: {"index", "logs", "subgraph", "rpc", "failed"},
          names: SUBSET OwnedName, live: BOOLEAN]
Holders == Owner \cup {Market}

OwnedTypeOK ==
    /\ holder \in [OwnedName -> Holders] /\ indexOwner \in [OwnedName -> Holders]
    /\ held \in [Owner -> SUBSET OwnedName]
    /\ address \in Owner \cup {NoOwner}
    /\ listDue \in BOOLEAN /\ listLoading \in BOOLEAN /\ listError \in BOOLEAN
    /\ domains \in [names: SUBSET OwnedName, source: {"none", "subgraph", "rpc"}]
    /\ loads \subseteq Loads
    /\ kept \subseteq OwnedName

\* Who has a name, or is taken to have it by the index, has been sent it.
HoldersWereSent ==
    \A n \in OwnedName : \A w \in Owner : w \in {holder[n], indexOwner[n]} => n \in held[w]

\* Not two loads can still change the list.
OneLive == \A l, m \in loads : l.live /\ m.live => l = m

\* What is kept has been kept by the index too, so that a reading of it has it.
KeptIsKnown ==
    ~listDue => \A n \in kept : holder[n] = address /\ indexOwner[n] = address

\* What a load that counts will answer, when the effect is not pending.
Answers(l) ==
    /\ l.for = address /\ listLoading
    /\ l.stage \in {"subgraph", "rpc"} => l.names \subseteq held[address]
    /\ l.stage = "subgraph" => kept \subseteq l.names
LiveAnswers == ~listDue => \A l \in loads : l.live => Answers(l)

OwnedInv ==
    OwnedTypeOK /\ HoldersWereSent /\ OneLive /\ KeptIsKnown /\ LiveAnswers /\ OwnListShown

LEMMA OwnedInitially == OwnedInit => OwnedInv
<1> SUFFICES ASSUME OwnedInit PROVE OwnedInv
  OBVIOUS
<1>1. OwnedTypeOK
  BY DEF OwnedInit, OwnedTypeOK, NoList, Holders
<1>2. HoldersWereSent
  BY DEF OwnedInit, HoldersWereSent
<1>3. OneLive /\ KeptIsKnown /\ LiveAnswers /\ OwnListShown
  BY DEF OwnedInit, OneLive, KeptIsKnown, LiveAnswers, OwnListShown, ListShown, Connected
<1> QED
  BY <1>1, <1>2, <1>3 DEF OwnedInv

\* The chain and the index move under the list.
LEMMA TradeKeeps ==
    ASSUME OwnedInv, NEW n \in OwnedName, NEW w \in Owner \cup {Market}, TradeName(n, w)
    PROVE  OwnedInv'
<1>1. /\ holder' = [holder EXCEPT ![n] = w] /\ kept' = kept \ {n}
      /\ held' = IF w \in Owner THEN [held EXCEPT ![w] = @ \cup {n}] ELSE held
      /\ UNCHANGED <<indexOwner, address, listDue, domains, listLoading, listError, loads,
                     selectedDomain, primarySetting>>
  BY DEF TradeName, panelVars
<1>2. OwnedTypeOK'
  BY <1>1 DEF OwnedInv, OwnedTypeOK, Holders
<1>3. \A v \in Owner : held[v] \subseteq held'[v]
  BY <1>1 DEF OwnedInv, OwnedTypeOK
<1>4. HoldersWereSent'
  BY <1>1, <1>3 DEF OwnedInv, OwnedTypeOK, HoldersWereSent
<1>5. OneLive' /\ KeptIsKnown'
  BY <1>1 DEF OwnedInv, OwnedTypeOK, OneLive, KeptIsKnown
<1>6. LiveAnswers'
  <2>1. ASSUME ~listDue, NEW l \in loads, l.live PROVE Answers(l)'
    <3>1. Answers(l) /\ address \in Owner
      BY <2>1 DEF OwnedInv, LiveAnswers, OwnedTypeOK, Loads, Answers
    <3> QED
      BY <1>1, <1>3, <3>1 DEF Answers
  <2> QED
    BY <1>1, <2>1 DEF LiveAnswers
<1>7. OwnListShown'
  BY <1>1, <1>3 DEF OwnedInv, OwnedTypeOK, OwnListShown, ListShown, Connected, Selectable
<1> QED
  BY <1>2, <1>4, <1>5, <1>6, <1>7 DEF OwnedInv

LEMMA CatchUpKeeps ==
    ASSUME OwnedInv, NEW n \in OwnedName, CatchUp(n)
    PROVE  OwnedInv'
<1>1. /\ indexOwner[n] # holder[n] /\ indexOwner' = [indexOwner EXCEPT ![n] = holder[n]]
      /\ UNCHANGED <<holder, held, address, listDue, domains, listLoading, listError, loads, kept,
                     selectedDomain, primarySetting>>
  BY DEF CatchUp, panelVars
<1>2. OwnedTypeOK' /\ HoldersWereSent' /\ KeptIsKnown'
  BY <1>1 DEF OwnedInv, OwnedTypeOK, HoldersWereSent, KeptIsKnown
<1>3. OneLive' /\ LiveAnswers' /\ OwnListShown'
  BY <1>1 DEF OwnedInv, OneLive, LiveAnswers, Answers, OwnListShown, ListShown, Connected, Selectable
<1> QED
  BY <1>2, <1>3 DEF OwnedInv

LEMMA DependKeeps ==
    ASSUME OwnedInv, NEW w \in Owner \cup {NoOwner}, Depend(w)
    PROVE  OwnedInv'
BY DEF Depend, chainOfNames, panelVars, OwnedInv, OwnedTypeOK, HoldersWereSent, OneLive,
       KeptIsKnown, LiveAnswers, OwnListShown, Selectable

\* What is cancelled no longer counts.
LEMMA CancelledAreDead ==
    ASSUME OwnedTypeOK
    PROVE  Cancelled(loads) \subseteq Loads /\ \A l \in Cancelled(loads) : ~l.live
<1> SUFFICES ASSUME NEW l \in Cancelled(loads) PROVE l \in Loads /\ ~l.live
  OBVIOUS
<1>1. PICK m \in loads : l = [m EXCEPT !.live = FALSE]
  BY DEF Cancelled
<1>2. m \in Loads
  BY DEF OwnedTypeOK
<1> QED
  BY <1>1, <1>2 DEF Loads

LEMMA RunListEffectKeeps ==
    ASSUME OwnedInv, RunListEffect
    PROVE  OwnedInv'
<1>1. UNCHANGED <<holder, held, indexOwner, address>> /\ ~listDue' /\ OwnedTypeOK
  BY DEF RunListEffect, chainOfNames, OwnedInv
<1>2. HoldersWereSent'
  BY <1>1 DEF OwnedInv, HoldersWereSent
<1>3. CASE address = NoOwner
  <2>1. /\ domains' = NoList /\ loads' = Cancelled(loads) /\ kept' = {}
        /\ selectedDomain' = selectedDomain \cap Selectable(domains')
        /\ UNCHANGED <<listLoading, listError>>
    BY <1>3 DEF RunListEffect, DrawList
  <2>2. OwnedTypeOK' /\ OneLive' /\ KeptIsKnown' /\ LiveAnswers'
    BY <1>1, <2>1, CancelledAreDead DEF OwnedTypeOK, NoList, OneLive, KeptIsKnown, LiveAnswers,
                                        Answers, RunListEffect
  <2>3. OwnListShown'
    BY <1>1, <1>3, <2>1 DEF OwnListShown, ListShown, Connected, Selectable
  <2> QED
    BY <1>2, <2>2, <2>3 DEF OwnedInv
<1>4. CASE address # NoOwner
  <2> DEFINE l == [for |-> address, stage |-> "index", names |-> {}, live |-> TRUE]
  <2>1. /\ listLoading' = TRUE /\ listError' = FALSE
        /\ loads' = Cancelled(loads) \cup {l}
        /\ kept' = {n \in OwnedName : holder[n] = address /\ indexOwner[n] = address}
        /\ UNCHANGED <<domains, selectedDomain>>
    BY <1>4 DEF RunListEffect, panelVars
  <2>2. l \in Loads /\ l.for = address /\ l.stage = "index" /\ l.live
    BY <1>1, <1>4 DEF OwnedTypeOK, Loads
  <2> HIDE DEF l
  <2>3. OwnedTypeOK'
    BY <1>1, <2>1, <2>2, CancelledAreDead DEF OwnedTypeOK, RunListEffect
  <2>4. OneLive' /\ KeptIsKnown' /\ LiveAnswers'
    BY <1>1, <2>1, <2>2, CancelledAreDead DEF OneLive, KeptIsKnown, LiveAnswers, Answers
  <2>5. OwnListShown'
    BY <1>1, <2>1 DEF OwnedInv, OwnListShown, ListShown, Selectable
  <2> QED
    BY <1>2, <2>3, <2>4, <2>5 DEF OwnedInv
<1> QED
  BY <1>3, <1>4

\* A load that reads: it stays as live and for the same wallet, or is given up.
LEMMA OwnedReadKeeps ==
    ASSUME OwnedInv, NEW l \in loads,
           UNCHANGED <<chainOfNames, address, listDue, domains, listLoading, listError, kept,
                       panelVars, switches>>,
           \/ \E m \in Loads : loads' = (loads \ {l}) \cup {m} /\ m.live = l.live
                 /\ (l.live /\ ~listDue /\ Answers(l) => Answers(m))
           \/ loads' = loads \ {l}
    PROVE  OwnedInv'
<1>1. UNCHANGED <<holder, held, indexOwner, address, listDue, domains, listLoading, listError,
                  kept, selectedDomain>>
  BY DEF chainOfNames, panelVars
<1>2. OwnedTypeOK' /\ HoldersWereSent' /\ KeptIsKnown' /\ OwnListShown'
  BY <1>1 DEF OwnedInv, OwnedTypeOK, HoldersWereSent, KeptIsKnown, OwnListShown, ListShown, Connected,
              Selectable
<1>3. OneLive'
  BY DEF OwnedInv, OneLive
<1>4. LiveAnswers'
  <2>1. \A m : Answers(m)' <=> Answers(m)
    BY <1>1 DEF Answers
  <2> QED
    BY <1>1, <2>1 DEF OwnedInv, LiveAnswers
<1> QED
  BY <1>2, <1>3, <1>4 DEF OwnedInv

LEMMA ReadIndexKeeps ==
    ASSUME OwnedInv, NEW l \in loads, ReadIndex(l)
    PROVE  OwnedInv'
<1>1. l \in Loads /\ l.stage = "index"
  BY DEF OwnedInv, OwnedTypeOK, ReadIndex
<1>2. CASE loads' = (loads \ {l}) \cup
                      {[l EXCEPT !.stage = "subgraph", !.names = Owned(indexOwner, l.for)]}
  <2> DEFINE m == [l EXCEPT !.stage = "subgraph", !.names = Owned(indexOwner, l.for)]
  <2>1. Owned(indexOwner, l.for) \in SUBSET OwnedName
    BY DEF Owned
  <2>2. /\ m \in Loads /\ m.live = l.live /\ m.for = l.for /\ m.stage = "subgraph"
        /\ m.names = Owned(indexOwner, l.for)
    BY <1>1, <2>1 DEF Loads
  <2> HIDE DEF m
  <2>3. Owned(indexOwner, l.for) \subseteq held[l.for]
    BY <1>1 DEF OwnedInv, HoldersWereSent, Owned, Loads
  <2>4. ~listDue /\ l.for = address => kept \subseteq Owned(indexOwner, l.for)
    BY DEF OwnedInv, OwnedTypeOK, KeptIsKnown, Owned
  <2>5. ~listDue /\ Answers(l) => Answers(m)
    BY <2>2, <2>3, <2>4 DEF Answers
  <2> QED
    BY <1>2, <2>2, <2>5, OwnedReadKeeps DEF ReadIndex, m
<1>3. CASE loads' = (loads \ {l}) \cup {[l EXCEPT !.stage = "logs"]}
  <2> DEFINE m == [l EXCEPT !.stage = "logs"]
  <2>1. m \in Loads /\ m.live = l.live /\ m.for = l.for /\ m.stage = "logs"
    BY <1>1 DEF Loads
  <2> HIDE DEF m
  <2>2. Answers(l) => Answers(m)
    BY <2>1 DEF Answers
  <2> QED
    BY <1>3, <2>1, <2>2, OwnedReadKeeps DEF ReadIndex, m
<1>4. CASE loads' = loads \ {l}
  BY <1>4, OwnedReadKeeps DEF ReadIndex
<1> QED
  BY <1>2, <1>3, <1>4 DEF ReadIndex

LEMMA ReadLogsKeeps ==
    ASSUME OwnedInv, NEW l \in loads, ReadLogs(l)
    PROVE  OwnedInv'
<1>1. l \in Loads /\ held[l.for] \subseteq OwnedName
  BY DEF OwnedInv, OwnedTypeOK, Loads
<1>2. ASSUME NEW names \in SUBSET held[l.for],
             loads' = (loads \ {l}) \cup {[l EXCEPT !.stage = "rpc", !.names = names]}
      PROVE  OwnedInv'
  <2> DEFINE m == [l EXCEPT !.stage = "rpc", !.names = names]
  <2>1. m \in Loads /\ m.live = l.live /\ m.for = l.for /\ m.stage = "rpc" /\ m.names = names
    BY <1>1 DEF Loads
  <2> HIDE DEF m
  <2>2. Answers(l) => Answers(m)
    BY <2>1 DEF Answers
  <2> QED
    BY <1>2, <2>1, <2>2, OwnedReadKeeps DEF ReadLogs, m
<1>3. CASE loads' = (loads \ {l}) \cup {[l EXCEPT !.stage = "failed"]}
  <2> DEFINE m == [l EXCEPT !.stage = "failed"]
  <2>1. m \in Loads /\ m.live = l.live /\ m.for = l.for /\ m.stage = "failed"
    BY <1>1 DEF Loads
  <2> HIDE DEF m
  <2>2. Answers(l) => Answers(m)
    BY <2>1 DEF Answers
  <2> QED
    BY <1>3, <2>1, <2>2, OwnedReadKeeps DEF ReadLogs, m
<1> QED
  BY <1>2, <1>3 DEF ReadLogs

LEMMA EndLoadKeeps ==
    ASSUME OwnedInv, NEW l \in loads, EndLoad(l)
    PROVE  OwnedInv'
<1>1. CASE ~l.live
  BY <1>1, OwnedReadKeeps DEF EndLoad
<1>2. CASE l.live
  <2>1. /\ l.stage \in {"subgraph", "rpc", "failed"} /\ loads' = loads \ {l}
        /\ listLoading' = FALSE /\ listError' = (l.stage = "failed")
        /\ domains' = IF l.stage = "failed" THEN domains ELSE [names |-> l.names, source |-> l.stage]
        /\ selectedDomain' = selectedDomain \cap Selectable(domains')
        /\ UNCHANGED <<holder, held, indexOwner, address, listDue, kept>>
    BY <1>2 DEF EndLoad, DrawList, chainOfNames
  <2>2. l \in Loads
    BY DEF OwnedInv, OwnedTypeOK
  <2>3. OwnedTypeOK' /\ HoldersWereSent' /\ KeptIsKnown'
    BY <2>1, <2>2 DEF OwnedInv, OwnedTypeOK, HoldersWereSent, KeptIsKnown, Loads
  <2>4. OneLive' /\ LiveAnswers'
    BY <1>2, <2>1 DEF OwnedInv, OneLive, LiveAnswers
  <2>5. OwnListShown'
    BY <1>2, <2>1, <2>2 DEF OwnedInv, LiveAnswers, Answers, OwnListShown, ListShown, Selectable, Loads
  <2> QED
    BY <2>3, <2>4, <2>5 DEF OwnedInv
<1> QED
  BY <1>1, <1>2

LEMMA OwnedStep == OwnedInv /\ [OwnedNext]_ownedVars => OwnedInv'
<1> SUFFICES ASSUME OwnedInv, [OwnedNext]_ownedVars PROVE OwnedInv'
  OBVIOUS
<1>1. ASSUME \/ \E choice \in SUBSET OwnedName : SelectDomain(choice)
             \/ HandleSet \/ SetPrimaryReturns \/ UNCHANGED ownedVars
      PROVE  OwnedInv'
  <2>1. /\ UNCHANGED <<holder, held, indexOwner, address, listDue, domains, listLoading, listError,
                       loads, kept>>
        /\ selectedDomain' \subseteq Selectable(domains)
    BY <1>1 DEF SelectDomain, HandleSet, SetPrimaryReturns, PanelOnly, chainOfNames, ownedVars,
                panelVars, OwnedInv, OwnListShown
  <2> QED
    BY <2>1 DEF OwnedInv, OwnedTypeOK, HoldersWereSent, OneLive, KeptIsKnown, LiveAnswers, Answers,
                OwnListShown, ListShown, Connected, Selectable
<1> QED
  BY <1>1, TradeKeeps, CatchUpKeeps, DependKeeps, RunListEffectKeeps, ReadIndexKeeps, ReadLogsKeeps,
     EndLoadKeeps DEF OwnedNext

\* A list that is shown has only names that have been the connected wallet's and, from the
\* subgraph, every name that it had from the question until now.
THEOREM OwnListShownHolds == OwnedSpec => []OwnListShown
<1>1. OwnedSpec => []OwnedInv
  BY OwnedInitially, OwnedStep, PTL DEF OwnedSpec
<1>2. OwnedInv => OwnListShown
  BY DEF OwnedInv
<1> QED
  BY <1>1, <1>2, PTL

------------------------------------------------------------------------------
(* What counts as a name (NameRules).                                       *)

\* A set of naturals has a smallest one.
LEMMA SmallestOf ==
    ASSUME NEW T, T \subseteq Nat, T # {}
    PROVE  \E x \in T : \A y \in T : ~(y < x)
<1> DEFINE R == {ss \in Nat \X Nat : ss[1] < ss[2]}
<1>1. IsWellFoundedOn(R, Nat)
  BY NatLessThanWellFounded, Zenon DEF OpToRel
<1>2. PICK x \in T : \A y \in T : ~(<<y, x>> \in R)
  <2> HIDE DEF R
  <2> QED
    BY <1>1, WFMin
<1> QED
  BY <1>2

\* A text without pairs of UTF-16 is its own sequence of units.
LEMMA FlattenOfSingles ==
    ASSUME NEW s, s \in Seq(Character)
    PROVE  FlattenSeq([i \in DOMAIN s |-> <<s[i]>>]) = s
<1> DEFINE u == [i \in DOMAIN s |-> <<s[i]>>]
           n == Len(s)
           g == [i \in 1..n |-> SubSeq(s, 1, i)]
           D(f) == [i \in 1..n |-> IF i = 1 THEN u[i] ELSE f[i - 1] \o u[i]]
           F == CHOOSE f : f = [i \in 1..Len(u) |-> IF i = 1 THEN u[i] ELSE f[i - 1] \o u[i]]
<1>1. n \in Nat /\ DOMAIN s = 1..n /\ Len(u) = n
  BY LenProperties
<1>2. CASE n = 0
  <2>1. u = <<>> /\ s = <<>>
    BY <1>1, <1>2, EmptySeq
  <2> QED
    BY <2>1, <1>1, <1>2 DEF FlattenSeq
<1>3. CASE n # 0
  <2>1. FlattenSeq(u) = F[n]
    BY <1>1, <1>3, Zenon DEF FlattenSeq
  <2>2. ASSUME NEW i \in 1..n PROVE u[i] = <<s[i]>> /\ s[i] \in Character
    BY <1>1, ElementOfSeq
  <2>3. ASSUME NEW i \in 1..n PROVE g[i] = IF i = 1 THEN u[i] ELSE g[i - 1] \o u[i]
    <3>1. SubSeq(s, 1, i) = SubSeq(s, 1, i - 1) \o <<s[i]>>
      BY <1>1, <1>3, SubSeqRecursiveSecond
    <3>2. CASE i = 1
      <4>1. SubSeq(s, 1, 0) = <<>> /\ <<>> \o <<s[i]>> = <<s[i]>>
        BY <2>2, ConcatEmptySeq, SubSeqEmpty
      <4>2. SubSeq(s, 1, i - 1) = <<>>
        BY <3>2, <4>1
      <4>3. g[i] = <<s[i]>>
        BY <3>1, <4>1, <4>2
      <4> QED
        BY <3>2, <4>3, <2>2
    <3>3. CASE i # 1
      <4>1. i - 1 \in 1..n
        BY <1>1, <3>3
      <4> QED
        BY <3>1, <3>3, <4>1, <2>2
    <3> QED
      BY <3>2, <3>3
  <2>4. g = D(g)
    BY <2>3
  <2>5. F = D(F)
    <3>1. \E f : f = D(f)
      BY <2>4
    <3> QED
      BY <3>1, <1>1, Zenon
  <2> HIDE DEF F, g, u
  <2>6. \A i \in 1..n : F[i] = g[i]
    <3> DEFINE T == {i \in 1..n : F[i] # g[i]}
    <3> SUFFICES ASSUME T # {} PROVE FALSE
      OBVIOUS
    <3>1. PICK i \in T : \A j \in T : ~(j < i)
      <4>1. T \subseteq Nat
        BY <1>1
      <4> HIDE DEF T
      <4> QED
        BY <4>1, SmallestOf
    <3>2. i \in 1..n
      OBVIOUS
    <3>3. CASE i = 1
      BY <2>3, <2>5, <3>2, <3>3
    <3>4. CASE i # 1
      <4>1. i - 1 \in 1..n /\ i - 1 < i
        BY <1>1, <3>2, <3>4
      <4>2. F[i] = F[i - 1] \o u[i] /\ g[i] = g[i - 1] \o u[i]
        BY <2>3, <2>5, <3>2, <3>4
      <4> QED
        BY <3>1, <4>1, <4>2
    <3> QED
      BY <3>3, <3>4
  <2>7. g[n] = s
    BY <1>1, <1>3, SubSeqFull DEF g
  <2> QED
    BY <1>1, <1>3, <2>1, <2>6, <2>7 DEF u
<1> QED
  BY <1>1, <1>2, <1>3

LEMMA UnitsOfSingles ==
    ASSUME NEW s, s \in Seq(Character), ~Has(s, {Pair})
    PROVE  Units(s) = s
<1>1. [i \in DOMAIN s |-> IF s[i] = Pair THEN <<"hi", "lo">> ELSE <<s[i]>>]
         = [i \in DOMAIN s |-> <<s[i]>>]
  BY DEF Has
<1> QED
  BY <1>1, FlattenOfSingles DEF Units

\* What trimming at the front leaves.
LEMMA TrimStartOf ==
    ASSUME NEW s, s \in Seq(Character)
    PROVE  /\ trimStart(s) \in Seq(Character)
           /\ \A j \in DOMAIN trimStart(s) : \E k \in DOMAIN s : trimStart(s)[j] = s[k]
           /\ s # <<>> /\ s[1] # " " => trimStart(s) = s
<1> DEFINE I == {i \in 1..Len(s) : s[i] # " "}
           m == CHOOSE x \in I : \A y \in I : x =< y
<1>1. SelectInSeq(s, LAMBDA c : c # " ") = IF I # {} THEN m ELSE 0
  BY DEF SelectInSeq, Min
<1>2. Len(s) \in Nat /\ DOMAIN s = 1..Len(s)
  BY LenProperties
<1> HIDE DEF m
<1>3. /\ \A i \in I : s[i] # " "
      /\ \A i \in 1..Len(s) : s[i] # " " => i \in I
  OBVIOUS
<1>6. I \subseteq 1..Len(s)
  OBVIOUS
<1>7. Len(s) \in Nat
  BY <1>2
<1>8. s # <<>> => 1 \in 1..Len(s)
  BY <1>7, EmptySeq
<1> HIDE DEF I
<1>4. CASE I = {}
  <2>1. trimStart(s) = <<>>
    BY <1>1, <1>4 DEF trimStart
  <2>2. <<>> \in Seq(Character) /\ DOMAIN <<>> = {}
    BY EmptySeq
  <2>3. ~(s # <<>> /\ s[1] # " ")
    BY <1>3, <1>4, <1>8
  <2> QED
    BY <2>1, <2>2, <2>3
<1>5. CASE I # {}
  <2>1. m \in I /\ \A y \in I : m <= y
    <3>1. I \subseteq Nat
      BY <1>6, <1>7
    <3>2. \E x \in I : \A y \in I : ~(y < x)
      BY <1>5, <3>1, SmallestOf
    <3>3. \E x \in I : \A y \in I : x =< y
      BY <3>1, <3>2
    <3> QED
      BY <3>3, Zenon DEF m
  <2>2. m \in 1..Len(s) /\ m # 0
    BY <1>7, <1>6, <2>1
  <2>3. trimStart(s) = SubSeq(s, m, Len(s))
    BY <1>1, <1>5, <2>2 DEF trimStart
  <2>4. /\ SubSeq(s, m, Len(s)) \in Seq(Character)
        /\ Len(SubSeq(s, m, Len(s))) = Len(s) - m + 1
        /\ \A i \in 1..Len(s) - m + 1 : SubSeq(s, m, Len(s))[i] = s[m + i - 1]
    BY <1>2, <2>2, ElementOfSeq, SubSeqProperties
  <2>5. ASSUME NEW j \in DOMAIN trimStart(s) PROVE \E k \in DOMAIN s : trimStart(s)[j] = s[k]
    <3>1. j \in 1..Len(s) - m + 1
      BY <2>3, <2>4, <2>5, LenProperties
    <3>2. m + j - 1 \in DOMAIN s
      BY <1>2, <2>2, <3>1
    <3> QED
      BY <2>3, <2>4, <3>1, <3>2
  <2>6. ASSUME s # <<>>, s[1] # " " PROVE trimStart(s) = s
    <3>1. 1 \in I
      BY <1>3, <1>8, <2>6
    <3>2. m = 1
      BY <1>2, <2>1, <2>2, <3>1
    <3> QED
      BY <2>3, <3>2, SubSeqFull
  <2> QED
    BY <2>3, <2>4, <2>5, <2>6
<1> QED
  BY <1>4, <1>5

LEMMA ReverseOf ==
    ASSUME NEW s, s \in Seq(Character)
    PROVE  /\ Reverse(s) \in Seq(Character) /\ Len(Reverse(s)) = Len(s)
           /\ \A i \in 1..Len(s) : Reverse(s)[i] = s[Len(s) - i + 1]
           /\ Reverse(Reverse(s)) = s
<1>1. Len(s) \in Nat /\ s \in [1..Len(s) -> Character]
  BY LenProperties
<1>2. ASSUME NEW i \in 1..Len(s) PROVE Len(s) - i + 1 \in 1..Len(s)
  BY <1>1
<1>3. Reverse(s) \in [1..Len(s) -> Character]
  BY <1>1, <1>2 DEF Reverse
<1>4. Reverse(s) \in Seq(Character) /\ Len(Reverse(s)) = Len(s)
  BY <1>1, <1>3
<1>5. \A i \in 1..Len(s) : Reverse(s)[i] = s[Len(s) - i + 1]
  BY DEF Reverse
<1>6. Reverse(Reverse(s)) = [i \in 1..Len(s) |-> Reverse(s)[Len(s) - i + 1]]
  BY <1>4 DEF Reverse
<1>7. ASSUME NEW i \in 1..Len(s) PROVE Reverse(s)[Len(s) - i + 1] = s[i]
  <2>1. Len(s) - (Len(s) - i + 1) + 1 = i
    BY <1>1
  <2> QED
    BY <1>2, <1>5, <2>1
<1>8. Reverse(Reverse(s)) = [i \in 1..Len(s) |-> s[i]]
  BY <1>6, <1>7
<1> QED
  BY <1>1, <1>4, <1>5, <1>8

LEMMA LowerOf ==
    ASSUME NEW s, s \in Seq(Character)
    PROVE  /\ toLowerCase(s) \in Seq(Character) /\ DOMAIN toLowerCase(s) = DOMAIN s
           /\ \A i \in DOMAIN s :
                 toLowerCase(s)[i] = IF s[i] \in {Upper, Kelvin} THEN Letter ELSE s[i]
           /\ ~Has(s, {Upper, Kelvin}) => toLowerCase(s) = s
<1>1. Len(s) \in Nat /\ s \in [1..Len(s) -> Character] /\ DOMAIN s = 1..Len(s)
  BY LenProperties
<1>2. Letter \in Character
  BY DEF Character
<1>3. toLowerCase(s) \in [1..Len(s) -> Character]
  BY <1>1, <1>2 DEF toLowerCase
<1>4. toLowerCase(s) \in Seq(Character)
  BY <1>1, <1>3
<1>5. ~Has(s, {Upper, Kelvin}) => toLowerCase(s) = s
  BY <1>1 DEF Has, toLowerCase
<1> QED
  BY <1>1, <1>3, <1>4, <1>5 DEF toLowerCase

LEMMA TrimOf ==
    ASSUME NEW s, s \in Seq(Character)
    PROVE  /\ trim(s) \in Seq(Character)
           /\ \A j \in DOMAIN trim(s) : \E k \in DOMAIN s : trim(s)[j] = s[k]
           /\ trimStart(s) # <<>> /\ ~Has(trimStart(s), {" "}) => trim(s) = trimStart(s)
<1> DEFINE a == trimStart(s)
           b == Reverse(a)
           c == trimStart(b)
<1>1. a \in Seq(Character) /\ \A j \in DOMAIN a : \E k \in DOMAIN s : a[j] = s[k]
  BY TrimStartOf
<1> HIDE DEF a
<1>2. /\ b \in Seq(Character) /\ Len(b) = Len(a) /\ Reverse(b) = a
      /\ \A i \in 1..Len(a) : b[i] = a[Len(a) - i + 1]
  BY <1>1, ReverseOf
<1> HIDE DEF b
<1>3. /\ c \in Seq(Character) /\ \A j \in DOMAIN c : \E k \in DOMAIN b : c[j] = b[k]
      /\ b # <<>> /\ b[1] # " " => c = b
  <2>1. b \in Seq(Character)
    BY <1>2
  <2> QED
    BY <2>1, TrimStartOf
<1> HIDE DEF c
<1>4. /\ Reverse(c) \in Seq(Character) /\ Len(Reverse(c)) = Len(c)
      /\ \A i \in 1..Len(c) : Reverse(c)[i] = c[Len(c) - i + 1]
  BY <1>3, ReverseOf
<1>5. trim(s) = Reverse(c)
  BY DEF trim, a, b, c
<1>6. /\ Len(a) \in Nat /\ DOMAIN a = 1..Len(a) /\ DOMAIN b = 1..Len(b)
      /\ Len(c) \in Nat /\ DOMAIN c = 1..Len(c) /\ DOMAIN Reverse(c) = 1..Len(c)
  BY <1>1, <1>2, <1>3, <1>4, LenProperties
<1>7. ASSUME NEW j \in DOMAIN Reverse(c) PROVE \E k \in DOMAIN s : Reverse(c)[j] = s[k]
  <2>1. Len(c) - j + 1 \in DOMAIN c /\ Reverse(c)[j] = c[Len(c) - j + 1]
    BY <1>4, <1>6
  <2>2. PICK k \in DOMAIN b : c[Len(c) - j + 1] = b[k]
    BY <1>3, <2>1
  <2>3. Len(a) - k + 1 \in DOMAIN a /\ b[k] = a[Len(a) - k + 1]
    BY <1>2, <1>6
  <2> QED
    BY <1>1, <2>1, <2>2, <2>3
<1>8. ASSUME a # <<>>, ~Has(a, {" "}) PROVE Reverse(c) = a
  <2>1. Len(a) # 0
    BY <1>1, <1>8, EmptySeq
  <2>2. 1 \in 1..Len(a) /\ Len(a) - 1 + 1 = Len(a) /\ Len(a) \in DOMAIN a
    BY <1>6, <2>1
  <2>3. b # <<>> /\ b[1] = a[Len(a)]
    BY <1>2, <1>6, <2>1, <2>2
  <2>4. b[1] # " "
    BY <1>8, <2>2, <2>3 DEF Has
  <2> QED
    BY <1>2, <1>3, <2>3, <2>4
<1> QED
  BY <1>4, <1>5, <1>7, <1>8 DEF a

NamesInv == text \in Seq(Character)

LEMMA NamesStep == NamesInv /\ [TypeCharacter]_namesVars => NamesInv'
  BY DEF NamesInv, TypeCharacter, namesVars

\* Nobody reads another name in what the contract accepts.
LEMMA ValidIsItself ==
    ASSUME NEW s, s \in Seq(Character), validName(s)
    PROVE  /\ trimStart(s) = s /\ toLowerCase(s) = s
           /\ normalizeLabel(s) = s /\ validateLabel(s)
<1>1. /\ s # <<>> /\ \A i \in DOMAIN s : s[i] \in {Letter, "-", "_"}
      /\ ~Hyphenated(s) /\ ~DoubleHyphen(s)
  BY DEF validName, Over
<1>2. DOMAIN s = 1..Len(s) /\ 1 \in DOMAIN s
  <2>1. s # <<>>
    BY <1>1
  <2>2. DOMAIN s = 1..Len(s) /\ Len(s) \in Nat
    BY LenProperties
  <2>3. s # <<>> => Len(s) \in Nat \ {0}
    BY EmptySeq
  <2> QED
    BY <2>1, <2>2, <2>3
<1>3. \A i \in DOMAIN s : s[i] \notin {" ", Pair, Upper, Kelvin}
  BY <1>1 DEF Letter, Pair, Upper, Kelvin
<1>4. ~Has(s, {" "}) /\ ~Has(s, {Pair}) /\ ~Has(s, {Upper, Kelvin})
  BY <1>3 DEF Has
<1>5. trimStart(s) = s
  BY <1>1, <1>2, <1>3, TrimStartOf
<1>6. trim(s) = s
  BY <1>1, <1>4, <1>5, TrimOf
<1>7. toLowerCase(s) = s
  BY <1>4, LowerOf
<1>8. Units(s) = s
  BY <1>4, UnitsOfSingles
<1>9. validateLabel(s)
  BY <1>1, <1>8 DEF validateLabel, Over
<1> QED
  BY <1>5, <1>6, <1>7, <1>9 DEF normalizeLabel

\* What the search accepts is a name of the contract, or beyond ASCII.
LEMMA SearchedIsValid ==
    ASSUME NEW s, s \in Seq(Character), ~Has(s, {Wide, Pair}), validateLabel(normalizeLabel(s))
    PROVE  validName(normalizeLabel(s))
<1> DEFINE t == trim(s)
           n == toLowerCase(t)
<1>1. t \in Seq(Character) /\ \A j \in DOMAIN t : \E k \in DOMAIN s : t[j] = s[k]
  BY TrimOf
<1> HIDE DEF t
<1>2. /\ n \in Seq(Character) /\ DOMAIN n = DOMAIN t
      /\ \A i \in DOMAIN t : n[i] = IF t[i] \in {Upper, Kelvin} THEN Letter ELSE t[i]
  BY <1>1, LowerOf
<1>3. normalizeLabel(s) = n
  BY DEF normalizeLabel, t
<1> HIDE DEF n
<1>4. /\ n # <<>> /\ ~Hyphenated(n) /\ ~DoubleHyphen(Units(n))
      /\ \A i \in DOMAIN n : n[i] \in {Letter, "-", "_", Kelvin, Wide, Pair}
  BY <1>3 DEF validateLabel, Over
<1>5. ASSUME NEW i \in DOMAIN n PROVE n[i] \notin {Kelvin, Wide, Pair}
  <2>1. PICK k \in DOMAIN s : t[i] = s[k]
    BY <1>1, <1>2
  <2>2. t[i] \notin {Wide, Pair}
    BY <2>1 DEF Has
  <2> QED
    BY <1>2, <2>2 DEF Letter, Upper, Kelvin, Wide, Pair
<1>6. ~Has(n, {Pair}) /\ Over(n, {Letter, "-", "_"})
  BY <1>4, <1>5 DEF Has, Over
<1>7. Units(n) = n
  BY <1>2, <1>6, UnitsOfSingles
<1> QED
  BY <1>3, <1>4, <1>6, <1>7 DEF validName

\* The front of a text is all there is to trim, when the resolve page takes it.
LEMMA ReadIsSearched ==
    ASSUME NEW s, s \in Seq(Character), isValidLabel(toLowerCase(trimStart(s)))
    PROVE  normalizeLabel(s) = toLowerCase(trimStart(s))
<1> DEFINE a == trimStart(s)
<1>1. a \in Seq(Character)
  BY TrimStartOf
<1>2. /\ DOMAIN toLowerCase(a) = DOMAIN a /\ toLowerCase(a) \in Seq(Character)
      /\ \A i \in DOMAIN a :
            toLowerCase(a)[i] = IF a[i] \in {Upper, Kelvin} THEN Letter ELSE a[i]
  BY <1>1, LowerOf
<1>3. toLowerCase(a) # <<>> /\ \A i \in DOMAIN a : toLowerCase(a)[i] \in {Letter, "-"}
  BY <1>2 DEF isValidLabel, Over
<1>4. a # <<>>
  BY <1>3 DEF toLowerCase
<1>5. ~Has(a, {" "})
  BY <1>2, <1>3 DEF Has, Letter, Upper, Kelvin
<1>6. trim(s) = a
  BY <1>4, <1>5, TrimOf
<1> QED
  BY <1>6 DEF normalizeLabel

LEMMA NamesInvIsEnough == NamesInv => NamesAgree
<1> SUFFICES ASSUME text \in Seq(Character) PROVE NamesAgree
  BY DEF NamesInv
<1>1. ASSUME validName(text)
      PROVE  /\ normalizeLabel(text) = text /\ validateLabel(text)
             /\ Dotted => parseName = [label |-> text, tld |-> suffix[1]]
             /\ Dotted /\ ~Has(text, {"_"}) => parseResolveQuery = parseName
  <2>1. /\ trimStart(text) = text /\ toLowerCase(text) = text
        /\ normalizeLabel(text) = text /\ validateLabel(text)
    BY <1>1, ValidIsItself
  <2>2. Dotted => parseName = [label |-> text, tld |-> suffix[1]]
    BY <2>1 DEF parseName
  <2>3. ~Has(text, {"_"}) => isValidLabel(text)
    BY <1>1 DEF validName, isValidLabel, Over, Has
  <2>4. Dotted /\ ~Has(text, {"_"}) => parseResolveQuery = [label |-> text, tld |-> suffix[1]]
    BY <2>1, <2>3 DEF parseResolveQuery
  <2> QED
    BY <2>1, <2>2, <2>4
<1>2. validateLabel(normalizeLabel(text)) =>
         validName(normalizeLabel(text)) \/ Has(text, {Wide, Pair})
  BY SearchedIsValid
<1>3. Unreadable \in {parseName, parseResolveQuery} \/ parseName = parseResolveQuery
  <2> SUFFICES ASSUME parseName # Unreadable, parseResolveQuery # Unreadable
               PROVE  parseName = parseResolveQuery
    OBVIOUS
  <2>1. isValidLabel(toLowerCase(trimStart(text)))
    BY DEF parseResolveQuery
  <2>2. normalizeLabel(text) = toLowerCase(trimStart(text))
    BY <2>1, ReadIsSearched
  <2>3. parseResolveQuery = [label |-> normalizeLabel(text), tld |-> suffix[1]]
    BY <2>2 DEF parseResolveQuery
  <2>4. parseName = [label |-> normalizeLabel(text), tld |-> suffix[1]]
    BY DEF parseName
  <2> QED
    BY <2>3, <2>4
<1> QED
  BY <1>1, <1>2, <1>3 DEF NamesAgree

\* The rules of the contract, the search, the resolve page and the API read every text alike,
\* for texts of any length.
THEOREM NamesAgreeHolds == NamesSpec => []NamesAgree
<1>1. NamesInit => NamesInv
  BY EmptySeq DEF NamesInit, NamesInv
<1> QED
  BY <1>1, NamesStep, NamesInvIsEnough, PTL DEF NamesSpec

------------------------------------------------------------------------------
(* The search (NameSearch).                                                 *)

NamesOne(s) == validateLabel(normalizeLabel(s))

SearchInv ==
    /\ box \in Entry \cup {<<>>} /\ tldTab \in SUPPORTED_TLDS
    /\ NamesOne(box) =>
          /\ box \in Entry /\ pending = Typed(box, tldTab)
          /\ debounce \in {NoName, pending}
          /\ debounce = NoName => committed = pending
    /\ trim(box) = <<>> => debounce = NoName /\ pending = NoName /\ committed = NoName

\* A blank text is no name; neither is an empty box.
LEMMA BlankIsNone == ASSUME NEW s, trim(s) = <<>> PROVE ~NamesOne(s)
<1>1. normalizeLabel(s) = <<>>
  BY DEF normalizeLabel, toLowerCase
<1> QED
  BY <1>1 DEF NamesOne, validateLabel

LEMMA EmptyIsBlank == trim(<<>>) = <<>>
<1>1. SelectInSeq(<<>>, LAMBDA c : c # " ") = 0
  BY DEF SelectInSeq
<1>2. trimStart(<<>>) = <<>>
  BY <1>1 DEF trimStart
<1>3. Reverse(<<>>) = <<>>
  BY DEF Reverse
<1> QED
  BY <1>2, <1>3 DEF trim

LEMMA SearchInitially == SearchInit => SearchInv
<1> SUFFICES ASSUME SearchInit PROVE SearchInv
  OBVIOUS
<1>1. ~NamesOne(box)
  BY EmptyIsBlank, BlankIsNone DEF SearchInit
<1> QED
  BY <1>1 DEF SearchInit, SearchInv, SUPPORTED_TLDS

LEMMA InputKeeps ==
    ASSUME SearchInv, NEW s \in Entry \cup {<<>>}, NEW tld \in SUPPORTED_TLDS,
           processInput(s, tld), box' = s, tldTab' = tld
    PROVE  SearchInv'
<1>1. NamesOne(s) => trim(s) # <<>> /\ s \in Entry /\ pending' = Typed(s, tld) /\ debounce' = pending'
                     /\ pending' # NoName
  BY BlankIsNone, EmptyIsBlank, NoNameAssumption DEF processInput, NamesOne
<1>2. trim(s) = <<>> => debounce' = NoName /\ pending' = NoName /\ committed' = NoName
  BY <1>1, BlankIsNone DEF processInput, NamesOne
<1>3. Typed(box', tldTab') = Typed(s, tld) /\ NamesOne(box') = NamesOne(s) /\ trim(box') = trim(s)
  OBVIOUS
<1>4. Typed(box, tldTab)' = Typed(s, tld) /\ NamesOne(box)' = NamesOne(s) /\ trim(box)' = trim(s)
  BY <1>3 DEF Typed, NamesOne, trim, normalizeLabel
<1> QED
  BY <1>1, <1>2, <1>4 DEF SearchInv

LEMMA SearchStep == SearchInv /\ [SearchNext]_searchVars => SearchInv'
<1> SUFFICES ASSUME SearchInv, [SearchNext]_searchVars PROVE SearchInv'
  OBVIOUS
<1>1. ASSUME box' = box, tldTab' = tldTab
      PROVE  Typed(box, tldTab)' = Typed(box, tldTab) /\ NamesOne(box)' = NamesOne(box)
             /\ trim(box)' = trim(box)
  BY <1>1 DEF Typed, NamesOne
<1>2. CASE UNCHANGED searchVars
  BY <1>1, <1>2 DEF searchVars, SearchInv
<1>3. ASSUME NEW s \in Entry, handleChange(s) PROVE SearchInv'
  BY <1>3, InputKeeps DEF handleChange, SearchInv
<1>4. ASSUME NEW tld \in SUPPORTED_TLDS, handleTldChange(tld) PROVE SearchInv'
  BY <1>4, InputKeeps DEF handleTldChange, SearchInv
<1>5. CASE handleSubmit
  <2>1. trim(box) # <<>> /\ NamesOne(box)
    BY <1>5, BlankIsNone DEF handleSubmit, NamesOne
  <2> QED
    BY <1>1, <1>5, <2>1 DEF handleSubmit, SearchInv
<1>6. CASE TimerFires
  BY <1>1, <1>6 DEF TimerFires, SearchInv
<1> QED
  BY <1>2, <1>3, <1>4, <1>5, <1>6 DEF SearchNext

LEMMA SearchInvIsEnough == SearchInv => SearchedIsTyped
<1> SUFFICES ASSUME SearchInv PROVE SearchedIsTyped
  OBVIOUS
<1>1. NamesOne(box) => pending # NoName
  BY NoNameAssumption DEF SearchInv
<1> QED
  BY <1>1 DEF SearchInv, SearchedIsTyped, NamesOne, display

\* The card of the search is that of the name in the box, for every box, tab and timer.
THEOREM SearchedIsTypedHolds == SearchSpec => []SearchedIsTyped
<1> QED
  BY SearchInitially, SearchStep, SearchInvIsEnough, PTL DEF SearchSpec
===============================================================================
