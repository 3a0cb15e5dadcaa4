--------------------------- MODULE Subgraphs_proofs ---------------------------
(***************************************************************************)
(* Both subgraphs follow the chain, for all sets of labels, TLDs and       *)
(* accounts, any lag and any number of transactions.                       *)
(*                                                                         *)
(* A subgraph is behind by whole blocks, so nothing need be true of its    *)
(* store while blocks wait.  The invariant is about the store there will   *)
(* be once they are indexed: that one follows the chain, after every       *)
(* transaction.  A transaction adds its block at the end, so what has to   *)
(* be shown of each is that folding its handlers over its own block makes  *)
(* the store follow the chain again; indexing a block only brings that     *)
(* store nearer.                                                           *)
(*                                                                         *)
(* The fold over a block is a recursive function over sets of positions;   *)
(* its laws come first: of no event, of one, of two blocks in a row.       *)
(***************************************************************************)
EXTENDS ArcNSSubgraph, BensSubgraph, TLAPS, SequenceTheorems, WellFoundedInduction, FiniteSetTheorems

\* A set of numbers has a smallest one.
LEMMA SmallestOf ==
    ASSUME NEW T, T \subseteq Nat, T # {}
    PROVE  \E x \in T : \A y \in T : ~(y < x)
<1> DEFINE R == {ss \in Nat \X Nat : ss[1] < ss[2]}
<1>1. IsWellFoundedOn(R, Nat)
  BY NatLessThanWellFounded, Zenon DEF OpToRel
<1>2. PICK x \in T : \A y \in T : ~(<<y, x>> \in R)
  <2> HIDE DEF R
  <2> QED
    BY <1>1, WFMin
<1> QED
  BY <1>2

------------------------------------------------------------------------------
(* The fold of a handler over a block.                                       *)

\* The handlers of the two subgraphs, told apart by a name.
Handled(index, st, e) == IF index = "arcns" THEN Handle(st, e) ELSE HandleBens(st, e)

\* The stores after each event of a block.
Stages(index, st, block, n, f) ==
    f[0] = st /\ \A i \in 1..n : f[i] = Handled(index, f[i - 1], block[i])

FoldOver(index, st, block, n, f) ==
    f = [s \in SUBSET (1..n) |->
            IF s = {} THEN st ELSE Handled(index, f[s \ {Max(s)}], block[Max(s)])]

\* The largest of the first n positions.
LEMMA MaxOfTop ==
    ASSUME NEW n \in Nat, NEW s, s \subseteq 1..n, n \in s
    PROVE  Max(s) = n
<1> DEFINE m == CHOOSE x \in s : \A y \in s : x >= y
<1>1. Max(s) = m
  BY DEF Max
<1>2. \A y \in s : y \in Nat /\ n >= y
  OBVIOUS
<1>3. \E x \in s : \A y \in s : x >= y
  BY <1>2
<1>4. m \in s /\ \A y \in s : m >= y
  BY <1>3, Zenon
<1> HIDE DEF m
<1> QED
  BY <1>1, <1>2, <1>4

\* A fold over the first n positions goes on to the next.
LEMMA FoldExtends ==
    ASSUME NEW index, NEW st, NEW block, NEW n \in Nat, NEW g, FoldOver(index, st, block, n, g)
    PROVE  \E f : FoldOver(index, st, block, n + 1, f)
<1> DEFINE f == [s \in SUBSET (1..n + 1) |->
                   IF n + 1 \in s THEN Handled(index, g[s \ {n + 1}], block[n + 1]) ELSE g[s]]
<1>1. ASSUME NEW s \in SUBSET (1..n + 1)
      PROVE  f[s] = IF s = {} THEN st ELSE Handled(index, f[s \ {Max(s)}], block[Max(s)])
  <2>1. CASE n + 1 \in s
    <3>1. Max(s) = n + 1
      <4>1. n + 1 \in Nat /\ s \subseteq 1..(n + 1)
        OBVIOUS
      <4> QED
        BY <2>1, <4>1, MaxOfTop
    <3>2. s \ {n + 1} \in SUBSET (1..n + 1) /\ n + 1 \notin s \ {n + 1}
      OBVIOUS
    <3>3. f[s \ {n + 1}] = g[s \ {n + 1}]
      BY <3>2
    <3> QED
      BY <2>1, <3>1, <3>3
  <2>2. CASE n + 1 \notin s
    <3>1. s \in SUBSET (1..n)
      BY <2>2
    <3>2. f[s] = g[s]
      BY <2>2
    <3>3. g[s] = IF s = {} THEN st ELSE Handled(index, g[s \ {Max(s)}], block[Max(s)])
      BY <3>1 DEF FoldOver
    <3>4. s \ {Max(s)} \in SUBSET (1..n + 1) /\ n + 1 \notin s \ {Max(s)}
      BY <2>2
    <3>5. f[s \ {Max(s)}] = g[s \ {Max(s)}]
      BY <3>4
    <3> QED
      BY <3>2, <3>3, <3>5
  <2> QED
    BY <2>1, <2>2
<1>2. FoldOver(index, st, block, n + 1, f)
  <2> HIDE DEF f
  <2> SUFFICES f = [s \in SUBSET (1..n + 1) |->
                      IF s = {} THEN st ELSE Handled(index, f[s \ {Max(s)}], block[Max(s)])]
    BY DEF FoldOver
  <2> QED
    BY <1>1 DEF f
<1> QED
  BY <1>2

\* The recursive fold over a set of positions exists, whatever is folded.
LEMMA FoldExists ==
    ASSUME NEW index, NEW st, NEW block, NEW n \in Nat
    PROVE  \E f : FoldOver(index, st, block, n, f)
<1> DEFINE T == {k \in Nat : ~\E f : FoldOver(index, st, block, k, f)}
<1> SUFFICES ASSUME T # {} PROVE FALSE
  OBVIOUS
<1>1. PICK k \in T : \A y \in T : ~(y < k)
  BY SmallestOf
<1>2. k \in Nat /\ ~\E f : FoldOver(index, st, block, k, f)
  OBVIOUS
<1>3. k # 0
  <2> DEFINE f == [s \in SUBSET (1..0) |-> st]
  <2>1. \A s \in SUBSET (1..0) : s = {}
    OBVIOUS
  <2>2. FoldOver(index, st, block, 0, f)
    BY <2>1 DEF FoldOver
  <2> QED
    BY <1>2, <2>2
<1>4. k - 1 \in Nat /\ k - 1 < k /\ (k - 1) + 1 = k
  BY <1>2, <1>3
<1>5. PICK g : FoldOver(index, st, block, k - 1, g)
  BY <1>1, <1>4
<1>6. \E f : FoldOver(index, st, block, (k - 1) + 1, f)
  BY <1>4, <1>5, FoldExtends
<1> QED
  BY <1>2, <1>4, <1>6

\* The store a subgraph has after a block.
Fold(index, st, block) ==
    IF index = "arcns" THEN FoldLeft(Handle, st, block) ELSE FoldLeft(HandleBens, st, block)

\* A fold over a block is the value such a function has at all of its positions.
LEMMA FoldIs ==
    ASSUME NEW index \in {"arcns", "bens"}, NEW st, NEW block, NEW n \in Nat, DOMAIN block = 1..n
    PROVE  \E f : FoldOver(index, st, block, n, f) /\ Fold(index, st, block) = f[1..n]
<1>1. CASE index = "arcns"
  <2> DEFINE F == CHOOSE f : f = [s \in SUBSET (1..n) |->
                      IF s = {} THEN st ELSE Handle(f[s \ {Max(s)}], block[Max(s)])]
  <2>1. FoldLeft(Handle, st, block) = F[1..n]
    BY Zenon DEF FoldLeft, MapThenFoldSet
  <2>2. \E f : f = [s \in SUBSET (1..n) |->
                      IF s = {} THEN st ELSE Handle(f[s \ {Max(s)}], block[Max(s)])]
    <3>1. PICK g : FoldOver(index, st, block, n, g)
      BY FoldExists
    <3> QED
      BY <1>1, <3>1, Zenon DEF FoldOver, Handled
  <2>3. FoldOver(index, st, block, n, F)
    BY <1>1, <2>2, Zenon DEF FoldOver, Handled
  <2> HIDE DEF F
  <2> QED
    BY <1>1, <2>1, <2>3 DEF Fold
<1>2. CASE index = "bens"
  <2> DEFINE F == CHOOSE f : f = [s \in SUBSET (1..n) |->
                      IF s = {} THEN st ELSE HandleBens(f[s \ {Max(s)}], block[Max(s)])]
  <2>0. index # "arcns"
    BY <1>2
  <2>1. FoldLeft(HandleBens, st, block) = F[1..n]
    BY Zenon DEF FoldLeft, MapThenFoldSet
  <2>2. \E f : f = [s \in SUBSET (1..n) |->
                      IF s = {} THEN st ELSE HandleBens(f[s \ {Max(s)}], block[Max(s)])]
    <3>1. PICK g : FoldOver(index, st, block, n, g)
      BY FoldExists
    <3> QED
      BY <2>0, <3>1, Zenon DEF FoldOver, Handled
  <2>3. FoldOver(index, st, block, n, F)
    BY <2>0, <2>2, Zenon DEF FoldOver, Handled
  <2> HIDE DEF F
  <2> QED
    BY <2>0, <2>1, <2>3 DEF Fold
<1> QED
  BY <1>1, <1>2

\* The stages of a block exist, and lead to where the fold leads.
LEMMA FoldHasStages ==
    ASSUME NEW index \in {"arcns", "bens"}, NEW st, NEW block, NEW n \in Nat, DOMAIN block = 1..n
    PROVE  \E f : Stages(index, st, block, n, f) /\ Fold(index, st, block) = f[n]
<1>1. PICK g : FoldOver(index, st, block, n, g) /\ Fold(index, st, block) = g[1..n]
  BY FoldIs
<1> DEFINE f == [i \in 0..n |-> g[1..i]]
<1>2. f[0] = st
  <2>1. 1..0 = {} /\ 0 \in 0..n /\ {} \in SUBSET (1..n)
    OBVIOUS
  <2> QED
    BY <1>1, <2>1 DEF FoldOver
<1>3. ASSUME NEW i \in 1..n PROVE f[i] = Handled(index, f[i - 1], block[i])
  <2>1. /\ i \in Nat /\ i \in 1..i /\ 1..i \in SUBSET (1..n)
        /\ i \in 0..n /\ i - 1 \in 0..n
    OBVIOUS
  <2>2. Max(1..i) = i
    BY <2>1, MaxOfTop
  <2>3. (1..i) \ {i} = 1..(i - 1)
    BY <2>1
  <2>4. g[1..i] = Handled(index, g[1..(i - 1)], block[i])
    BY <1>1, <2>1, <2>2, <2>3 DEF FoldOver
  <2> QED
    BY <2>1, <2>4
<1>4. f[n] = Fold(index, st, block)
  BY <1>1
<1> QED
  <2> HIDE DEF f
  <2> QED
    BY <1>2, <1>3, <1>4 DEF Stages

\* There is one such sequence of stages.
LEMMA StagesAreOne ==
    ASSUME NEW index, NEW st, NEW block, NEW n \in Nat,
           NEW f, NEW g, Stages(index, st, block, n, f), Stages(index, st, block, n, g)
    PROVE  f[n] = g[n]
<1> DEFINE T == {k \in 0..n : f[k] # g[k]}
<1> SUFFICES ASSUME T # {} PROVE FALSE
  OBVIOUS
<1>1. PICK k \in T : \A y \in T : ~(y < k)
  <2>1. T \subseteq Nat
    OBVIOUS
  <2> HIDE DEF T
  <2> QED
    BY <2>1, SmallestOf
<1>2. k \in 0..n /\ f[k] # g[k]
  OBVIOUS
<1>3. CASE k = 0
  BY <1>2, <1>3 DEF Stages
<1>4. CASE k # 0
  <2>1. k \in 1..n /\ k - 1 \in 0..n /\ k - 1 < k
    BY <1>2, <1>4
  <2>2. f[k - 1] = g[k - 1]
    BY <1>1, <2>1
  <2> QED
    BY <1>2, <2>1, <2>2 DEF Stages
<1> QED
  BY <1>3, <1>4

\* Of a block of one event, and of two blocks in a row.
LEMMA FoldOfOne ==
    ASSUME NEW index \in {"arcns", "bens"}, NEW st, NEW e
    PROVE  Fold(index, st, <<e>>) = Handled(index, st, e)
<1>0. PICK b, n : b = <<e>> /\ n = 1
  OBVIOUS
<1>1. n \in Nat /\ DOMAIN b = 1..n /\ b[1] = e
  BY <1>0
<1>2. PICK f : Stages(index, st, b, n, f) /\ Fold(index, st, b) = f[n]
  BY <1>1, FoldHasStages
<1>3. f[0] = st /\ f[1] = Handled(index, f[1 - 1], b[1])
  BY <1>0, <1>2 DEF Stages
<1>4. Fold(index, st, b) = Handled(index, st, e)
  BY <1>0, <1>1, <1>2, <1>3
<1> QED
  BY <1>0, <1>4

\* A block of no events changes nothing ...
LEMMA FoldOfNone ==
    ASSUME NEW index \in {"arcns", "bens"}, NEW st
    PROVE  Fold(index, st, << >>) = st
<1>1. DOMAIN << >> = 1..0 /\ 0 \in Nat
  OBVIOUS
<1>2. PICK f : Stages(index, st, << >>, 0, f) /\ Fold(index, st, << >>) = f[0]
  BY <1>1, FoldHasStages
<1> QED
  BY <1>2 DEF Stages

\* ... two blocks are handled one after the other ...
LEMMA FoldOfTwo ==
    ASSUME NEW index \in {"arcns", "bens"}, NEW st, NEW E, NEW s \in Seq(E), NEW t \in Seq(E)
    PROVE  Fold(index, st, s \o t) = Fold(index, Fold(index, st, s), t)
<1>0. PICK m, n, u, mid : m = Len(s) /\ n = Len(t) /\ u = s \o t /\ mid = Fold(index, st, s)
  OBVIOUS
<1>1. m \in Nat /\ n \in Nat /\ m + n \in Nat /\ DOMAIN s = 1..m /\ DOMAIN t = 1..n /\ DOMAIN u = 1..(m + n)
  BY <1>0
<1>2. /\ \A i \in 1..m : u[i] = s[i]
      /\ \A i \in 1..n : u[m + i] = t[i]
  BY <1>0
<1>3. PICK f : Stages(index, st, s, m, f) /\ mid = f[m]
  BY <1>0, <1>1, FoldHasStages
<1>4. PICK g : Stages(index, mid, t, n, g) /\ Fold(index, mid, t) = g[n]
  BY <1>1, FoldHasStages
<1>5. PICK h : Stages(index, st, u, m + n, h) /\ Fold(index, st, u) = h[m + n]
  BY <1>1, FoldHasStages
<1> DEFINE k == [i \in 0..(m + n) |-> IF i <= m THEN f[i] ELSE g[i - m]]
<1>6. k[0] = st
  BY <1>1, <1>3 DEF Stages
<1>7. ASSUME NEW i \in 1..(m + n) PROVE k[i] = Handled(index, k[i - 1], u[i])
  <2>1. CASE i <= m
    <3>1. i \in 1..m /\ i - 1 <= m /\ i \in 0..(m + n) /\ i - 1 \in 0..(m + n)
      BY <1>1, <2>1
    <3>2. f[i] = Handled(index, f[i - 1], s[i])
      BY <1>3, <3>1 DEF Stages
    <3>3. k[i] = f[i] /\ k[i - 1] = f[i - 1]
      BY <2>1, <3>1
    <3> HIDE DEF k
    <3> QED
      BY <1>2, <3>1, <3>2, <3>3
  <2>2. CASE ~(i <= m)
    <3>1. i - m \in 1..n /\ m + (i - m) = i /\ i \in 0..(m + n) /\ i - 1 \in 0..(m + n)
      BY <1>1, <2>2
    <3>2. g[i - m] = Handled(index, g[i - m - 1], t[i - m])
      BY <1>4, <3>1 DEF Stages
    <3>3. k[i] = g[i - m]
      BY <2>2, <3>1
    <3>4. k[i - 1] = g[i - m - 1]
      <4>1. CASE i - 1 <= m
        <5>1. i - 1 = m /\ i - m - 1 = 0
          BY <1>1, <2>2, <4>1
        <5>2. k[i - 1] = f[m]
          BY <3>1, <5>1, <4>1
        <5> HIDE DEF k
        <5> QED
          BY <1>3, <1>4, <5>1, <5>2 DEF Stages
      <4>2. CASE ~(i - 1 <= m)
        <5>1. i - 1 - m = i - m - 1
          BY <1>1
        <5> QED
          BY <3>1, <4>2, <5>1
      <4> QED
        BY <4>1, <4>2
    <3>5. u[i] = t[i - m]
      BY <1>2, <3>1
    <3> HIDE DEF k
    <3> QED
      BY <3>2, <3>3, <3>4, <3>5
  <2> QED
    BY <2>1, <2>2
<1>8. Stages(index, st, u, m + n, k)
  <2> HIDE DEF k
  <2> QED
    BY <1>6, <1>7 DEF Stages
<1>9. k[m + n] = g[n]
  <2>1. CASE n = 0
    <3>1. k[m + n] = f[m]
      BY <1>1, <2>1
    <3> HIDE DEF k
    <3> QED
      BY <1>3, <1>4, <2>1, <3>1 DEF Stages
  <2>2. CASE n # 0
    <3>1. PICK w : w = m + n
      OBVIOUS
    <3>2. ~(w <= m) /\ w - m = n /\ w \in 0..(m + n)
      BY <1>1, <2>2, <3>1
    <3>3. k[w] = g[w - m]
      BY <3>2
    <3> HIDE DEF k
    <3> QED
      BY <3>1, <3>2, <3>3
  <2> QED
    BY <2>1, <2>2
<1>10. h[m + n] = k[m + n]
  <2>1. m + n \in Nat
    BY <1>1
  <2> HIDE DEF k
  <2> QED
    BY <1>5, <1>8, <2>1, StagesAreOne
<1> HIDE DEF k
<1> QED
  BY <1>0, <1>4, <1>5, <1>9, <1>10

\* ... and so are two events.
LEMMA FoldOfPair ==
    ASSUME NEW index \in {"arcns", "bens"}, NEW st, NEW d, NEW e
    PROVE  Fold(index, st, <<d, e>>) = Handled(index, Handled(index, st, d), e)
<1>1. PICK s, t, u : s = <<d>> /\ t = <<e>> /\ u = s \o t
  OBVIOUS
<1>2. s \in Seq({d, e}) /\ t \in Seq({d, e})
  BY <1>1
<1>3. u = <<d, e>>
  <2>1. u \in Seq({d, e}) /\ Len(u) = 2 /\ u[1] = d /\ u[2] = e
    BY <1>1
  <2> QED
    BY <2>1
<1>4. Fold(index, st, s \o t) = Fold(index, Fold(index, st, s), t)
  BY <1>2, FoldOfTwo
<1>5. Fold(index, st, s) = Handled(index, st, d)
  BY <1>1, FoldOfOne
<1>6. \A q : Fold(index, q, t) = Handled(index, q, e)
  BY <1>1, FoldOfOne
<1> QED
  BY <1>1, <1>3, <1>4, <1>5, <1>6

\* The events of a chain.
Kinds  == {"NameRegistered", "NameRenewed", "Transfer", "NodeTransfer", "NewResolver",
           "AddrChanged", "NameChanged", "ReverseClaimed"}
Values == Account \cup {Zero, Resolver, Empty} \cup Name \cup Nat
Events == [kind : Kinds, on : Name \cup Account, from : Values, value : Values]

\* An event is a record, and a block can be made of it.
LEMMA EventIs ==
    ASSUME NEW kind \in Kinds, NEW on \in Name \cup Account, NEW from \in Values, NEW v \in Values
    PROVE  Event(kind, on, from, v) \in Events /\ <<Event(kind, on, from, v)>> \in Seq(Events)
<1>1. Event(kind, on, from, v) \in Events
  BY DEF Event, Events
<1> QED
  BY <1>1

------------------------------------------------------------------------------
(* What the handlers of the subgraph do to its store.                        *)

Holders  == Account \cup {Zero}
Domains  == [owner : Holders, resolver : {Resolver, Zero}, expiry : Nat,
             resolvedAddress : Holders, linked : BOOLEAN]
Stores   == [domain : [Name -> Domains], known : SUBSET Name, addr : [Name -> Holders \cup {Unset}],
             byAddress : [Account -> Name \cup {Empty, Unset}],
             byNode : [Account -> Name \cup Account \cup {Unset}]]

\* The fields of a store have their types ...
LEMMA StoreFields ==
    ASSUME NEW st \in Stores
    PROVE  /\ st.domain \in [Name -> Domains] /\ st.known \in SUBSET Name
           /\ st.addr \in [Name -> Holders \cup {Unset}]
           /\ st.byAddress \in [Account -> Name \cup {Empty, Unset}]
           /\ st.byNode \in [Account -> Name \cup Account \cup {Unset}]
BY DEF Stores

\* One field of one name, or one entity, is written; the others stay.
StoreOf(d, k, ad, ba, bn) == [domain |-> d, known |-> k, addr |-> ad, byAddress |-> ba, byNode |-> bn]

\* ... and what has such fields is a store.
LEMMA StoreIs ==
    ASSUME NEW d \in [Name -> Domains], NEW k \in SUBSET Name,
           NEW ad \in [Name -> Holders \cup {Unset}],
           NEW ba \in [Account -> Name \cup {Empty, Unset}],
           NEW bn \in [Account -> Name \cup Account \cup {Unset}]
    PROVE  StoreOf(d, k, ad, ba, bn) \in Stores
BY DEF Stores, StoreOf

\* What WithDomain writes.
LEMMA FieldSet ==
    ASSUME NEW st \in Stores, NEW n \in Name,
           NEW field \in {"owner", "resolver", "expiry", "resolvedAddress", "linked"}, NEW v,
           [st.domain[n] EXCEPT ![field] = v] \in Domains,
           NEW r, r = WithDomain(st, n, field, v)
    PROVE  /\ r \in Stores /\ r.known = st.known /\ r.addr = st.addr
           /\ r.byAddress = st.byAddress /\ r.byNode = st.byNode
           /\ r.domain = [st.domain EXCEPT ![n] = [st.domain[n] EXCEPT ![field] = v]]
<1> USE StoreFields
<1> DEFINE d == [st.domain EXCEPT ![n] = [st.domain[n] EXCEPT ![field] = v]]
<1>1. r = [st EXCEPT !.domain = d]
  BY DEF WithDomain
<1>2. d \in [Name -> Domains]
  OBVIOUS
<1> HIDE DEF d
<1>3. r = StoreOf(d, st.known, st.addr, st.byAddress, st.byNode)
  BY <1>1 DEF Stores, StoreOf
<1>4. r \in Stores
  BY <1>2, <1>3, StoreIs
<1> QED
  BY <1>3, <1>4 DEF d, StoreOf

\* What an event about one name leaves as it was.
OnlyOf(r, st, n) ==
    /\ r \in Stores /\ r.byAddress = st.byAddress /\ r.byNode = st.byNode
    /\ \A m \in Name \ {n} : r.domain[m] = st.domain[m] /\ (m \in r.known <=> m \in st.known)

\* Two events about one name are like one.
LEMMA OnlyOfIsTransitive ==
    ASSUME NEW n \in Name, NEW st, NEW q, NEW r, OnlyOf(q, st, n), OnlyOf(r, q, n)
    PROVE  OnlyOf(r, st, n)
BY DEF OnlyOf

MirrorKept(r, st, n) ==
    /\ n \in r.known <=> n \in st.known
    /\ r.domain[n].linked = st.domain[n].linked
    /\ r.domain[n].resolvedAddress = st.domain[n].resolvedAddress

\* Of the result of writing one field.
LEMMA FieldWritten ==
    ASSUME NEW st \in Stores, NEW n \in Name,
           NEW field \in {"owner", "resolver", "expiry", "resolvedAddress", "linked"}, NEW v,
           [st.domain[n] EXCEPT ![field] = v] \in Domains,
           NEW r, r = WithDomain(st, n, field, v)
    PROVE  /\ OnlyOf(r, st, n) /\ r.known = st.known
           /\ r.domain[n] = [st.domain[n] EXCEPT ![field] = v]
<1>1. /\ r \in Stores /\ r.known = st.known /\ r.addr = st.addr
      /\ r.byAddress = st.byAddress /\ r.byNode = st.byNode
      /\ r.domain = [st.domain EXCEPT ![n] = [st.domain[n] EXCEPT ![field] = v]]
  BY FieldSet
<1>2. st.domain \in [Name -> Domains]
  BY StoreFields
<1> QED
  BY <1>1, <1>2 DEF OnlyOf

\* An owner is written: the mirror of the address stays.
LEMMA OwnerWritten ==
    ASSUME NEW st \in Stores, NEW n \in Name, NEW v \in Holders,
           NEW r, r = WithDomain(st, n, "owner", v)
    PROVE  /\ OnlyOf(r, st, n) /\ MirrorKept(r, st, n)
           /\ r.domain[n].expiry = st.domain[n].expiry /\ r.domain[n].owner = v
<1>1. st.domain[n] \in Domains
  BY StoreFields
<1>2. [st.domain[n] EXCEPT !["owner"] = v] \in Domains
  BY <1>1 DEF Domains
<1>3. /\ OnlyOf(r, st, n) /\ r.known = st.known
      /\ r.domain[n] = [st.domain[n] EXCEPT !["owner"] = v]
  BY <1>2, FieldWritten
<1> QED
  BY <1>1, <1>3 DEF MirrorKept, Domains

\* An event that is passed over.
LEMMA NothingWritten ==
    ASSUME NEW st \in Stores, NEW n \in Name
    PROVE  OnlyOf(st, st, n) /\ MirrorKept(st, st, n)
BY DEF OnlyOf, MirrorKept

\* Of a name that is known a transfer writes the owner, unless it mints.
LEMMA TransferHandled ==
    ASSUME NEW st \in Stores, NEW n \in Name, NEW from, NEW v \in Holders,
           NEW r, r = Handled("arcns", st, Event("Transfer", n, from, v))
    PROVE  /\ OnlyOf(r, st, n) /\ MirrorKept(r, st, n)
           /\ r.domain[n].expiry = st.domain[n].expiry
           /\ r.domain[n].owner = IF from # Zero /\ n \in st.known THEN v ELSE st.domain[n].owner
<1>1. r = IF from # Zero /\ n \in st.known THEN WithDomain(st, n, "owner", v) ELSE st
  BY DEF Handled, Handle, Event, OnTransfer, Known
<1> QED
  BY <1>1, OwnerWritten, NothingWritten

\* So does one of the node.
LEMMA NodeTransferHandled ==
    ASSUME NEW st \in Stores, NEW n \in Name, NEW from, NEW v \in Holders,
           NEW r, r = Handled("arcns", st, Event("NodeTransfer", n, from, v))
    PROVE  /\ OnlyOf(r, st, n) /\ MirrorKept(r, st, n)
           /\ r.domain[n].expiry = st.domain[n].expiry
           /\ r.domain[n].owner = IF n \in st.known THEN v ELSE st.domain[n].owner
<1>1. r = IF n \in st.known THEN WithDomain(st, n, "owner", v) ELSE st
  BY DEF Handled, Handle, Event, OnNodeTransfer, Known
<1> QED
  BY <1>1, OwnerWritten, NothingWritten

\* A new resolver writes nothing that is promised.
LEMMA NewResolverHandled ==
    ASSUME NEW st \in Stores, NEW n \in Name, NEW from, NEW v \in {Resolver, Zero},
           NEW r, r = Handled("arcns", st, Event("NewResolver", n, from, v))
    PROVE  /\ OnlyOf(r, st, n) /\ MirrorKept(r, st, n)
           /\ r.domain[n].expiry = st.domain[n].expiry
           /\ r.domain[n].owner = st.domain[n].owner
<1>1. r = IF n \in st.known THEN WithDomain(st, n, "resolver", v) ELSE st
  BY DEF Handled, Handle, Event, OnNewResolver, Known
<1>2. CASE n \in st.known
  <2>1. st.domain[n] \in Domains
    BY StoreFields
  <2>2. [st.domain[n] EXCEPT !["resolver"] = v] \in Domains
    BY <2>1 DEF Domains
  <2>3. /\ OnlyOf(r, st, n) /\ r.known = st.known
        /\ r.domain[n] = [st.domain[n] EXCEPT !["resolver"] = v]
    BY <1>1, <1>2, <2>2, FieldWritten
  <2> QED
    BY <2>1, <2>3 DEF MirrorKept, Domains
<1>3. CASE n \notin st.known
  BY <1>1, <1>3, NothingWritten
<1> QED
  BY <1>2, <1>3

\* A renewal writes the expiry.
LEMMA NameRenewedHandled ==
    ASSUME NEW st \in Stores, NEW n \in Name, NEW t \in Nat, NEW v,
           NEW r, r = Handled("arcns", st, Event("NameRenewed", n, t, v))
    PROVE  /\ OnlyOf(r, st, n) /\ MirrorKept(r, st, n)
           /\ r.domain[n].expiry = IF n \in st.known THEN t ELSE st.domain[n].expiry
           /\ r.domain[n].owner = st.domain[n].owner
<1>1. r = IF n \in st.known THEN WithDomain(st, n, "expiry", t) ELSE st
  BY DEF Handled, Handle, Event, OnNameRenewed, Known
<1>2. CASE n \in st.known
  <2>1. st.domain[n] \in Domains
    BY StoreFields
  <2>2. [st.domain[n] EXCEPT !["expiry"] = t] \in Domains
    BY <2>1 DEF Domains
  <2>3. /\ OnlyOf(r, st, n) /\ r.known = st.known
        /\ r.domain[n] = [st.domain[n] EXCEPT !["expiry"] = t]
    BY <1>1, <1>2, <2>2, FieldWritten
  <2> QED
    BY <1>2, <2>1, <2>3 DEF MirrorKept, Domains
<1>3. CASE n \notin st.known
  BY <1>1, <1>3, NothingWritten
<1> QED
  BY <1>2, <1>3

\* The address is mirrored.
LEMMA MirrorWritten ==
    ASSUME NEW q \in Stores, NEW n \in Name, NEW v \in Holders, NEW r,
           r = WithDomain(WithDomain(q, n, "resolvedAddress", v), n, "linked", TRUE)
    PROVE  /\ OnlyOf(r, q, n) /\ r.known = q.known
           /\ r.domain[n].linked /\ r.domain[n].resolvedAddress = v
           /\ r.domain[n].expiry = q.domain[n].expiry
           /\ r.domain[n].owner = q.domain[n].owner
<1>0. PICK p : p = WithDomain(q, n, "resolvedAddress", v)
  OBVIOUS
<1>1. q.domain[n] \in Domains
  BY StoreFields
<1>2. [q.domain[n] EXCEPT !["resolvedAddress"] = v] \in Domains
  BY <1>1 DEF Domains
<1>3. /\ OnlyOf(p, q, n) /\ p.known = q.known
      /\ p.domain[n] = [q.domain[n] EXCEPT !["resolvedAddress"] = v]
  BY <1>0, <1>2, FieldWritten
<1>4. p.domain[n] \in Domains /\ p \in Stores
  BY <1>3, StoreFields DEF OnlyOf
<1>5. PICK w : w = TRUE
  OBVIOUS
<1>6. r = WithDomain(p, n, "linked", w) /\ [p.domain[n] EXCEPT !["linked"] = w] \in Domains
  BY <1>0, <1>4, <1>5 DEF Domains
<1>7. /\ OnlyOf(r, p, n) /\ r.known = p.known
      /\ r.domain[n] = [p.domain[n] EXCEPT !["linked"] = w]
  <2>1. \A o : o = WithDomain(p, n, "linked", w) =>
          /\ OnlyOf(o, p, n) /\ o.known = p.known
          /\ o.domain[n] = [p.domain[n] EXCEPT !["linked"] = w]
    BY <1>4, <1>6, FieldWritten
  <2> QED
    BY <1>6, <2>1
<1>8. OnlyOf(r, q, n)
  BY <1>3, <1>7, OnlyOfIsTransitive
<1>9. /\ r.domain[n].linked /\ r.domain[n].resolvedAddress = v
      /\ r.domain[n].expiry = q.domain[n].expiry
      /\ r.domain[n].owner = q.domain[n].owner
  BY <1>1, <1>3, <1>4, <1>5, <1>7 DEF Domains
<1> QED
  BY <1>3, <1>7, <1>8, <1>9

\* An address record is mirrored of a name that is known.
LEMMA AddrChangedHandled ==
    ASSUME NEW st \in Stores, NEW n \in Name, NEW from, NEW v \in Holders,
           NEW r, r = Handled("arcns", st, Event("AddrChanged", n, from, v))
    PROVE  /\ OnlyOf(r, st, n)
           /\ r.domain[n].expiry = st.domain[n].expiry
           /\ r.domain[n].owner = st.domain[n].owner
           /\ n \in st.known => r.domain[n].linked /\ r.domain[n].resolvedAddress = v /\ n \in r.known
           /\ n \notin st.known => MirrorKept(r, st, n)
<1>0. PICK q : q = [st EXCEPT !.addr[n] = v]
  OBVIOUS
<1>1. r = IF n \in q.known
            THEN WithDomain(WithDomain(q, n, "resolvedAddress", v), n, "linked", TRUE) ELSE q
  BY <1>0 DEF Handled, Handle, Event, OnAddrChanged, Known, Stores
<1>2. OnlyOf(q, st, n) /\ q.domain = st.domain /\ q.known = st.known
  <2> PICK ad : ad = [st.addr EXCEPT ![n] = v]
    OBVIOUS
  <2>1. q = StoreOf(st.domain, st.known, ad, st.byAddress, st.byNode)
    BY <1>0 DEF Stores, StoreOf
  <2>2. ad \in [Name -> Holders \cup {Unset}]
    BY StoreFields
  <2>3. q \in Stores
    BY <2>1, <2>2, StoreFields, StoreIs
  <2> QED
    BY <2>1, <2>3 DEF StoreOf, OnlyOf
<1>3. CASE n \in st.known
  <2>1. q \in Stores
    BY <1>2 DEF OnlyOf
  <2>2. /\ OnlyOf(r, q, n) /\ r.known = q.known
        /\ r.domain[n].linked /\ r.domain[n].resolvedAddress = v
        /\ r.domain[n].expiry = q.domain[n].expiry
        /\ r.domain[n].owner = q.domain[n].owner
    <3>1. r = WithDomain(WithDomain(q, n, "resolvedAddress", v), n, "linked", TRUE)
      BY <1>1, <1>2, <1>3
    <3>2. \A o : o = WithDomain(WithDomain(q, n, "resolvedAddress", v), n, "linked", TRUE) =>
            /\ OnlyOf(o, q, n) /\ o.known = q.known
            /\ o.domain[n].linked /\ o.domain[n].resolvedAddress = v
            /\ o.domain[n].expiry = q.domain[n].expiry
            /\ o.domain[n].owner = q.domain[n].owner
      BY <2>1, MirrorWritten
    <3> QED
      BY <3>1, <3>2
  <2>3. OnlyOf(r, st, n)
    BY <1>2, <2>2, OnlyOfIsTransitive
  <2> QED
    BY <1>2, <1>3, <2>2, <2>3
<1>4. CASE n \notin st.known
  BY <1>1, <1>2, <1>4 DEF MirrorKept
<1> QED
  BY <1>3, <1>4

\* A registration makes a name known, with its owner and its expiry.
LEMMA NameRegisteredHandled ==
    ASSUME NEW st \in Stores, NEW n \in Name, NEW t \in Nat, NEW v \in Holders,
           NEW r, r = Handled("arcns", st, Event("NameRegistered", n, t, v))
    PROVE  /\ OnlyOf(r, st, n) /\ n \in r.known
           /\ r.domain[n].expiry = t /\ r.domain[n].owner = v
           /\ r.domain[n].linked = st.domain[n].linked
           /\ r.domain[n].resolvedAddress = st.domain[n].resolvedAddress
<1>1. r = [st EXCEPT !.known = @ \cup {n}, !.domain[n] = [@ EXCEPT !.owner = v, !.expiry = t]]
  BY DEF Handled, Handle, Event, OnNameRegistered
<1> PICK d : d = [st.domain EXCEPT ![n] = [st.domain[n] EXCEPT !.owner = v, !.expiry = t]]
  OBVIOUS
<1>2. st.domain \in [Name -> Domains] /\ st.domain[n] \in Domains
  BY StoreFields
<1>3. [st.domain[n] EXCEPT !.owner = v, !.expiry = t] \in Domains
  BY <1>2 DEF Domains
<1>4. d \in [Name -> Domains]
  BY <1>2, <1>3
<1>5. r = StoreOf(d, st.known \cup {n}, st.addr, st.byAddress, st.byNode)
  BY <1>1 DEF Stores, StoreOf
<1>6. r \in Stores
  BY <1>4, <1>5, StoreFields, StoreIs
<1>7. r.domain = d /\ r.known = st.known \cup {n} /\ r.byAddress = st.byAddress /\ r.byNode = st.byNode
  BY <1>5 DEF StoreOf
<1>8. OnlyOf(r, st, n)
  BY <1>2, <1>6, <1>7 DEF OnlyOf
<1>9. d[n] = [st.domain[n] EXCEPT !.owner = v, !.expiry = t]
  BY <1>2
<1>10. d[n].owner = v /\ d[n].expiry = t /\ d[n].linked = st.domain[n].linked
       /\ d[n].resolvedAddress = st.domain[n].resolvedAddress
  BY <1>2, <1>9 DEF Domains
<1> QED
  BY <1>7, <1>8, <1>10

\* What an event about one account leaves as it was.
OnlyOfAccount(r, st, a) ==
    /\ r \in Stores /\ r.domain = st.domain /\ r.known = st.known
    /\ \A b \in Account \ {a} : r.byAddress[b] = st.byAddress[b] /\ r.byNode[b] = st.byNode[b]

\* Two events about one account are like one.
LEMMA OnlyOfAccountIsTransitive ==
    ASSUME NEW a \in Account, NEW st, NEW q, NEW r, OnlyOfAccount(q, st, a), OnlyOfAccount(r, q, a)
    PROVE  OnlyOfAccount(r, st, a)
BY DEF OnlyOfAccount

\* What an event is about is a name or an account.
LEMMA AccountIsNoName == \A a \in Account : a \notin Name /\ a # Zero /\ a # Unset
BY ChainAssumption

\* A reverse node is no domain of the store,
LEMMA UnknownAccount ==
    ASSUME NEW st \in Stores, NEW a \in Account
    PROVE  a \notin st.known
BY AccountIsNoName, StoreFields

\* so the events about its node are passed over.
LEMMA AccountPassedOver ==
    ASSUME NEW st \in Stores, NEW a \in Account, NEW from, NEW v,
           NEW kind \in {"NodeTransfer", "NewResolver"}
    PROVE  Handled("arcns", st, Event(kind, a, from, v)) = st
BY UnknownAccount DEF Handled, Handle, Event, OnNodeTransfer, OnNewResolver, Known

\* A reverse name is written to the record a claim has made, if it is not empty.
LEMMA NameChangedHandled ==
    ASSUME NEW st \in Stores, NEW a \in Account, NEW from, NEW v \in Name \cup {Empty},
           st.byNode[a] \in {a, Unset}, NEW r, r = Handled("arcns", st, Event("NameChanged", a, from, v))
    PROVE  /\ OnlyOfAccount(r, st, a)
           /\ v = Empty \/ st.byNode[a] = Unset => r = st
           /\ v # Empty /\ st.byNode[a] = a => r.byAddress[a] = v
<1>1. r = IF v = Empty \/ st.byNode[a] = Unset THEN st
          ELSE [st EXCEPT !.byNode[a] = v,
                          !.byAddress = IF st.byNode[a] \in Account
                                          THEN [@ EXCEPT ![st.byNode[a]] = v] ELSE @]
  BY DEF Handled, Handle, Event, OnNameChanged
<1>2. CASE v = Empty \/ st.byNode[a] = Unset
  BY <1>1, <1>2, AccountIsNoName DEF OnlyOfAccount
<1>3. CASE ~(v = Empty \/ st.byNode[a] = Unset)
  <2>1. v \in Name /\ st.byNode[a] = a
    BY <1>3
  <2>2. PICK ba, bn : ba = [st.byAddress EXCEPT ![a] = v] /\ bn = [st.byNode EXCEPT ![a] = v]
    OBVIOUS
  <2>3. ba \in [Account -> Name \cup {Empty, Unset}] /\ bn \in [Account -> Name \cup Account \cup {Unset}]
    BY <2>1, <2>2, StoreFields
  <2>4. r = StoreOf(st.domain, st.known, st.addr, ba, bn)
    BY <1>1, <1>3, <2>1, <2>2 DEF Stores, StoreOf
  <2>5. r \in Stores
    BY <2>3, <2>4, StoreFields, StoreIs
  <2>6. r.domain = st.domain /\ r.known = st.known /\ r.byAddress = ba /\ r.byNode = bn
    BY <2>4 DEF StoreOf
  <2> QED
    BY <1>3, <2>2, <2>5, <2>6, StoreFields DEF OnlyOfAccount
<1> QED
  BY <1>2, <1>3

\* A claim makes the record, and keeps a name it has.
LEMMA ReverseClaimedHandled ==
    ASSUME NEW st \in Stores, NEW a \in Account, NEW from,
           NEW r, r = Handled("arcns", st, Event("ReverseClaimed", a, from, a))
    PROVE  /\ OnlyOfAccount(r, st, a) /\ r.byNode[a] = a
           /\ r.byAddress[a] = IF st.byAddress[a] = Unset THEN Empty ELSE st.byAddress[a]
<1>1. r = [st EXCEPT !.byAddress[a] = IF st.byAddress[a] = Unset THEN Empty ELSE st.byAddress[a],
                     !.byNode[a] = a]
  BY DEF Handled, Handle, Event, OnReverseClaimed
<1>0. PICK ba, bn : /\ ba = [st.byAddress EXCEPT ![a] = IF st.byAddress[a] = Unset THEN Empty ELSE st.byAddress[a]]
                    /\ bn = [st.byNode EXCEPT ![a] = a]
  OBVIOUS
<1>2. ba \in [Account -> Name \cup {Empty, Unset}] /\ bn \in [Account -> Name \cup Account \cup {Unset}]
  BY <1>0, StoreFields
<1>3. r = StoreOf(st.domain, st.known, st.addr, ba, bn)
  BY <1>0, <1>1 DEF Stores, StoreOf
<1>4. r \in Stores
  BY <1>2, <1>3, StoreFields, StoreIs
<1>5. r.domain = st.domain /\ r.known = st.known /\ r.byAddress = ba /\ r.byNode = bn
  BY <1>3 DEF StoreOf
<1> QED
  BY <1>0, <1>4, <1>5, StoreFields DEF OnlyOfAccount

\* setReverseRecord and setName, whether the node had a resolver or not.
NamingBlock(a, v, resolving) ==
    <<Event("NodeTransfer", a, Zero, a)>> \o resolving
    \o <<Event("NameChanged", a, Zero, v), Event("ReverseClaimed", a, Zero, a)>>

ResolvingOf(x) == {<< >>, <<Event("NewResolver", x, Zero, Resolver)>>}

\* The block of a naming.
LEMMA NamingBlockTyped ==
    ASSUME NEW a \in Account, NEW v \in Name \cup {Empty}, NEW resolving \in ResolvingOf(a)
    PROVE  /\ <<Event("NodeTransfer", a, Zero, a)>> \in Seq(Events) /\ resolving \in Seq(Events)
           /\ <<Event("NameChanged", a, Zero, v), Event("ReverseClaimed", a, Zero, a)>> \in Seq(Events)
           /\ <<Event("NodeTransfer", a, Zero, a)>> \o resolving \in Seq(Events)
           /\ NamingBlock(a, v, resolving) \in Seq(Events)
<1>1. a \in Values /\ Zero \in Values /\ v \in Values /\ Resolver \in Values
  BY DEF Values
<1>2. /\ Event("NodeTransfer", a, Zero, a) \in Events /\ Event("NameChanged", a, Zero, v) \in Events
      /\ Event("ReverseClaimed", a, Zero, a) \in Events /\ Event("NewResolver", a, Zero, Resolver) \in Events
  BY <1>1, EventIs DEF Kinds
<1>3. resolving \in Seq(Events)
  <2>1. << >> \in Seq(Events) /\ <<Event("NewResolver", a, Zero, Resolver)>> \in Seq(Events)
    BY <1>2
  <2> QED
    BY <2>1, Zenon DEF ResolvingOf
<1>4. /\ <<Event("NodeTransfer", a, Zero, a)>> \in Seq(Events)
      /\ <<Event("NameChanged", a, Zero, v), Event("ReverseClaimed", a, Zero, a)>> \in Seq(Events)
  BY <1>2
<1>5. <<Event("NodeTransfer", a, Zero, a)>> \o resolving \in Seq(Events)
  BY <1>3, <1>4
<1> QED
  BY <1>3, <1>4, <1>5 DEF NamingBlock

\* It is handled event by event.
LEMMA NamingFolded ==
    ASSUME NEW index \in {"arcns", "bens"}, NEW st, NEW a \in Account, NEW v \in Name \cup {Empty},
           NEW resolving \in ResolvingOf(a)
    PROVE  Fold(index, st, NamingBlock(a, v, resolving)) =
             Handled(index, Handled(index,
                Fold(index, Handled(index, st, Event("NodeTransfer", a, Zero, a)), resolving),
                Event("NameChanged", a, Zero, v)), Event("ReverseClaimed", a, Zero, a))
<1>0. PICK x, y, z : /\ x = <<Event("NodeTransfer", a, Zero, a)>> /\ y = resolving
                     /\ z = <<Event("NameChanged", a, Zero, v), Event("ReverseClaimed", a, Zero, a)>>
  OBVIOUS
<1>1. x \in Seq(Events) /\ y \in Seq(Events) /\ z \in Seq(Events) /\ x \o y \in Seq(Events)
  BY <1>0, NamingBlockTyped
<1>2. Fold(index, st, x \o y \o z) = Fold(index, Fold(index, st, x \o y), z)
  <2>1. \A o : o \in Seq(Events) => Fold(index, st, o \o z) = Fold(index, Fold(index, st, o), z)
    BY <1>1, FoldOfTwo
  <2> QED
    BY <1>1, <2>1, Zenon
<1>3. Fold(index, st, x \o y) = Fold(index, Fold(index, st, x), y)
  BY <1>1, FoldOfTwo
<1>4. NamingBlock(a, v, resolving) = x \o y \o z
  BY <1>0 DEF NamingBlock
<1>5. Fold(index, st, x) = Handled(index, st, Event("NodeTransfer", a, Zero, a))
  BY <1>0, FoldOfOne
<1>6. \A q : Fold(index, q, z) = Handled(index, Handled(index, q,
                Event("NameChanged", a, Zero, v)), Event("ReverseClaimed", a, Zero, a))
  BY <1>0, FoldOfPair
<1> QED
  BY <1>0, <1>2, <1>3, <1>4, <1>5, <1>6

\* A naming writes the name only for an account that was named before.
LEMMA NamingHandled ==
    ASSUME NEW st \in Stores, NEW a \in Account, NEW v \in Name \cup {Empty},
           NEW resolving \in ResolvingOf(a), st.byNode[a] \in {a, Unset},
           NEW r, r = Fold("arcns", st, NamingBlock(a, v, resolving))
    PROVE  /\ OnlyOfAccount(r, st, a) /\ r.byNode[a] = a
           /\ v # Empty /\ st.byNode[a] = a => r.byAddress[a] = v
           /\ v = Empty \/ st.byNode[a] = Unset =>
                r.byAddress[a] = IF st.byAddress[a] = Unset THEN Empty ELSE st.byAddress[a]
<1>1. Handled("arcns", st, Event("NodeTransfer", a, Zero, a)) = st
  BY AccountPassedOver
<1>2. Fold("arcns", st, resolving) = st
  <2>1. CASE resolving = << >>
    BY <2>1, FoldOfNone
  <2>2. CASE resolving = <<Event("NewResolver", a, Zero, Resolver)>>
    <3>1. Handled("arcns", st, Event("NewResolver", a, Zero, Resolver)) = st
      BY AccountPassedOver
    <3> QED
      BY <2>2, <3>1, FoldOfOne
  <2> QED
    BY <2>1, <2>2 DEF ResolvingOf
<1>3. PICK q : q = Handled("arcns", st, Event("NameChanged", a, Zero, v))
  OBVIOUS
<1>4. r = Handled("arcns", q, Event("ReverseClaimed", a, Zero, a))
  <2>1. "arcns" \in {"arcns", "bens"}
    OBVIOUS
  <2> QED
    BY <1>1, <1>2, <1>3, <2>1, NamingFolded
<1>5. /\ OnlyOfAccount(q, st, a)
      /\ v = Empty \/ st.byNode[a] = Unset => q = st
      /\ v # Empty /\ st.byNode[a] = a => q.byAddress[a] = v
  BY <1>3, NameChangedHandled
<1>6. q \in Stores
  BY <1>5 DEF OnlyOfAccount
<1>7. /\ OnlyOfAccount(r, q, a) /\ r.byNode[a] = a
      /\ r.byAddress[a] = IF q.byAddress[a] = Unset THEN Empty ELSE q.byAddress[a]
  <2>1. \A o : o = Handled("arcns", q, Event("ReverseClaimed", a, Zero, a)) =>
           /\ OnlyOfAccount(o, q, a) /\ o.byNode[a] = a
           /\ o.byAddress[a] = IF q.byAddress[a] = Unset THEN Empty ELSE q.byAddress[a]
    BY <1>6, ReverseClaimedHandled
  <2> QED
    BY <1>4, <2>1
<1>8. OnlyOfAccount(r, st, a)
  BY <1>5, <1>7, OnlyOfAccountIsTransitive
<1>9. v # Empty => v # Unset
  BY ChainAssumption
<1> QED
  BY <1>5, <1>7, <1>8, <1>9

------------------------------------------------------------------------------
(* The chain, and the store there will be once every block is indexed.       *)

Hows == {"bare", "resolver", "primary"}

ChainTypeOK ==
    /\ tokenOwner \in [Name -> Holders] /\ nodeOwner \in [Name -> Holders]
    /\ addrOf \in [Name -> Holders] /\ resolverOf \in [Name -> {Resolver, Zero}]
    /\ term \in [Name -> Nat]
    /\ primary \in [Account -> Name \cup {Empty, Zero}] /\ namings \in [Account -> 0..2]
    /\ feed \in Seq(Seq(Events))

NodesAreOfNames == \A n \in Name : tokenOwner[n] = Zero => nodeOwner[n] = Zero

ChainInv == ChainTypeOK /\ NodesAreOfNames

\* f: the blocks still to be indexed; s: the store before each, and after the last.
Future(index, st, f, s) ==
    s[0] = st /\ \A i \in 1..Len(f) : s[i] = Fold(index, s[i - 1], f[i])

\* With nothing to index, the store there will be is the one there is.
LEMMA FutureOfNone == ASSUME NEW index, NEW st
                      PROVE  \E s : Future(index, st, << >>, s) /\ s[Len(<< >>)] = st
<1>1. Future(index, st, << >>, [i \in {0} |-> st])
  BY DEF Future
<1> QED
  BY <1>1

\* A new block is the last one ...
LEMMA FutureExtends ==
    ASSUME NEW index, NEW st, NEW f \in Seq(Seq(Events)), NEW b \in Seq(Events),
           NEW s, Future(index, st, f, s)
    PROVE  \E u : /\ Future(index, st, Append(f, b), u)
                  /\ u[Len(Append(f, b))] = Fold(index, s[Len(f)], b)
<1>0. PICK k, g : k = Len(f) /\ g = Append(f, b)
  OBVIOUS
<1>1. k \in Nat /\ Len(g) = k + 1 /\ g[k + 1] = b /\ \A i \in 1..k : g[i] = f[i]
  BY <1>0, AppendProperties
<1> DEFINE u == [i \in 0..(k + 1) |-> IF i = k + 1 THEN Fold(index, s[k], b) ELSE s[i]]
<1>2. u[0] = st /\ u[k + 1] = Fold(index, s[k], b)
  BY <1>1 DEF Future
<1>3. ASSUME NEW i \in 1..(k + 1) PROVE u[i] = Fold(index, u[i - 1], g[i])
  <2>1. i - 1 \in 0..(k + 1) /\ i \in 0..(k + 1) /\ i - 1 # k + 1
    BY <1>1
  <2>2. u[i - 1] = s[i - 1]
    BY <2>1
  <2>3. CASE i = k + 1
    <3>1. i - 1 = k
      BY <1>1, <2>3
    <3> HIDE DEF u
    <3> QED
      BY <1>1, <1>2, <2>2, <2>3, <3>1
  <2>4. CASE i # k + 1
    <3>1. i \in 1..k /\ u[i] = s[i]
      BY <1>1, <2>1, <2>4
    <3> HIDE DEF u
    <3>2. s[i] = Fold(index, s[i - 1], f[i])
      BY <1>0, <3>1 DEF Future
    <3> QED
      BY <1>1, <2>2, <3>1, <3>2
  <2> QED
    BY <2>3, <2>4
<1> HIDE DEF u
<1>4. Future(index, st, g, u)
  BY <1>1, <1>2, <1>3 DEF Future
<1> QED
  BY <1>0, <1>1, <1>2, <1>4

\* ... and an indexed one was the first.
LEMMA FutureStarts ==
    ASSUME NEW index, NEW st, NEW f \in Seq(Seq(Events)), f # << >>,
           NEW s, Future(index, st, f, s)
    PROVE  \E u : /\ Future(index, Fold(index, st, Head(f)), Tail(f), u)
                  /\ u[Len(Tail(f))] = s[Len(f)]
<1>0. PICK k, g, h : k = Len(f) /\ g = Tail(f) /\ h = Head(f)
  OBVIOUS
<1>1. k \in Nat /\ k # 0 /\ h = f[1] /\ Len(g) = k - 1 /\ \A i \in 1..(k - 1) : g[i] = f[i + 1]
  BY <1>0, HeadTailProperties, EmptySeq
<1> DEFINE u == [i \in 0..(k - 1) |-> s[i + 1]]
<1>2. 1 \in 1..k /\ s[1] = Fold(index, s[1 - 1], f[1])
  BY <1>0, <1>1 DEF Future
<1>3. u[0] = Fold(index, st, h)
  <2>1. u[0] = s[1]
    BY <1>1
  <2> HIDE DEF u
  <2> QED
    BY <1>1, <1>2, <2>1 DEF Future
<1>4. u[k - 1] = s[k]
  <2>1. k - 1 \in 0..(k - 1) /\ (k - 1) + 1 = k
    BY <1>1
  <2> QED
    BY <2>1
<1>5. ASSUME NEW i \in 1..(k - 1) PROVE u[i] = Fold(index, u[i - 1], g[i])
  <2>1. i + 1 \in 1..k /\ (i + 1) - 1 = i /\ i \in 0..(k - 1) /\ i - 1 \in 0..(k - 1) /\ (i - 1) + 1 = i
    BY <1>1
  <2>2. s[i + 1] = Fold(index, s[i], f[i + 1])
    BY <1>0, <2>1 DEF Future
  <2>3. u[i] = s[i + 1] /\ u[i - 1] = s[i]
    BY <2>1
  <2> HIDE DEF u
  <2> QED
    BY <1>1, <2>2, <2>3
<1> HIDE DEF u
<1>6. Future(index, Fold(index, st, h), g, u)
  BY <1>1, <1>3, <1>5 DEF Future
<1> QED
  BY <1>0, <1>1, <1>4, <1>6

------------------------------------------------------------------------------
\* The block of a registration: its resolver's, its address's and its naming's
\* events may be missing.
RegisterBlock(n, a, from, resolving, address, naming, t) ==
    <<Event("Transfer", n, from, a), Event("NodeTransfer", n, Zero, a)>>
    \o resolving \o address \o naming \o <<Event("NameRegistered", n, t, a)>>

AddressOf(n, a) == {<< >>, <<Event("AddrChanged", n, Zero, a)>>}

\* A block of one event.
LEMMA OneEvent ==
    ASSUME NEW x \in Name \cup Account, NEW kind \in Kinds, NEW from \in Values, NEW v \in Values
    PROVE  << >> \in Seq(Events) /\ <<Event(kind, x, from, v)>> \in Seq(Events)
BY EventIs

\* The parts of the block of a registration.
LEMMA RegisterBlockTyped ==
    ASSUME NEW n \in Name, NEW a \in Account, NEW from \in Holders, NEW t \in Nat,
           NEW resolving \in ResolvingOf(n), NEW address \in AddressOf(n, a), NEW naming \in Seq(Events)
    PROVE  /\ <<Event("Transfer", n, from, a), Event("NodeTransfer", n, Zero, a)>> \in Seq(Events)
           /\ resolving \in Seq(Events) /\ address \in Seq(Events)
           /\ <<Event("NameRegistered", n, t, a)>> \in Seq(Events)
<1>1. a \in Values /\ Zero \in Values /\ from \in Values /\ t \in Values /\ Resolver \in Values
  BY DEF Values, Holders
<1>2. Event("Transfer", n, from, a) \in Events /\ Event("NodeTransfer", n, Zero, a) \in Events
  BY <1>1, EventIs DEF Kinds
<1>3. << >> \in Seq(Events) /\ <<Event("NewResolver", n, Zero, Resolver)>> \in Seq(Events)
  BY <1>1, EventIs DEF Kinds
<1>4. <<Event("AddrChanged", n, Zero, a)>> \in Seq(Events)
  BY <1>1, EventIs DEF Kinds
<1>5. <<Event("NameRegistered", n, t, a)>> \in Seq(Events)
  BY <1>1, EventIs DEF Kinds
<1>6. <<Event("Transfer", n, from, a), Event("NodeTransfer", n, Zero, a)>> \in Seq(Events)
  BY <1>2
<1>7. resolving \in Seq(Events)
  BY <1>3, Zenon DEF ResolvingOf
<1>8. address \in Seq(Events)
  BY <1>3, <1>4, Zenon DEF AddressOf
<1> QED
  BY <1>5, <1>6, <1>7, <1>8

\* It is handled part by part.
LEMMA RegisterFolded ==
    ASSUME NEW index \in {"arcns", "bens"}, NEW st,
           NEW n \in Name, NEW a \in Account, NEW from \in Holders, NEW t \in Nat,
           NEW resolving \in ResolvingOf(n), NEW address \in AddressOf(n, a), NEW naming \in Seq(Events)
    PROVE  /\ RegisterBlock(n, a, from, resolving, address, naming, t) \in Seq(Events)
           /\ Fold(index, st, RegisterBlock(n, a, from, resolving, address, naming, t)) =
                Handled(index, Fold(index, Fold(index, Fold(index,
                   Handled(index, Handled(index, st, Event("Transfer", n, from, a)),
                           Event("NodeTransfer", n, Zero, a)),
                   resolving), address), naming), Event("NameRegistered", n, t, a))
<1>0. PICK x, y, z, w, v : /\ x = <<Event("Transfer", n, from, a), Event("NodeTransfer", n, Zero, a)>>
                           /\ y = resolving /\ z = address /\ w = naming
                           /\ v = <<Event("NameRegistered", n, t, a)>>
  OBVIOUS
<1>1. x \in Seq(Events) /\ y \in Seq(Events) /\ z \in Seq(Events) /\ w \in Seq(Events) /\ v \in Seq(Events)
  BY <1>0, RegisterBlockTyped
<1>2. \A p, q : p \in Seq(Events) /\ q \in Seq(Events) =>
        p \o q \in Seq(Events) /\ Fold(index, st, p \o q) = Fold(index, Fold(index, st, p), q)
  BY FoldOfTwo
<1>3. x \o y \in Seq(Events) /\ Fold(index, st, x \o y) = Fold(index, Fold(index, st, x), y)
  BY <1>1, <1>2, Zenon
<1>4. /\ x \o y \o z \in Seq(Events)
      /\ Fold(index, st, x \o y \o z) = Fold(index, Fold(index, st, x \o y), z)
  BY <1>1, <1>2, <1>3, Zenon
<1>5. /\ x \o y \o z \o w \in Seq(Events)
      /\ Fold(index, st, x \o y \o z \o w) = Fold(index, Fold(index, st, x \o y \o z), w)
  BY <1>1, <1>2, <1>4, Zenon
<1>6. /\ x \o y \o z \o w \o v \in Seq(Events)
      /\ Fold(index, st, x \o y \o z \o w \o v) = Fold(index, Fold(index, st, x \o y \o z \o w), v)
  BY <1>1, <1>2, <1>5, Zenon
<1>7. Fold(index, st, x) = Handled(index, Handled(index, st, Event("Transfer", n, from, a)),
                                   Event("NodeTransfer", n, Zero, a))
  BY <1>0, FoldOfPair
<1>8. \A q : Fold(index, q, v) = Handled(index, q, Event("NameRegistered", n, t, a))
  BY <1>0, FoldOfOne
<1>9. RegisterBlock(n, a, from, resolving, address, naming, t) = x \o y \o z \o w \o v
  BY <1>0, Zenon DEF RegisterBlock
<1>10. RegisterBlock(n, a, from, resolving, address, naming, t) \in Seq(Events)
  BY <1>6, <1>9, Zenon
<1>11. Fold(index, st, x \o y \o z \o w \o v) =
          Handled(index, Fold(index, Fold(index, Fold(index, Fold(index, st, x), y), z), w),
                  Event("NameRegistered", n, t, a))
  BY <1>3, <1>4, <1>5, <1>6, <1>8, Zenon
<1> QED
  BY <1>0, <1>7, <1>9, <1>10, <1>11, Zenon

------------------------------------------------------------------------------
(* The store of ArcNS' subgraph follows the chain.                           *)

NameFollows(st, n) ==
    /\ n \in st.known <=> tokenOwner[n] # Zero
    /\ n \notin st.known => ~st.domain[n].linked
    /\ st.domain[n].expiry = term[n]
    /\ st.domain[n].owner \in {tokenOwner[n], nodeOwner[n]}
    /\ st.domain[n].linked => st.domain[n].resolvedAddress = addrOf[n]

AccountFollows(st, a) ==
    /\ namings[a] = 0 => st.byNode[a] = Unset /\ st.byAddress[a] = Unset
    /\ namings[a] # 0 => st.byNode[a] = a
    /\ namings[a] = 1 => st.byAddress[a] = Empty
    /\ namings[a] = 2 /\ primary[a] # Empty => st.byAddress[a] = primary[a]

Follows(st) ==
    /\ st \in Stores
    /\ \A n \in Name : NameFollows(st, n)
    /\ \A a \in Account : AccountFollows(st, a)

\* What a transaction that is about no other name or account has to show.
LEMMA NamingKeepsAccounts ==
    ASSUME ChainInv, NEW st \in Stores, \A b \in Account : AccountFollows(st, b),
           NEW a \in Account, NEW v \in Name \cup {Empty},
           NEW resolving \in ResolvingOf(a), Named(a, v),
           NEW r, r = Fold("arcns", st, NamingBlock(a, v, resolving))
    PROVE  OnlyOfAccount(r, st, a) /\ \A b \in Account : AccountFollows(r, b)'
<1>1. st.byNode[a] \in {a, Unset} /\ st \in Stores /\ AccountFollows(st, a)
  BY DEF AccountFollows
<1>2. /\ OnlyOfAccount(r, st, a) /\ r.byNode[a] = a
      /\ v # Empty /\ st.byNode[a] = a => r.byAddress[a] = v
      /\ v = Empty \/ st.byNode[a] = Unset =>
           r.byAddress[a] = IF st.byAddress[a] = Unset THEN Empty ELSE st.byAddress[a]
  BY <1>1, NamingHandled
<1>3. namings[a] \in 0..2 /\ namings \in [Account -> 0..2] /\ primary \in [Account -> Name \cup {Empty, Zero}]
  BY DEF ChainInv, ChainTypeOK
<1>4. /\ namings'[a] = (IF namings[a] < 2 THEN namings[a] + 1 ELSE 2) /\ primary'[a] = v
      /\ \A b \in Account \ {a} : namings'[b] = namings[b] /\ primary'[b] = primary[b]
  BY <1>3 DEF Named
<1>5. a # Unset
  BY AccountIsNoName
<1>6. AccountFollows(r, a)'
  <2>1. namings'[a] # 0 /\ (namings'[a] = 1 => namings[a] = 0) /\ (namings'[a] = 2 => namings[a] # 0)
    BY <1>3, <1>4
  <2>2. namings'[a] = 1 => r.byAddress[a] = Empty
    BY <1>1, <1>2, <2>1 DEF AccountFollows
  <2>3. namings'[a] = 2 /\ v # Empty => r.byAddress[a] = v
    BY <1>1, <1>2, <2>1 DEF AccountFollows
  <2> QED
    BY <1>2, <1>4, <2>1, <2>2, <2>3 DEF AccountFollows
<1>7. ASSUME NEW b \in Account \ {a} PROVE AccountFollows(r, b)'
  <2>1. r.byAddress[b] = st.byAddress[b] /\ r.byNode[b] = st.byNode[b]
    BY <1>2 DEF OnlyOfAccount
  <2>2. AccountFollows(st, b)
    OBVIOUS
  <2> QED
    BY <1>4, <2>1, <2>2 DEF AccountFollows
<1> QED
  BY <1>2, <1>6, <1>7

\* A transaction about one name, if its store follows it, keeps all that follows.
LEMMA NameEventKeeps ==
    ASSUME NEW st, Follows(st), NEW n \in Name, NEW r, OnlyOf(r, st, n),
           NameFollows(r, n)', UNCHANGED <<primary, namings>>,
           \A m \in Name \ {n} : /\ tokenOwner'[m] = tokenOwner[m] /\ nodeOwner'[m] = nodeOwner[m]
                                 /\ addrOf'[m] = addrOf[m] /\ term'[m] = term[m]
    PROVE  Follows(r)'
<1>1. ASSUME NEW m \in Name \ {n} PROVE NameFollows(r, m)'
  BY DEF Follows, NameFollows, OnlyOf
<1>2. ASSUME NEW a \in Account PROVE AccountFollows(r, a)'
  BY DEF Follows, AccountFollows, OnlyOf
<1>3. r \in Stores
  BY DEF OnlyOf
<1> QED
  BY <1>1, <1>2, <1>3 DEF Follows

\* Each transaction emits a block that the handlers follow: a renewal,
LEMMA RenewFollows ==
    ASSUME ChainInv, NEW st, Follows(st), NEW n \in Name, Renew(n)
    PROVE  \E b \in Seq(Events) : feed' = Append(feed, b) /\ Follows(Fold("arcns", st, b))'
<1>1. PICK t : t = term'[n]
  OBVIOUS
<1>2. t \in Nat /\ tokenOwner[n] # Zero /\ \A m \in Name \ {n} : term'[m] = term[m]
  BY <1>1 DEF Renew, ChainInv, ChainTypeOK
<1>3. PICK e, r : e = Event("NameRenewed", n, t, Zero) /\ r = Handled("arcns", st, e)
  OBVIOUS
<1>4. st \in Stores /\ NameFollows(st, n)
  BY DEF Follows
<1>5. /\ OnlyOf(r, st, n) /\ MirrorKept(r, st, n)
      /\ r.domain[n].expiry = IF n \in st.known THEN t ELSE st.domain[n].expiry
      /\ r.domain[n].owner = st.domain[n].owner
  BY <1>2, <1>3, <1>4, NameRenewedHandled
<1>6. Follows(r)'
  <2>1. NameFollows(r, n)'
    BY <1>1, <1>2, <1>4, <1>5 DEF NameFollows, MirrorKept, Renew
  <2> QED
    BY <1>2, <1>5, <2>1, NameEventKeeps DEF Renew
<1>7. <<e>> \in Seq(Events)
  BY <1>2, <1>3, EventIs DEF Kinds, Values
<1>8. feed' = Append(feed, <<e>>)
  BY <1>1, <1>3 DEF Renew, Emit
<1>9. Fold("arcns", st, <<e>>) = r
  BY <1>3, FoldOfOne
<1> QED
  BY <1>6, <1>7, <1>8, <1>9

\* a transfer of the token,
LEMMA TransferFollows ==
    ASSUME ChainInv, NEW st, Follows(st), NEW n \in Name, NEW a \in Account, TransferName(n, a)
    PROVE  \E b \in Seq(Events) : feed' = Append(feed, b) /\ Follows(Fold("arcns", st, b))'
<1>1. PICK from : from = tokenOwner[n]
  OBVIOUS
<1>2. from \in Holders /\ from # Zero /\ a \in Holders
  BY <1>1 DEF TransferName, ChainInv, ChainTypeOK, Holders
<1>3. PICK e, r : e = Event("Transfer", n, from, a) /\ r = Handled("arcns", st, e)
  OBVIOUS
<1>4. st \in Stores /\ NameFollows(st, n)
  BY DEF Follows
<1>5. /\ OnlyOf(r, st, n) /\ MirrorKept(r, st, n)
      /\ r.domain[n].expiry = st.domain[n].expiry
      /\ r.domain[n].owner = IF from # Zero /\ n \in st.known THEN a ELSE st.domain[n].owner
  BY <1>2, <1>3, <1>4, TransferHandled
<1>6. Follows(r)'
  <2>1. tokenOwner'[n] = a /\ a # Zero /\ \A m \in Name \ {n} : tokenOwner'[m] = tokenOwner[m]
    BY AccountIsNoName DEF TransferName, ChainInv, ChainTypeOK
  <2>2. NameFollows(r, n)'
    BY <1>1, <1>2, <1>4, <1>5, <2>1 DEF NameFollows, MirrorKept, TransferName
  <2> QED
    BY <1>5, <2>1, <2>2, NameEventKeeps DEF TransferName
<1>7. <<e>> \in Seq(Events)
  BY <1>2, <1>3, EventIs DEF Kinds, Values, Holders
<1>8. feed' = Append(feed, <<e>>)
  BY <1>1, <1>3 DEF TransferName, Emit
<1>9. Fold("arcns", st, <<e>>) = r
  BY <1>3, FoldOfOne
<1> QED
  BY <1>6, <1>7, <1>8, <1>9

\* a transfer of the node,
LEMMA GiveNodeFollows ==
    ASSUME ChainInv, NEW st, Follows(st), NEW n \in Name, NEW a \in Holders, GiveNode(n, a)
    PROVE  \E b \in Seq(Events) : feed' = Append(feed, b) /\ Follows(Fold("arcns", st, b))'
<1>1. PICK e, r : e = Event("NodeTransfer", n, Zero, a) /\ r = Handled("arcns", st, e)
  OBVIOUS
<1>2. st \in Stores /\ NameFollows(st, n)
  BY DEF Follows
<1>3. /\ OnlyOf(r, st, n) /\ MirrorKept(r, st, n)
      /\ r.domain[n].expiry = st.domain[n].expiry
      /\ r.domain[n].owner = IF n \in st.known THEN a ELSE st.domain[n].owner
  BY <1>1, <1>2, NodeTransferHandled
<1>4. Follows(r)'
  <2>1. nodeOwner'[n] = a /\ \A m \in Name \ {n} : nodeOwner'[m] = nodeOwner[m]
    BY DEF GiveNode, ChainInv, ChainTypeOK
  <2>2. NameFollows(r, n)'
    BY <1>2, <1>3, <2>1 DEF NameFollows, MirrorKept, GiveNode
  <2> QED
    BY <1>3, <2>1, <2>2, NameEventKeeps DEF GiveNode
<1>5. <<e>> \in Seq(Events)
  BY <1>1, EventIs DEF Kinds, Values, Holders
<1>6. feed' = Append(feed, <<e>>)
  BY <1>1 DEF GiveNode, Emit
<1>7. Fold("arcns", st, <<e>>) = r
  BY <1>1, FoldOfOne
<1> QED
  BY <1>4, <1>5, <1>6, <1>7

\* a change of the resolver,
LEMMA SetResolverFollows ==
    ASSUME ChainInv, NEW st, Follows(st), NEW n \in Name, NEW v \in {Resolver, Zero},
           SetResolver(n, v)
    PROVE  \E b \in Seq(Events) : feed' = Append(feed, b) /\ Follows(Fold("arcns", st, b))'
<1>1. PICK e, r : e = Event("NewResolver", n, Zero, v) /\ r = Handled("arcns", st, e)
  OBVIOUS
<1>2. st \in Stores /\ NameFollows(st, n)
  BY DEF Follows
<1>3. /\ OnlyOf(r, st, n) /\ MirrorKept(r, st, n)
      /\ r.domain[n].expiry = st.domain[n].expiry
      /\ r.domain[n].owner = st.domain[n].owner
  BY <1>1, <1>2, NewResolverHandled
<1>4. Follows(r)'
  <2>1. NameFollows(r, n)'
    BY <1>2, <1>3 DEF NameFollows, MirrorKept, SetResolver
  <2> QED
    BY <1>3, <2>1, NameEventKeeps DEF SetResolver
<1>5. <<e>> \in Seq(Events)
  BY <1>1, EventIs DEF Kinds, Values, Holders
<1>6. feed' = Append(feed, <<e>>)
  BY <1>1 DEF SetResolver, Emit
<1>7. Fold("arcns", st, <<e>>) = r
  BY <1>1, FoldOfOne
<1> QED
  BY <1>4, <1>5, <1>6, <1>7

\* a change of the address record,
LEMMA SetAddrFollows ==
    ASSUME ChainInv, NEW st, Follows(st), NEW n \in Name, NEW a \in Holders, SetAddr(n, a)
    PROVE  \E b \in Seq(Events) : feed' = Append(feed, b) /\ Follows(Fold("arcns", st, b))'
<1>1. PICK e, r : e = Event("AddrChanged", n, Zero, a) /\ r = Handled("arcns", st, e)
  OBVIOUS
<1>2. st \in Stores /\ NameFollows(st, n)
  BY DEF Follows
<1>3. /\ OnlyOf(r, st, n)
      /\ r.domain[n].expiry = st.domain[n].expiry
      /\ r.domain[n].owner = st.domain[n].owner
      /\ n \in st.known => r.domain[n].linked /\ r.domain[n].resolvedAddress = a /\ n \in r.known
      /\ n \notin st.known => MirrorKept(r, st, n)
  BY <1>1, <1>2, AddrChangedHandled
<1>4. n \in st.known
  BY <1>2 DEF SetAddr, ChainInv, NodesAreOfNames, NameFollows
<1>5. Follows(r)'
  <2>1. addrOf'[n] = a /\ \A m \in Name \ {n} : addrOf'[m] = addrOf[m]
    BY DEF SetAddr, ChainInv, ChainTypeOK
  <2>2. NameFollows(r, n)'
    BY <1>2, <1>3, <1>4, <2>1 DEF NameFollows, SetAddr
  <2> QED
    BY <1>3, <2>1, <2>2, NameEventKeeps DEF SetAddr
<1>6. <<e>> \in Seq(Events)
  BY <1>1, EventIs DEF Kinds, Values, Holders
<1>7. feed' = Append(feed, <<e>>)
  BY <1>1 DEF SetAddr, Emit
<1>8. Fold("arcns", st, <<e>>) = r
  BY <1>1, FoldOfOne
<1> QED
  BY <1>5, <1>6, <1>7, <1>8

\* The events of a naming are such a block.
LEMMA NamingEventsAre ==
    ASSUME NEW a \in Account, NEW v \in Name \cup {Empty}
    PROVE  \E resolving \in ResolvingOf(a) : NamingEvents(a, v) = NamingBlock(a, v, resolving)
<1>1. PICK y : y = IF primary[a] = Zero THEN <<Event("NewResolver", a, Zero, Resolver)>> ELSE << >>
  OBVIOUS
<1>2. y \in ResolvingOf(a)
  BY <1>1 DEF ResolvingOf
<1>3. NamingEvents(a, v) = NamingBlock(a, v, y)
  BY <1>1, Zenon DEF NamingEvents, NamingBlock
<1> QED
  BY <1>2, <1>3

\* a naming,
LEMMA SetPrimaryFollows ==
    ASSUME ChainInv, NEW st, Follows(st), NEW a \in Account,
           NEW v \in Name \cup {Empty}, SetPrimary(a, v)
    PROVE  \E b \in Seq(Events) : feed' = Append(feed, b) /\ Follows(Fold("arcns", st, b))'
<1>1. PICK y \in ResolvingOf(a) : NamingEvents(a, v) = NamingBlock(a, v, y)
  BY NamingEventsAre
<1>2. PICK b, r : b = NamingBlock(a, v, y) /\ r = Fold("arcns", st, b)
  OBVIOUS
<1>3. b \in Seq(Events)
  BY <1>2, NamingBlockTyped
<1>4. feed' = Append(feed, b)
  BY <1>1, <1>2 DEF SetPrimary, Emit
<1>5. OnlyOfAccount(r, st, a) /\ \A c \in Account : AccountFollows(r, c)'
  BY <1>2, NamingKeepsAccounts DEF SetPrimary, Follows
<1>6. ASSUME NEW n \in Name PROVE NameFollows(r, n)'
  BY <1>5 DEF SetPrimary, Follows, NameFollows, OnlyOfAccount
<1>7. Follows(r)'
  BY <1>5, <1>6 DEF Follows, OnlyOfAccount
<1> QED
  BY <1>2, <1>3, <1>4, <1>7

\* What a registration emits: from is the former holder, t the new expiry.
LEMMA RegisterEmits ==
    ASSUME ChainInv, NEW n \in Name, NEW a \in Account, NEW how \in Hows, Register(n, a, how)
    PROVE  \E resolving \in ResolvingOf(n), address \in AddressOf(n, a), naming \in Seq(Events) :
              /\ how = "bare" => address = << >>
              /\ how # "bare" => address = <<Event("AddrChanged", n, Zero, a)>>
              /\ how # "primary" => naming = << >>
              /\ how = "primary" => \E x \in ResolvingOf(a) : naming = NamingBlock(a, n, x)
              /\ feed' = Append(feed, RegisterBlock(n, a, tokenOwner[n], resolving, address, naming,
                                                    term'[n]))
<1>1. PICK y, z, w :
        /\ y = IF how # "bare" /\ resolverOf[n] # Resolver
                 THEN <<Event("NewResolver", n, Zero, Resolver)>> ELSE << >>
        /\ z = IF how # "bare" THEN <<Event("AddrChanged", n, Zero, a)>> ELSE << >>
        /\ w = IF how = "primary" THEN NamingEvents(a, n) ELSE << >>
  OBVIOUS
<1>2. y \in ResolvingOf(n) /\ z \in AddressOf(n, a)
  BY <1>1 DEF ResolvingOf, AddressOf
<1>3. how = "primary" => \E x \in ResolvingOf(a) : w = NamingBlock(a, n, x)
  BY <1>1, NamingEventsAre
<1>4. w \in Seq(Events)
  <2>1. CASE how = "primary"
    <3>1. PICK x \in ResolvingOf(a) : w = NamingBlock(a, n, x)
      BY <1>3, <2>1
    <3> QED
      BY <3>1, NamingBlockTyped
  <2>2. CASE how # "primary"
    BY <1>1, <2>2
  <2> QED
    BY <2>1, <2>2
<1>5. feed' = Append(feed, RegisterBlock(n, a, tokenOwner[n], y, z, w, term'[n]))
  BY <1>1, Zenon DEF Register, Emit, RegisterBlock
<1>6. /\ how = "bare" => z = << >>
      /\ how # "bare" => z = <<Event("AddrChanged", n, Zero, a)>>
      /\ how # "primary" => w = << >>
  BY <1>1
<1> QED
  BY <1>2, <1>3, <1>4, <1>5, <1>6

\* The store along the block of a registration.
LEMMA RegisterKeepsName ==
    ASSUME NEW st \in Stores, NEW n \in Name, NEW a \in Account, NEW from,
           NEW resolving \in ResolvingOf(n), NEW address \in AddressOf(n, a),
           NEW q, q = Fold("arcns", Fold("arcns",
                         Handled("arcns", Handled("arcns", st, Event("Transfer", n, from, a)),
                                 Event("NodeTransfer", n, Zero, a)), resolving), address)
    PROVE  /\ OnlyOf(q, st, n)
           /\ address = << >> => MirrorKept(q, st, n)
           /\ address # << >> => \/ n \in st.known /\ q.domain[n].linked /\ q.domain[n].resolvedAddress = a
                                 \/ n \notin st.known /\ MirrorKept(q, st, n)
<1>0. a \in Holders
  BY DEF Holders
<1>1. PICK s1 : s1 = Handled("arcns", st, Event("Transfer", n, from, a))
  OBVIOUS
<1>2. OnlyOf(s1, st, n) /\ MirrorKept(s1, st, n) /\ s1 \in Stores
  BY <1>0, <1>1, TransferHandled DEF OnlyOf
<1>3. PICK s2 : s2 = Handled("arcns", s1, Event("NodeTransfer", n, Zero, a))
  OBVIOUS
<1>4. OnlyOf(s2, s1, n) /\ MirrorKept(s2, s1, n) /\ s2 \in Stores
  BY <1>0, <1>2, <1>3, NodeTransferHandled DEF OnlyOf
<1>5. PICK s3 : s3 = Fold("arcns", s2, resolving)
  OBVIOUS
<1>6. OnlyOf(s3, s2, n) /\ MirrorKept(s3, s2, n) /\ s3 \in Stores
  <2>1. CASE resolving = << >>
    <3>1. s3 = s2
      BY <1>5, <2>1, FoldOfNone
    <3> QED
      BY <1>4, <3>1, NothingWritten
  <2>2. CASE resolving = <<Event("NewResolver", n, Zero, Resolver)>>
    <3>1. s3 = Handled("arcns", s2, Event("NewResolver", n, Zero, Resolver))
      BY <1>5, <2>2, FoldOfOne
    <3> HIDE <1>5
    <3> QED
      BY <1>4, <3>1, NewResolverHandled DEF OnlyOf
  <2> QED
    BY <2>1, <2>2 DEF ResolvingOf
<1>7. OnlyOf(s3, st, n)
  <2>1. OnlyOf(s2, st, n)
    BY <1>2, <1>4, OnlyOfIsTransitive
  <2> QED
    BY <1>6, <2>1, OnlyOfIsTransitive
<1>8. MirrorKept(s3, st, n)
  BY <1>2, <1>4, <1>6 DEF MirrorKept
<1>9. q = Fold("arcns", s3, address)
  BY <1>1, <1>3, <1>5
<1>10. CASE address = << >>
  <2>1. q = s3
    BY <1>9, <1>10, FoldOfNone
  <2> QED
    BY <1>7, <1>8, <1>10, <2>1
<1>11. CASE address = <<Event("AddrChanged", n, Zero, a)>>
  <2>1. PICK p : p = Handled("arcns", s3, Event("AddrChanged", n, Zero, a))
    OBVIOUS
  <2>2. q = p
    BY <1>9, <1>11, <2>1, FoldOfOne
  <2>3. /\ OnlyOf(p, s3, n)
        /\ n \in s3.known => p.domain[n].linked /\ p.domain[n].resolvedAddress = a /\ n \in p.known
        /\ n \notin s3.known => MirrorKept(p, s3, n)
    BY <1>0, <1>6, <2>1, AddrChangedHandled
  <2>4. OnlyOf(p, st, n)
    BY <1>7, <2>3, OnlyOfIsTransitive
  <2>5. address # << >>
    BY <1>11
  <2>6. \/ n \in st.known /\ p.domain[n].linked /\ p.domain[n].resolvedAddress = a
        \/ n \notin st.known /\ MirrorKept(p, st, n)
    BY <1>8, <2>3 DEF MirrorKept
  <2> QED
    BY <2>2, <2>4, <2>5, <2>6
<1> QED
  BY <1>10, <1>11 DEF AddressOf

\* and a registration, with the naming it may contain.
LEMMA RegisterFollows ==
    ASSUME ChainInv, NEW st, Follows(st), NEW n \in Name, NEW a \in Account, NEW how \in Hows,
           Register(n, a, how)
    PROVE  \E b \in Seq(Events) : feed' = Append(feed, b) /\ Follows(Fold("arcns", st, b))'
<1>1. PICK resolving \in ResolvingOf(n), address \in AddressOf(n, a), naming \in Seq(Events) :
              /\ how = "bare" => address = << >>
              /\ how # "bare" => address = <<Event("AddrChanged", n, Zero, a)>>
              /\ how # "primary" => naming = << >>
              /\ how = "primary" => \E x \in ResolvingOf(a) : naming = NamingBlock(a, n, x)
              /\ feed' = Append(feed, RegisterBlock(n, a, tokenOwner[n], resolving, address, naming,
                                                    term'[n]))
  BY RegisterEmits
<1>2. PICK from, t : from = tokenOwner[n] /\ t = term'[n]
  OBVIOUS
<1>3. from \in Holders /\ t \in Nat /\ a \in Holders /\ a # Zero
  BY <1>2, AccountIsNoName DEF Register, ChainInv, ChainTypeOK, Holders
<1>4. /\ tokenOwner'[n] = a /\ nodeOwner'[n] = a /\ term'[n] = t
      /\ \A m \in Name \ {n} : /\ tokenOwner'[m] = tokenOwner[m] /\ nodeOwner'[m] = nodeOwner[m]
                               /\ term'[m] = term[m]
  BY <1>2 DEF Register, ChainInv, ChainTypeOK
<1>5. /\ \A m \in Name \ {n} : addrOf'[m] = addrOf[m]
      /\ how = "bare" => addrOf' = addrOf
      /\ how # "bare" => addrOf'[n] = a
  BY DEF Register, ChainInv, ChainTypeOK
<1>6. PICK q : q = Fold("arcns", Fold("arcns",
                         Handled("arcns", Handled("arcns", st, Event("Transfer", n, from, a)),
                                 Event("NodeTransfer", n, Zero, a)), resolving), address)
  OBVIOUS
<1>7. st \in Stores /\ NameFollows(st, n)
  BY DEF Follows
<1>8. /\ OnlyOf(q, st, n)
      /\ address = << >> => MirrorKept(q, st, n)
      /\ address # << >> => \/ n \in st.known /\ q.domain[n].linked /\ q.domain[n].resolvedAddress = a
                            \/ n \notin st.known /\ MirrorKept(q, st, n)
  BY <1>6, <1>7, RegisterKeepsName
<1>9. PICK p : p = Fold("arcns", q, naming)
  OBVIOUS
<1>10. /\ p \in Stores /\ p.domain = q.domain /\ p.known = q.known
       /\ \A c \in Account : AccountFollows(p, c)'
  <2>1. CASE how = "primary"
    <3>1. PICK x \in ResolvingOf(a) : naming = NamingBlock(a, n, x)
      BY <1>1, <2>1
    <3>2. q \in Stores /\ q.byAddress = st.byAddress /\ q.byNode = st.byNode
      BY <1>8 DEF OnlyOf
    <3>3. q.byNode[a] \in {a, Unset}
      BY <3>2 DEF Follows, AccountFollows
    <3>4. p = Fold("arcns", q, NamingBlock(a, n, x)) /\ n \in Name \cup {Empty}
      BY <1>9, <3>1
    <3>5. Named(a, n)
      BY <2>1 DEF Register
    <3>6. \A c \in Account : AccountFollows(q, c)
      BY <3>2 DEF Follows, AccountFollows
    <3>7. OnlyOfAccount(p, q, a) /\ \A c \in Account : AccountFollows(p, c)'
      BY <3>2, <3>4, <3>5, <3>6, NamingKeepsAccounts
    <3> QED
      BY <3>7 DEF OnlyOfAccount
  <2>2. CASE how # "primary"
    <3>1. p = q
      BY <1>1, <1>9, <2>2, FoldOfNone
    <3>2. UNCHANGED <<primary, namings>>
      BY <2>2 DEF Register
    <3> QED
      BY <1>8, <3>1, <3>2 DEF OnlyOf, Follows, AccountFollows
  <2> QED
    BY <2>1, <2>2
<1>11. PICK r : r = Handled("arcns", p, Event("NameRegistered", n, t, a))
  OBVIOUS
<1>12. /\ OnlyOf(r, p, n) /\ n \in r.known
       /\ r.domain[n].expiry = t /\ r.domain[n].owner = a
       /\ r.domain[n].linked = p.domain[n].linked
       /\ r.domain[n].resolvedAddress = p.domain[n].resolvedAddress
  BY <1>3, <1>10, <1>11, NameRegisteredHandled
<1>13. NameFollows(r, n)'
  <2>1. CASE how = "bare"
    <3>1. r.domain[n].linked = st.domain[n].linked /\ r.domain[n].resolvedAddress = st.domain[n].resolvedAddress
      BY <1>1, <1>8, <1>10, <1>12, <2>1 DEF MirrorKept
    <3>2. r.domain[n].linked => r.domain[n].resolvedAddress = addrOf'[n]
      BY <1>5, <1>7, <2>1, <3>1 DEF NameFollows
    <3> QED
      BY <1>3, <1>4, <1>12, <3>2 DEF NameFollows
  <2>2. CASE how # "bare"
    <3>1. address # << >>
      <4>1. address = <<Event("AddrChanged", n, Zero, a)>>
        BY <1>1, <2>2
      <4> QED
        BY <4>1
    <3>2. r.domain[n].linked => r.domain[n].resolvedAddress = a
      BY <1>7, <1>8, <1>10, <1>12, <3>1 DEF MirrorKept, NameFollows
    <3> QED
      BY <1>3, <1>4, <1>5, <1>12, <2>2, <3>2 DEF NameFollows
  <2> QED
    BY <2>1, <2>2
<1>14. ASSUME NEW m \in Name \ {n} PROVE NameFollows(r, m)'
  <2>1. r.domain[m] = st.domain[m] /\ (m \in r.known <=> m \in st.known)
    BY <1>8, <1>10, <1>12 DEF OnlyOf
  <2>2. NameFollows(st, m)
    BY DEF Follows
  <2> QED
    BY <1>4, <1>5, <2>1, <2>2 DEF NameFollows
<1>15. ASSUME NEW c \in Account PROVE AccountFollows(r, c)'
  BY <1>10, <1>12 DEF OnlyOf, AccountFollows
<1>16. Follows(r)'
  <2>1. r \in Stores
    BY <1>12 DEF OnlyOf
  <2> QED
    BY <1>13, <1>14, <1>15, <2>1 DEF Follows
<1>17. PICK b : b = RegisterBlock(n, a, from, resolving, address, naming, t)
  OBVIOUS
<1>18. b \in Seq(Events) /\ Fold("arcns", st, b) = r
  BY <1>3, <1>6, <1>9, <1>11, <1>17, RegisterFolded
<1>19. feed' = Append(feed, b)
  BY <1>1, <1>2, <1>17
<1> QED
  BY <1>16, <1>18, <1>19

\* Nothing is registered at first.
LEMMA ChainInitially == ChainInit => ChainInv
<1> SUFFICES ASSUME ChainInit PROVE ChainInv
  OBVIOUS
<1>1. ChainTypeOK
  BY DEF ChainInit, ChainTypeOK, Holders
<1>2. NodesAreOfNames
  BY DEF ChainInit, NodesAreOfNames
<1> QED
  BY <1>1, <1>2 DEF ChainInv

\* A transaction adds the block b to the feed, and keeps the types.
LEMMA NamedTypes ==
    ASSUME primary \in [Account -> Name \cup {Empty, Zero}], namings \in [Account -> 0..2],
           NEW a \in Account, NEW v \in Name \cup {Empty}, Named(a, v)
    PROVE  primary' \in [Account -> Name \cup {Empty, Zero}] /\ namings' \in [Account -> 0..2]
<1>1. (IF namings[a] < 2 THEN namings[a] + 1 ELSE 2) \in 0..2
  OBVIOUS
<1>2. namings' \in [Account -> 0..2]
  BY <1>1 DEF Named
<1>3. primary' \in [Account -> Name \cup {Empty, Zero}]
  BY DEF Named
<1> QED
  BY <1>2, <1>3

\* Every transaction keeps the types, and nodes only of registered names.
LEMMA ChainStep ==
    ASSUME ChainInv, ChainNext, feed' \in Seq(Seq(Events))
    PROVE  ChainInv'
<1> USE DEF ChainInv, ChainTypeOK, NodesAreOfNames, Holders
<1>1. ASSUME NEW n \in Name, Renew(n) PROVE ChainInv'
  BY <1>1 DEF Renew
<1>2. ASSUME NEW n \in Name, Lapse(n) PROVE ChainInv'
  BY <1>2 DEF Lapse
<1>3. ASSUME NEW n \in Name, NEW a \in Account, TransferName(n, a) PROVE ChainInv'
  BY <1>3, AccountIsNoName DEF TransferName
<1>4. ASSUME NEW n \in Name, NEW a \in Account, NEW how \in {"bare", "resolver", "primary"},
             Register(n, a, how)
      PROVE  ChainInv'
  <2>1. tokenOwner' \in [Name -> Holders] /\ nodeOwner' \in [Name -> Holders] /\ term' \in [Name -> Nat]
    BY <1>4 DEF Register
  <2>2. addrOf' \in [Name -> Holders] /\ resolverOf' \in [Name -> {Resolver, Zero}]
    BY <1>4 DEF Register
  <2>3. primary' \in [Account -> Name \cup {Empty, Zero}] /\ namings' \in [Account -> 0..2]
    <3>1. CASE how = "primary"
      BY <1>4, <3>1, NamedTypes DEF Register
    <3>2. CASE how # "primary"
      BY <1>4, <3>2 DEF Register
    <3> QED
      BY <3>1, <3>2
  <2>4. NodesAreOfNames'
    BY <1>4, AccountIsNoName DEF Register
  <2> QED
    BY <2>1, <2>2, <2>3, <2>4
<1>5. ASSUME NEW n \in Name, NEW a \in Account \cup {Zero}, GiveNode(n, a) PROVE ChainInv'
  BY <1>5 DEF GiveNode
<1>6. ASSUME NEW n \in Name, NEW a \in Account \cup {Zero}, SetAddr(n, a) PROVE ChainInv'
  BY <1>6 DEF SetAddr
<1>7. ASSUME NEW n \in Name, NEW r \in {Resolver, Zero}, SetResolver(n, r) PROVE ChainInv'
  BY <1>7 DEF SetResolver
<1>8. ASSUME NEW a \in Account,
           NEW v \in Name \cup {Empty}, SetPrimary(a, v) PROVE ChainInv'
  <2>1. primary' \in [Account -> Name \cup {Empty, Zero}] /\ namings' \in [Account -> 0..2]
    BY <1>8, NamedTypes DEF SetPrimary
  <2> QED
    BY <1>8, <2>1 DEF SetPrimary
<1> QED
  BY <1>1, <1>2, <1>3, <1>4, <1>5, <1>6, <1>7, <1>8 DEF ChainNext

\* Every transaction is a block that the handlers follow; the end of the grace
\* period is none.
LEMMA ChainFollows ==
    ASSUME ChainInv, NEW st, Follows(st), ChainNext
    PROVE  \/ feed' = feed /\ Follows(st)'
           \/ \E b \in Seq(Events) : feed' = Append(feed, b) /\ Follows(Fold("arcns", st, b))'
<1>1. ASSUME NEW n \in Name, Lapse(n) PROVE feed' = feed /\ Follows(st)'
  BY <1>1 DEF Lapse, Follows, NameFollows, AccountFollows
<1> QED
  BY <1>1, RenewFollows, TransferFollows, RegisterFollows, GiveNodeFollows, SetAddrFollows,
     SetResolverFollows, SetPrimaryFollows DEF ChainNext, Hows, Holders

IndexInv ==
    ChainInv /\ \E s : Future("arcns", store, feed, s) /\ Follows(s[Len(feed)])

\* The empty store follows the empty chain.
LEMMA IndexInitially == IndexInit => IndexInv
<1> SUFFICES ASSUME IndexInit PROVE IndexInv
  OBVIOUS
<1>1. ChainInv
  BY ChainInitially DEF IndexInit
<1>2. StoreInit \in Stores
  <2>1. [n \in Name |-> NoDomain] \in [Name -> Domains]
    BY DEF NoDomain, Domains, Holders
  <2>2. /\ {} \in SUBSET Name /\ [n \in Name |-> Unset] \in [Name -> Holders \cup {Unset}]
        /\ [a \in Account |-> Unset] \in [Account -> Name \cup {Empty, Unset}]
        /\ [a \in Account |-> Unset] \in [Account -> Name \cup Account \cup {Unset}]
    OBVIOUS
  <2> QED
    BY <2>1, <2>2 DEF StoreInit, Stores
<1>3. ASSUME NEW n \in Name PROVE NameFollows(StoreInit, n)
  BY DEF NameFollows, StoreInit, NoDomain, IndexInit, ChainInit
<1>4. ASSUME NEW a \in Account PROVE AccountFollows(StoreInit, a)
  BY DEF AccountFollows, StoreInit, IndexInit, ChainInit
<1>5. Follows(StoreInit)
  BY <1>2, <1>3, <1>4 DEF Follows
<1>6. feed = << >> /\ store = StoreInit
  BY DEF IndexInit, ChainInit
<1>7. PICK s : Future("arcns", store, << >>, s) /\ s[Len(<< >>)] = store
  BY FutureOfNone
<1> QED
  BY <1>1, <1>5, <1>6, <1>7 DEF IndexInv

\* The blocks that wait, with one more or one less.
LEMMA FeedTypes ==
    ASSUME ChainInv
    PROVE  /\ feed \in Seq(Seq(Events))
           /\ \A b \in Seq(Events) : Append(feed, b) \in Seq(Seq(Events))
           /\ feed # << >> => Tail(feed) \in Seq(Seq(Events))
<1>1. feed \in Seq(Seq(Events))
  BY DEF ChainInv, ChainTypeOK
<1> QED
  BY <1>1

\* A transaction adds a block at the end of the future, an indexed block leaves its
\* beginning: its end follows the chain throughout.
LEMMA IndexStep == IndexInv /\ [IndexNext]_<<eventVars, store>> => IndexInv'
<1> SUFFICES ASSUME IndexInv, [IndexNext]_<<eventVars, store>> PROVE IndexInv'
  OBVIOUS
<1>1. PICK s : Future("arcns", store, feed, s) /\ Follows(s[Len(feed)])
  BY DEF IndexInv
<1>2. PICK f, st, last : f = feed /\ st = store /\ last = s[Len(f)]
  OBVIOUS
<1>3. /\ f \in Seq(Seq(Events)) /\ \A b \in Seq(Events) : Append(f, b) \in Seq(Seq(Events))
      /\ f # << >> => Tail(f) \in Seq(Seq(Events))
  BY <1>2, FeedTypes DEF IndexInv
<1>4. Future("arcns", st, f, s) /\ Follows(last)
  BY <1>1, <1>2
<1>5. CASE ChainNext /\ UNCHANGED store
  <2>1. CASE feed' = feed /\ Follows(last)'
    <3>1. ChainInv'
      BY <1>2, <1>3, <1>5, <2>1, ChainStep DEF IndexInv
    <3>2. feed' = f /\ store' = st
      BY <1>2, <1>5, <2>1
    <3>3. Follows(s[Len(f)])'
      BY <1>2, <2>1
    <3> QED
      BY <1>4, <3>1, <3>2, <3>3 DEF IndexInv
  <2>2. ASSUME NEW b \in Seq(Events), feed' = Append(feed, b), Follows(Fold("arcns", last, b))'
        PROVE  IndexInv'
    <3>1. PICK u : /\ Future("arcns", st, Append(f, b), u)
                   /\ u[Len(Append(f, b))] = Fold("arcns", s[Len(f)], b)
      <4>1. Future("arcns", st, f, s)
        BY <1>4
      <4>2. f \in Seq(Seq(Events))
        BY <1>3
      <4> QED
        BY <4>1, <4>2, FutureExtends
    <3>2. feed' = Append(f, b) /\ store' = st
      BY <1>2, <1>5, <2>2
    <3>3. ChainInv'
      BY <1>3, <1>5, <3>2, ChainStep DEF IndexInv
    <3>4. Follows(u[Len(Append(f, b))])'
      BY <1>2, <2>2, <3>1
    <3> QED
      BY <3>1, <3>2, <3>3, <3>4 DEF IndexInv
  <2>3. ChainInv
    BY DEF IndexInv
  <2> QED
    BY <1>4, <1>5, <2>1, <2>2, <2>3, ChainFollows
<1>6. CASE IndexBlock
  <2>1. f # << >> /\ store' = Fold("arcns", st, Head(f)) /\ feed' = Tail(f)
    BY <1>2, <1>6 DEF IndexBlock, Fold
  <2>2. PICK u : /\ Future("arcns", Fold("arcns", st, Head(f)), Tail(f), u)
                 /\ u[Len(Tail(f))] = last
    BY <1>2, <1>3, <1>4, <2>1, FutureStarts
  <2>3. ChainInv'
    BY <1>3, <1>6, <2>1 DEF IndexBlock, nameVars, IndexInv, ChainInv, ChainTypeOK, NodesAreOfNames
  <2>4. Follows(last)'
    BY <1>4, <1>6 DEF IndexBlock, nameVars, Follows, NameFollows, AccountFollows
  <2>5. Follows(u[Len(Tail(f))])'
    BY <2>2, <2>4
  <2> QED
    BY <2>1, <2>2, <2>3, <2>5 DEF IndexInv
<1>7. CASE UNCHANGED <<eventVars, store>>
  <2>1. UNCHANGED <<nameVars, feed, store>>
    BY <1>7 DEF eventVars
  <2>2. ChainInv'
    BY <2>1 DEF nameVars, IndexInv, ChainInv, ChainTypeOK, NodesAreOfNames
  <2>3. Follows(last)'
    BY <1>4, <2>1 DEF nameVars, Follows, NameFollows, AccountFollows
  <2>4. feed' = f /\ store' = st
    BY <1>2, <2>1
  <2>5. Follows(s[Len(f)])'
    BY <1>2, <2>3
  <2> QED
    BY <1>4, <2>2, <2>4, <2>5 DEF IndexInv
<1> QED
  BY <1>5, <1>6, <1>7 DEF IndexNext

\* Once nothing waits, the end of the future is the store.
LEMMA IndexInvIsEnough == IndexInv => SubgraphFollowsChain
<1> SUFFICES ASSUME IndexInv PROVE SubgraphFollowsChain
  OBVIOUS
<1>1. CaughtUp => Follows(store)
  <2> SUFFICES ASSUME feed = << >> PROVE Follows(store)
    BY DEF CaughtUp
  <2>1. PICK s : Future("arcns", store, feed, s) /\ Follows(s[Len(feed)])
    BY DEF IndexInv
  <2>2. Len(feed) = 0
    OBVIOUS
  <2> QED
    BY <2>1, <2>2 DEF Future
<1>2. ChainTypeOK
  BY DEF IndexInv, ChainInv
<1>3. DomainsFollowChain
  BY <1>1 DEF DomainsFollowChain, Follows, NameFollows
<1>4. PrimaryFollowsChain
  BY <1>1 DEF PrimaryFollowsChain, Follows, AccountFollows
<1>5. VerifiedIsPrimary
  <2> SUFFICES ASSUME CaughtUp, NEW a \in Account, NEW up \in BOOLEAN, Verified(a, up) # Unset
               PROVE  primary[a] \in {Verified(a, up), Empty} /\ addrOf[Verified(a, up)] = a
    BY DEF VerifiedIsPrimary
  <2>1. PICK n : n = Candidate(a, up)
    OBVIOUS
  <2>2. n # Unset /\ addrOf[n] = a /\ Verified(a, up) = n
    BY <2>1 DEF Verified
  <2>3. CASE up /\ store.byAddress[a] \notin {Unset, Empty}
    <3>1. n = store.byAddress[a] /\ n # Unset /\ n # Empty
      BY <2>1, <2>3 DEF Candidate
    <3>2. namings[a] \in 0..2
      BY <1>2 DEF ChainTypeOK
    <3>3. namings[a] = 2
      BY <1>1, <3>1, <3>2 DEF Follows, AccountFollows
    <3> QED
      BY <1>1, <2>2, <3>1, <3>3 DEF Follows, AccountFollows
  <2>4. CASE ~(up /\ store.byAddress[a] \notin {Unset, Empty})
    <3>1. n = primary[a]
      BY <2>1, <2>2, <2>4 DEF Candidate
    <3> QED
      BY <2>2, <3>1
  <2> QED
    BY <2>3, <2>4
<1>6. SourcesAgree
  <2> SUFFICES ASSUME CaughtUp, NEW n \in Name, resolverOf[n] # Zero, addrOf[n] # Zero
               PROVE  ResolveName(n, TRUE) = ResolveName(n, FALSE)
    BY DEF SourcesAgree
  <2>1. ResolveName(n, FALSE) = addrOf[n]
    BY DEF ResolveName
  <2>2. ResolveName(n, TRUE) = addrOf[n]
    <3>1. store.domain[n].linked => store.domain[n].resolvedAddress = addrOf[n]
      BY <1>1 DEF Follows, NameFollows
    <3> QED
      BY <3>1 DEF ResolveName
  <2> QED
    BY <2>1, <2>2
<1> QED
  BY <1>3, <1>4, <1>5, <1>6 DEF SubgraphFollowsChain

\* However far the subgraph is behind and whatever the chain does meanwhile, once
\* every block is indexed ArcNS' subgraph shows the names and primary names of the
\* chain, a wallet shows no primary name it has not set, and the resolution route
\* answers alike from the subgraph and from the chain.
THEOREM SubgraphFollowsChainHolds == IndexSpec => []SubgraphFollowsChain
<1>1. IndexInv => SubgraphFollowsChain
  BY IndexInvIsEnough
<1> QED
  BY <1>1, IndexInitially, IndexStep, PTL DEF IndexSpec

------------------------------------------------------------------------------
(* What the handlers of the BENS subgraph do to its store.                   *)

BensDomains   == [owner : Holders, registrant : Holders, expiryDate : Nat,
                  resolver : {Resolver, Unset}, resolvedAddress : Holders \cup {Unset}]
Reverses      == [owner : Holders, resolver : {Resolver, Unset}]
Registrations == [domain : Name \cup {Unset}, registrant : Holders, expiryDate : Nat]
BensStores    == [domain : [Name -> BensDomains], known : SUBSET Name,
                  reverse : [Account -> Reverses], registration : [Label -> Registrations],
                  subdomainCount : [TLD \cup {"addr.reverse"} -> Nat]]

BensOf(d, k, rv, rg, c) ==
    [domain |-> d, known |-> k, reverse |-> rv, registration |-> rg, subdomainCount |-> c]

\* The fields of a store have their types ...
LEMMA BensFields ==
    ASSUME NEW b \in BensStores
    PROVE  /\ b.domain \in [Name -> BensDomains] /\ b.known \in SUBSET Name
           /\ b.reverse \in [Account -> Reverses] /\ b.registration \in [Label -> Registrations]
           /\ b.subdomainCount \in [TLD \cup {"addr.reverse"} -> Nat]
BY DEF BensStores

\* ... and what has such fields is a store.
LEMMA BensIs ==
    ASSUME NEW d \in [Name -> BensDomains], NEW k \in SUBSET Name, NEW rv \in [Account -> Reverses],
           NEW rg \in [Label -> Registrations], NEW c \in [TLD \cup {"addr.reverse"} -> Nat]
    PROVE  BensOf(d, k, rv, rg, c) \in BensStores
BY DEF BensStores, BensOf

\* A name is a label under a TLD.
LEMMA NameParts == \A n \in Name : Labelled(n) \in Label /\ TldOf(n) \in TLD /\ n # Unset
BY ChainAssumption DEF Name, Labelled, TldOf

\* What an event about n leaves as it was: the names of other labels, and all
\* but the owners of the others of its label.
Around(r, b, n) ==
    /\ r \in BensStores
    /\ \A m \in Name \ {n} :
          /\ m \in r.known <=> m \in b.known
          /\ r.domain[m].expiryDate = b.domain[m].expiryDate
          /\ Labelled(m) # Labelled(n) => /\ r.domain[m].owner = b.domain[m].owner
                                          /\ r.domain[m].registrant = b.domain[m].registrant
    /\ \A l \in Label \ {Labelled(n)} : r.registration[l] = b.registration[l]

\* ... and if it neither registers nor renews it.
Still(r, b, n) ==
    /\ Around(r, b, n)
    /\ r.known = b.known /\ r.registration = b.registration /\ r.reverse = b.reverse
    /\ r.subdomainCount = b.subdomainCount /\ r.domain[n].expiryDate = b.domain[n].expiryDate

\* Two events about one name are like one.
LEMMA AroundIsTransitive ==
    ASSUME NEW n \in Name, NEW b, NEW q, NEW r, Around(q, b, n), Around(r, q, n)
    PROVE  Around(r, b, n)
BY DEF Around

\* The same of events that neither register nor renew.
LEMMA StillIsTransitive ==
    ASSUME NEW n \in Name, NEW b, NEW q, NEW r, Still(q, b, n), Still(r, q, n)
    PROVE  Still(r, b, n)
BY AroundIsTransitive DEF Still

\* An event that is passed over.
LEMMA StillItself ==
    ASSUME NEW b \in BensStores, NEW n \in Name
    PROVE  Still(b, b, n)
BY DEF Still, Around

\* A domain of the label is written, but not its expiry.
LEMMA DomainWritten ==
    ASSUME NEW b \in BensStores, NEW n \in Name, NEW k \in Name, Labelled(k) = Labelled(n),
           NEW d \in BensDomains, d.expiryDate = b.domain[k].expiryDate
    PROVE  LET r == [b EXCEPT !.domain[k] = d]
           IN  Still(r, b, n) /\ r.domain = [b.domain EXCEPT ![k] = d]
<1>0. PICK r, e : r = [b EXCEPT !.domain[k] = d] /\ e = [b.domain EXCEPT ![k] = d]
  OBVIOUS
<1>1. e \in [Name -> BensDomains] /\ b.domain \in [Name -> BensDomains]
  BY <1>0, BensFields
<1>2. r = BensOf(e, b.known, b.reverse, b.registration, b.subdomainCount)
  BY <1>0 DEF BensStores, BensOf
<1>3. r \in BensStores
  BY <1>1, <1>2, BensFields, BensIs
<1>4. /\ r.domain = e /\ r.known = b.known /\ r.registration = b.registration
      /\ r.reverse = b.reverse /\ r.subdomainCount = b.subdomainCount
  BY <1>2 DEF BensOf
<1>5. \A m \in Name : e[m] = IF m = k THEN d ELSE b.domain[m]
  BY <1>0, <1>1
<1>6. Around(r, b, n)
  BY <1>3, <1>4, <1>5 DEF Around
<1>7. Still(r, b, n)
  BY <1>4, <1>5, <1>6 DEF Still
<1> QED
  BY <1>0, <1>4, <1>7

\* The Registration of a label is of a name of the label.
InLabel(b, n) ==
    LET k == b.registration[Labelled(n)].domain
    IN k = Unset \/ (k \in Name /\ Labelled(k) = Labelled(n))

\* A transfer writes the domain of the Registration, which may be another name of the label.
LEMMA BensTransferHandled ==
    ASSUME NEW b \in BensStores, NEW n \in Name, InLabel(b, n), NEW from, NEW v \in Holders,
           NEW r, r = Handled("bens", b, Event("Transfer", n, from, v))
    PROVE  /\ Still(r, b, n)
           /\ from # Zero /\ b.registration[Labelled(n)].domain = n =>
                r.domain[n].owner = v /\ r.domain[n].registrant = v
<1>0. PICK k : k = b.registration[Labelled(n)].domain
  OBVIOUS
<1>1. r = IF from = Zero \/ k = Unset THEN b
          ELSE [b EXCEPT !.domain[k] = [b.domain[k] EXCEPT !.owner = v, !.registrant = v]]
  BY <1>0 DEF Handled, HandleBens, Event, BensTransferred, BensStores
<1>2. CASE from = Zero \/ k = Unset
  BY <1>0, <1>1, <1>2, StillItself, NameParts
<1>3. CASE ~(from = Zero \/ k = Unset)
  <2>1. k \in Name /\ Labelled(k) = Labelled(n)
    BY <1>0, <1>3 DEF InLabel
  <2>2. b.domain[k] \in BensDomains /\ b.domain \in [Name -> BensDomains]
    BY <2>1, BensFields
  <2>3. PICK d : d = [b.domain[k] EXCEPT !.owner = v, !.registrant = v]
    OBVIOUS
  <2>4. d \in BensDomains /\ d.expiryDate = b.domain[k].expiryDate /\ d.owner = v /\ d.registrant = v
    BY <2>2, <2>3 DEF BensDomains
  <2>5. PICK q : q = [b EXCEPT !.domain[k] = d]
    OBVIOUS
  <2>6. Still(q, b, n) /\ q.domain = [b.domain EXCEPT ![k] = d]
    BY <2>1, <2>4, <2>5, DomainWritten
  <2>7. r = q
    BY <1>1, <1>3, <2>3, <2>5
  <2> QED
    BY <1>0, <2>1, <2>2, <2>4, <2>6, <2>7
<1> QED
  BY <1>2, <1>3

\* A transfer of the node writes the owner of a name that is known.
LEMMA BensNodeTransferHandled ==
    ASSUME NEW b \in BensStores, NEW n \in Name, NEW from, NEW v \in Holders,
           NEW r, r = Handled("bens", b, Event("NodeTransfer", n, from, v))
    PROVE  /\ Still(r, b, n) /\ r.domain[n].registrant = b.domain[n].registrant
           /\ r.domain[n].owner = IF n \in b.known THEN v ELSE b.domain[n].owner
<1>1. n \notin Account
  BY AccountIsNoName
<1>2. r = IF n \in b.known THEN [b EXCEPT !.domain[n] = [b.domain[n] EXCEPT !.owner = v]] ELSE b
  BY <1>1 DEF Handled, HandleBens, Event, BensNodeTransferred, BensStores
<1>3. CASE n \notin b.known
  BY <1>2, <1>3, StillItself
<1>4. CASE n \in b.known
  <2>2. b.domain[n] \in BensDomains /\ b.domain \in [Name -> BensDomains]
    BY BensFields
  <2>3. PICK d : d = [b.domain[n] EXCEPT !.owner = v]
    OBVIOUS
  <2>4. /\ d \in BensDomains /\ d.expiryDate = b.domain[n].expiryDate /\ d.owner = v
        /\ d.registrant = b.domain[n].registrant
    BY <2>2, <2>3 DEF BensDomains
  <2>5. PICK q : q = [b EXCEPT !.domain[n] = d]
    OBVIOUS
  <2>6. Still(q, b, n) /\ q.domain = [b.domain EXCEPT ![n] = d]
    BY <2>4, <2>5, DomainWritten
  <2>7. r = q
    BY <1>2, <1>4, <2>3, <2>5
  <2> QED
    BY <1>4, <2>2, <2>4, <2>6, <2>7
<1> QED
  BY <1>3, <1>4

\* Resolver and address are no part of what is promised.
LEMMA BensResolverHandled ==
    ASSUME NEW b \in BensStores, NEW n \in Name, NEW v \in {Resolver, Zero},
           NEW r, r = Handled("bens", b, Event("NewResolver", n, Zero, v))
    PROVE  /\ Still(r, b, n) /\ r.domain[n].registrant = b.domain[n].registrant
           /\ r.domain[n].owner = b.domain[n].owner
<1>0. PICK w : w = IF v = Zero THEN Unset ELSE v
  OBVIOUS
<1>1. n \notin Account /\ w \in {Resolver, Unset}
  BY <1>0, AccountIsNoName
<1>2. r = IF n \in b.known THEN [b EXCEPT !.domain[n] = [b.domain[n] EXCEPT !.resolver = w]] ELSE b
  BY <1>0, <1>1 DEF Handled, HandleBens, Event, BensNewResolver, BensStores
<1>3. CASE n \notin b.known
  BY <1>2, <1>3, StillItself
<1>4. CASE n \in b.known
  <2>2. b.domain[n] \in BensDomains /\ b.domain \in [Name -> BensDomains]
    BY BensFields
  <2>3. PICK d : d = [b.domain[n] EXCEPT !.resolver = w]
    OBVIOUS
  <2>4. /\ d \in BensDomains /\ d.expiryDate = b.domain[n].expiryDate /\ d.owner = b.domain[n].owner
        /\ d.registrant = b.domain[n].registrant
    BY <1>1, <2>2, <2>3 DEF BensDomains
  <2>5. PICK q : q = [b EXCEPT !.domain[n] = d]
    OBVIOUS
  <2>6. Still(q, b, n) /\ q.domain = [b.domain EXCEPT ![n] = d]
    BY <2>4, <2>5, DomainWritten
  <2>7. r = q
    BY <1>2, <1>4, <2>3, <2>5
  <2> QED
    BY <2>2, <2>4, <2>6, <2>7
<1> QED
  BY <1>3, <1>4

\* Nor is the address record.
LEMMA BensAddrHandled ==
    ASSUME NEW b \in BensStores, NEW n \in Name, NEW v \in Holders,
           NEW r, r = Handled("bens", b, Event("AddrChanged", n, Zero, v))
    PROVE  /\ Still(r, b, n) /\ r.domain[n].registrant = b.domain[n].registrant
           /\ r.domain[n].owner = b.domain[n].owner
<1>2. r = IF n \in b.known
            THEN [b EXCEPT !.domain[n] = [b.domain[n] EXCEPT !.resolver = Resolver, !.resolvedAddress = v]]
            ELSE b
  BY DEF Handled, HandleBens, Event, BensAddrChanged, BensStores
<1>3. CASE n \notin b.known
  BY <1>2, <1>3, StillItself
<1>4. CASE n \in b.known
  <2>2. b.domain[n] \in BensDomains /\ b.domain \in [Name -> BensDomains]
    BY BensFields
  <2>3. PICK d : d = [b.domain[n] EXCEPT !.resolver = Resolver, !.resolvedAddress = v]
    OBVIOUS
  <2>4. /\ d \in BensDomains /\ d.expiryDate = b.domain[n].expiryDate /\ d.owner = b.domain[n].owner
        /\ d.registrant = b.domain[n].registrant
    BY <2>2, <2>3 DEF BensDomains
  <2>5. PICK q : q = [b EXCEPT !.domain[n] = d]
    OBVIOUS
  <2>6. Still(q, b, n) /\ q.domain = [b.domain EXCEPT ![n] = d]
    BY <2>4, <2>5, DomainWritten
  <2>7. r = q
    BY <1>2, <1>4, <2>3, <2>5
  <2> QED
    BY <2>2, <2>4, <2>6, <2>7
<1> QED
  BY <1>3, <1>4

\* A renewal writes the expiry of the name and of its Registration.
LEMMA BensRenewedHandled ==
    ASSUME NEW b \in BensStores, NEW n \in Name, NEW t \in Nat, NEW v,
           n \in b.known, b.registration[Labelled(n)].domain # Unset,
           NEW r, r = Handled("bens", b, Event("NameRenewed", n, t, v))
    PROVE  /\ Around(r, b, n) /\ r.known = b.known
           /\ r.reverse = b.reverse /\ r.subdomainCount = b.subdomainCount
           /\ r.domain[n].expiryDate = t /\ r.domain[n].owner = b.domain[n].owner
           /\ r.domain[n].registrant = b.domain[n].registrant
           /\ r.registration[Labelled(n)].domain = b.registration[Labelled(n)].domain
           /\ r.registration[Labelled(n)].expiryDate = t
<1>0. PICK l : l = Labelled(n) /\ l \in Label
  BY NameParts
<1>1. /\ b.domain[n] \in BensDomains /\ b.domain \in [Name -> BensDomains]
      /\ b.registration[l] \in Registrations /\ b.registration \in [Label -> Registrations]
  BY <1>0, BensFields
<1>2. PICK d, g, e, f : /\ d = [b.domain[n] EXCEPT !.expiryDate = t]
                        /\ g = [b.registration[l] EXCEPT !.expiryDate = t]
                        /\ e = [b.domain EXCEPT ![n] = d] /\ f = [b.registration EXCEPT ![l] = g]
  OBVIOUS
<1>3. /\ d \in BensDomains /\ d.expiryDate = t /\ d.owner = b.domain[n].owner
      /\ d.registrant = b.domain[n].registrant
  BY <1>1, <1>2 DEF BensDomains
<1>4. g \in Registrations /\ g.domain = b.registration[l].domain /\ g.expiryDate = t
  BY <1>1, <1>2 DEF Registrations
<1>5. e \in [Name -> BensDomains] /\ f \in [Label -> Registrations] /\ e[n] = d /\ f[l] = g
  BY <1>0, <1>1, <1>2, <1>3, <1>4
<1>6. /\ \A m \in Name \ {n} : e[m] = b.domain[m]
      /\ \A k \in Label \ {l} : f[k] = b.registration[k]
  BY <1>1, <1>2
<1>7. r = BensOf(e, b.known, b.reverse, f, b.subdomainCount)
  <2>1. PICK q : q = [b EXCEPT !.domain = e]
    OBVIOUS
  <2>2. r = [q EXCEPT !.registration = f]
    BY <1>0, <1>2, <2>1 DEF Handled, HandleBens, Event, BensRenewed, BensStores
  <2> QED
    BY <2>1, <2>2 DEF BensOf, BensStores
<1>8. r \in BensStores
  <2>1. BensOf(e, b.known, b.reverse, f, b.subdomainCount) \in BensStores
    BY <1>5, BensFields, BensIs
  <2> QED
    BY <1>7, <2>1
<1>9. /\ r.domain = e /\ r.known = b.known /\ r.registration = f
      /\ r.reverse = b.reverse /\ r.subdomainCount = b.subdomainCount
  BY <1>7 DEF BensOf
<1>10. Around(r, b, n)
  BY <1>0, <1>6, <1>8, <1>9 DEF Around
<1> QED
  BY <1>0, <1>3, <1>4, <1>5, <1>9, <1>10

\* A registration makes a name known, counts it once, and takes a free Registration.
LEMMA BensRegisteredHandled ==
    ASSUME NEW b \in BensStores, NEW n \in Name, NEW t \in Nat, NEW v \in Holders,
           NEW r, r = Handled("bens", b, Event("NameRegistered", n, t, v))
    PROVE  /\ Around(r, b, n) /\ r.known = b.known \cup {n} /\ r.reverse = b.reverse
           /\ r.domain[n].expiryDate = t /\ r.domain[n].owner = v /\ r.domain[n].registrant = v
           /\ r.registration[Labelled(n)].domain =
                IF b.registration[Labelled(n)].domain = Unset THEN n ELSE b.registration[Labelled(n)].domain
           /\ r.registration[Labelled(n)].expiryDate = t
           /\ r.subdomainCount =
                [b.subdomainCount EXCEPT ![TldOf(n)] =
                    IF n \in b.known THEN b.subdomainCount[TldOf(n)] ELSE b.subdomainCount[TldOf(n)] + 1]
<1>0. PICK l, u : l = Labelled(n) /\ l \in Label /\ u = TldOf(n) /\ u \in TLD \cup {"addr.reverse"}
  BY NameParts
<1>1. /\ b.domain[n] \in BensDomains /\ b.domain \in [Name -> BensDomains]
      /\ b.registration[l] \in Registrations /\ b.registration \in [Label -> Registrations]
      /\ b.subdomainCount \in [TLD \cup {"addr.reverse"} -> Nat]
  BY <1>0, BensFields
<1>2. PICK d, g, e, f, c :
        /\ d = [b.domain[n] EXCEPT !.owner = v, !.registrant = v, !.expiryDate = t]
        /\ g = [domain |-> IF b.registration[l].domain = Unset THEN n ELSE b.registration[l].domain,
                registrant |-> v, expiryDate |-> t]
        /\ e = [b.domain EXCEPT ![n] = d] /\ f = [b.registration EXCEPT ![l] = g]
        /\ c = [b.subdomainCount EXCEPT ![u] =
                  IF n \in b.known THEN b.subdomainCount[u] ELSE b.subdomainCount[u] + 1]
  OBVIOUS
<1>3. d \in BensDomains /\ d.expiryDate = t /\ d.owner = v /\ d.registrant = v
  BY <1>1, <1>2 DEF BensDomains
<1>4. /\ g \in Registrations /\ g.expiryDate = t
      /\ g.domain = IF b.registration[l].domain = Unset THEN n ELSE b.registration[l].domain
  BY <1>1, <1>2 DEF Registrations
<1>5. e \in [Name -> BensDomains] /\ f \in [Label -> Registrations] /\ e[n] = d /\ f[l] = g
  BY <1>0, <1>1, <1>2, <1>3, <1>4
<1>6. c \in [TLD \cup {"addr.reverse"} -> Nat]
  BY <1>0, <1>1, <1>2
<1>7. /\ \A m \in Name \ {n} : e[m] = b.domain[m]
      /\ \A k \in Label \ {l} : f[k] = b.registration[k]
  BY <1>1, <1>2
<1>8. r = BensOf(e, b.known \cup {n}, b.reverse, f, c)
  <2>1. r = [b EXCEPT !.domain = e, !.known = b.known \cup {n}, !.subdomainCount = c, !.registration = f]
    BY <1>0, <1>2 DEF Handled, HandleBens, Event, BensRegistered, BensStores
  <2> QED
    BY <2>1 DEF BensOf, BensStores
<1>9. r \in BensStores
  <2>1. PICK known : known = b.known \cup {n}
    OBVIOUS
  <2>2. known \in SUBSET Name
    BY <2>1, BensFields
  <2>3. BensOf(e, known, b.reverse, f, c) \in BensStores
    BY <1>5, <1>6, <2>2, BensFields, BensIs
  <2> QED
    BY <1>8, <2>1, <2>3
<1>10. /\ r.domain = e /\ r.known = b.known \cup {n} /\ r.registration = f
       /\ r.reverse = b.reverse /\ r.subdomainCount = c
  BY <1>8 DEF BensOf
<1>11. Around(r, b, n)
  BY <1>0, <1>7, <1>9, <1>10 DEF Around
<1> QED
  BY <1>0, <1>2, <1>3, <1>4, <1>5, <1>10, <1>11

\* What an event about an account leaves as it was.
AroundAccount(r, b, a) ==
    /\ r \in BensStores /\ r.domain = b.domain /\ r.known = b.known /\ r.registration = b.registration
    /\ \A c \in Account \ {a} : r.reverse[c] = b.reverse[c]
    /\ \A t \in TLD : r.subdomainCount[t] = b.subdomainCount[t]

StillAccount(r, b, a) ==
    /\ AroundAccount(r, b, a) /\ r.subdomainCount = b.subdomainCount
    /\ Claimed(r, a) <=> Claimed(b, a)

\* Two events about one account are like one.
LEMMA StillAccountIsTransitive ==
    ASSUME NEW a \in Account, NEW b, NEW q, NEW r, StillAccount(q, b, a), StillAccount(r, q, a)
    PROVE  StillAccount(r, b, a)
BY DEF StillAccount, AroundAccount

\* An event that is passed over.
LEMMA StillAccountItself ==
    ASSUME NEW b \in BensStores, NEW a \in Account
    PROVE  StillAccount(b, b, a)
BY DEF StillAccount, AroundAccount

\* b with d as the reverse node of a, and c as the counts.
ReverseIs(b, a, d, c) == BensOf(b.domain, b.known, [b.reverse EXCEPT ![a] = d], b.registration, c)

\* A reverse node and the counts are written.
LEMMA ReverseWritten ==
    ASSUME NEW b \in BensStores, NEW a \in Account, NEW d \in Reverses,
           NEW c \in [TLD \cup {"addr.reverse"} -> Nat], \A t \in TLD : c[t] = b.subdomainCount[t],
           NEW r, r = ReverseIs(b, a, d, c)
    PROVE  AroundAccount(r, b, a) /\ r.subdomainCount = c /\ r.reverse[a] = d
<1>0. PICK e : e = [b.reverse EXCEPT ![a] = d]
  OBVIOUS
<1>1. e \in [Account -> Reverses] /\ b.reverse \in [Account -> Reverses]
  BY <1>0, BensFields
<1>2. r = BensOf(b.domain, b.known, e, b.registration, c)
  BY <1>0 DEF ReverseIs
<1>3. r \in BensStores
  <2>1. BensOf(b.domain, b.known, e, b.registration, c) \in BensStores
    BY <1>1, BensFields, BensIs
  <2> QED
    BY <1>2, <2>1
<1>4. /\ r.domain = b.domain /\ r.known = b.known /\ r.registration = b.registration
      /\ r.reverse = e /\ r.subdomainCount = c
  BY <1>2 DEF BensOf
<1>5. \A x \in Account : e[x] = IF x = a THEN d ELSE b.reverse[x]
  BY <1>0, <1>1
<1>6. \A x \in Account \ {a} : r.reverse[x] = b.reverse[x]
  BY <1>4, <1>5
<1>7. \A t \in TLD : r.subdomainCount[t] = b.subdomainCount[t]
  BY <1>4
<1> QED
  BY <1>3, <1>4, <1>5, <1>6, <1>7 DEF AroundAccount

\* Only the owner tells whether a reverse node is claimed.
LEMMA ReverseKept ==
    ASSUME NEW b \in BensStores, NEW a \in Account, NEW d \in Reverses,
           d.owner # Zero <=> Claimed(b, a)
    PROVE  LET r == [b EXCEPT !.reverse[a] = d] IN StillAccount(r, b, a)
<1>0. PICK c, q : c = b.subdomainCount /\ q = ReverseIs(b, a, d, c)
  OBVIOUS
<1>1. [b EXCEPT !.reverse[a] = d] = q
  BY <1>0 DEF BensStores, ReverseIs, BensOf
<1>2. AroundAccount(q, b, a) /\ q.subdomainCount = c /\ q.reverse[a] = d
  <2>1. c \in [TLD \cup {"addr.reverse"} -> Nat] /\ \A t \in TLD : c[t] = b.subdomainCount[t]
    BY <1>0, BensFields
  <2>2. q = ReverseIs(b, a, d, c)
    BY <1>0
  <2> QED
    BY <2>1, <2>2, ReverseWritten
<1>3. StillAccount(q, b, a)
  BY <1>0, <1>2 DEF StillAccount, Claimed
<1> QED
  BY <1>1, <1>3

\* A transfer and a new resolver of a reverse node claim nothing.
LEMMA BensReversePassed ==
    ASSUME NEW b \in BensStores, NEW a \in Account,
           NEW e \in {Event("NodeTransfer", a, Zero, a), Event("NewResolver", a, Zero, Resolver)},
           NEW r, r = Handled("bens", b, e)
    PROVE  StillAccount(r, b, a)
<1>0. /\ a \notin b.known /\ a # Zero /\ Resolver # Zero
      /\ b.reverse[a] \in Reverses
  BY AccountIsNoName, BensFields, ChainAssumption
<1>1. CASE e = Event("NodeTransfer", a, Zero, a)
  <2>1. r = IF Claimed(b, a) THEN [b EXCEPT !.reverse[a] = [b.reverse[a] EXCEPT !.owner = a]] ELSE b
    BY <1>0, <1>1 DEF Handled, HandleBens, Event, BensNodeTransferred, BensStores
  <2>2. PICK d : d = [b.reverse[a] EXCEPT !.owner = a]
    OBVIOUS
  <2>3. d \in Reverses /\ d.owner = a
    BY <1>0, <2>2 DEF Reverses, Holders
  <2>4. PICK q : q = [b EXCEPT !.reverse[a] = d]
    OBVIOUS
  <2>5. Claimed(b, a) => StillAccount(q, b, a)
    BY <1>0, <2>3, <2>4, ReverseKept
  <2>6. r = IF Claimed(b, a) THEN q ELSE b
    BY <2>1, <2>2, <2>4
  <2> QED
    BY <2>5, <2>6, StillAccountItself
<1>2. CASE e = Event("NewResolver", a, Zero, Resolver)
  <2>1. r = IF Claimed(b, a) THEN [b EXCEPT !.reverse[a] = [b.reverse[a] EXCEPT !.resolver = Resolver]] ELSE b
    BY <1>0, <1>2 DEF Handled, HandleBens, Event, BensNewResolver, BensStores
  <2>2. PICK d : d = [b.reverse[a] EXCEPT !.resolver = Resolver]
    OBVIOUS
  <2>3. d \in Reverses /\ d.owner = b.reverse[a].owner
    BY <1>0, <2>2 DEF Reverses
  <2>4. PICK q : q = [b EXCEPT !.reverse[a] = d]
    OBVIOUS
  <2>5. StillAccount(q, b, a)
    BY <2>3, <2>4, ReverseKept DEF Claimed
  <2>6. r = IF Claimed(b, a) THEN q ELSE b
    BY <2>1, <2>2, <2>4
  <2> QED
    BY <2>5, <2>6, StillAccountItself
<1> QED
  BY <1>1, <1>2

\* A reverse name claims nothing.
LEMMA BensNameChangedHandled ==
    ASSUME NEW b \in BensStores, NEW a \in Account, NEW v,
           NEW r, r = Handled("bens", b, Event("NameChanged", a, Zero, v))
    PROVE  StillAccount(r, b, a)
<1>0. b.reverse[a] \in Reverses
  BY BensFields
<1>1. r = IF v # Empty /\ Claimed(b, a)
            THEN [b EXCEPT !.reverse[a] = [b.reverse[a] EXCEPT !.resolver = Resolver]] ELSE b
  BY DEF Handled, HandleBens, Event, BensNameChanged, BensStores
<1>2. PICK d : d = [b.reverse[a] EXCEPT !.resolver = Resolver]
  OBVIOUS
<1>3. d \in Reverses /\ d.owner = b.reverse[a].owner
  BY <1>0, <1>2 DEF Reverses
<1>4. PICK q : q = [b EXCEPT !.reverse[a] = d]
  OBVIOUS
<1>5. StillAccount(q, b, a)
  BY <1>3, <1>4, ReverseKept DEF Claimed
<1>6. r = IF v # Empty /\ Claimed(b, a) THEN q ELSE b
  BY <1>1, <1>2, <1>4
<1> QED
  BY <1>5, <1>6, StillAccountItself

\* A claim claims the node, and counts it if it was not claimed.
LEMMA BensReverseClaimedHandled ==
    ASSUME NEW b \in BensStores, NEW a \in Account,
           NEW r, r = Handled("bens", b, Event("ReverseClaimed", a, Zero, a))
    PROVE  /\ AroundAccount(r, b, a) /\ Claimed(r, a)
           /\ r.subdomainCount["addr.reverse"] =
                IF Claimed(b, a) THEN b.subdomainCount["addr.reverse"]
                                 ELSE b.subdomainCount["addr.reverse"] + 1
<1>0. PICK s : s = "addr.reverse"
  OBVIOUS
<1>1. /\ b.reverse[a] \in Reverses /\ b.subdomainCount \in [TLD \cup {s} -> Nat]
      /\ a # Zero /\ s \notin TLD
  BY <1>0, AccountIsNoName, BensFields, ChainAssumption
<1>2. PICK d, c : /\ d = [b.reverse[a] EXCEPT !.owner = a]
                  /\ c = [b.subdomainCount EXCEPT ![s] =
                            IF Claimed(b, a) THEN b.subdomainCount[s] ELSE b.subdomainCount[s] + 1]
  OBVIOUS
<1>3. d \in Reverses /\ d.owner = a
  BY <1>1, <1>2 DEF Reverses, Holders
<1>4. /\ c \in [TLD \cup {s} -> Nat] /\ \A t \in TLD : c[t] = b.subdomainCount[t]
      /\ c[s] = IF Claimed(b, a) THEN b.subdomainCount[s] ELSE b.subdomainCount[s] + 1
  BY <1>1, <1>2
<1>5. PICK q : q = ReverseIs(b, a, d, c)
  OBVIOUS
<1>6. AroundAccount(q, b, a) /\ q.subdomainCount = c /\ q.reverse[a] = d
  <2>1. c \in [TLD \cup {"addr.reverse"} -> Nat] /\ \A t \in TLD : c[t] = b.subdomainCount[t]
    BY <1>0, <1>4
  <2> QED
    BY <1>3, <1>5, <2>1, ReverseWritten
<1>7. r = q
  <2>1. r = [b EXCEPT !.reverse[a] = d, !.subdomainCount = c]
    BY <1>0, <1>2 DEF Handled, HandleBens, Event, BensReverseClaimed, BensStores
  <2> QED
    BY <1>5, <2>1 DEF BensStores, ReverseIs, BensOf
<1> QED
  BY <1>0, <1>1, <1>3, <1>4, <1>6, <1>7 DEF Claimed

\* A naming claims the node, and counts it if it was not claimed.
LEMMA BensNamingHandled ==
    ASSUME NEW b \in BensStores, NEW a \in Account, NEW v \in Name \cup {Empty},
           NEW resolving \in ResolvingOf(a), NEW r, r = Fold("bens", b, NamingBlock(a, v, resolving))
    PROVE  /\ AroundAccount(r, b, a) /\ Claimed(r, a)
           /\ r.subdomainCount["addr.reverse"] =
                IF Claimed(b, a) THEN b.subdomainCount["addr.reverse"]
                                 ELSE b.subdomainCount["addr.reverse"] + 1
<1>1. PICK s1 : s1 = Handled("bens", b, Event("NodeTransfer", a, Zero, a))
  OBVIOUS
<1>2. StillAccount(s1, b, a) /\ s1 \in BensStores
  <2>1. StillAccount(s1, b, a)
    BY <1>1, BensReversePassed
  <2> QED
    BY <2>1 DEF StillAccount, AroundAccount
<1>3. PICK s2 : s2 = Fold("bens", s1, resolving)
  OBVIOUS
<1>4. StillAccount(s2, s1, a) /\ s2 \in BensStores
  <2>1. CASE resolving = << >>
    <3>1. s2 = s1
      BY <1>3, <2>1, FoldOfNone
    <3> QED
      BY <1>2, <3>1, StillAccountItself
  <2>2. CASE resolving = <<Event("NewResolver", a, Zero, Resolver)>>
    <3>1. s2 = Handled("bens", s1, Event("NewResolver", a, Zero, Resolver))
      BY <1>3, <2>2, FoldOfOne
    <3>2. PICK q : q = Handled("bens", s1, Event("NewResolver", a, Zero, Resolver))
      OBVIOUS
    <3>3. StillAccount(q, s1, a)
      BY <1>2, <3>2, BensReversePassed
    <3> QED
      BY <3>1, <3>2, <3>3 DEF StillAccount, AroundAccount
  <2> QED
    BY <2>1, <2>2 DEF ResolvingOf
<1>5. PICK s3 : s3 = Handled("bens", s2, Event("NameChanged", a, Zero, v))
  OBVIOUS
<1>6. StillAccount(s3, s2, a) /\ s3 \in BensStores
  BY <1>4, <1>5, BensNameChangedHandled DEF StillAccount, AroundAccount
<1>7. PICK s4 : s4 = Handled("bens", s3, Event("ReverseClaimed", a, Zero, a))
  OBVIOUS
<1>8. /\ AroundAccount(s4, s3, a) /\ Claimed(s4, a)
      /\ s4.subdomainCount["addr.reverse"] =
           IF Claimed(s3, a) THEN s3.subdomainCount["addr.reverse"]
                             ELSE s3.subdomainCount["addr.reverse"] + 1
  BY <1>6, <1>7, BensReverseClaimedHandled
<1>9. r = s4
  <2>1. "bens" \in {"arcns", "bens"}
    OBVIOUS
  <2> QED
    BY <1>1, <1>3, <1>5, <1>7, <2>1, NamingFolded
<1>10. StillAccount(s3, b, a)
  <2>1. StillAccount(s2, b, a)
    BY <1>2, <1>4, StillAccountIsTransitive
  <2> QED
    BY <1>6, <2>1, StillAccountIsTransitive
<1>11. AroundAccount(s4, b, a)
  BY <1>8, <1>10 DEF StillAccount, AroundAccount
<1> QED
  BY <1>8, <1>9, <1>10, <1>11 DEF StillAccount

------------------------------------------------------------------------------
(* The store of the BENS subgraph follows the chain.                         *)

Taken   == {n \in Name : tokenOwner[n] # Zero}
Primary == {a \in Account : primary[a] # Zero}

BensNameFollows(b, n) ==
    /\ n \in b.known <=> tokenOwner[n] # Zero
    /\ b.domain[n].expiryDate = term[n]
    /\ ~SharesLabel(n) => /\ b.domain[n].registrant = tokenOwner[n]
                          /\ b.domain[n].owner \in {tokenOwner[n], nodeOwner[n]}
                          /\ b.registration[Labelled(n)].expiryDate = term[n]

\* A label has a Registration once a name of it is registered, and it is of one such name.
LabelFollows(b, l) ==
    LET k == b.registration[l].domain
    IN /\ k = Unset => \A n \in Taken : Labelled(n) # l
       /\ k # Unset => k \in Taken /\ Labelled(k) = l

CountsFollow(b) ==
    /\ IsFiniteSet(Taken)
    /\ \A t \in TLD : b.subdomainCount[t] = Cardinality({n \in Taken : TldOf(n) = t})

ReverseFollows(b) ==
    /\ \A a \in Account : Claimed(b, a) <=> primary[a] # Zero
    /\ IsFiniteSet(Primary) /\ b.subdomainCount["addr.reverse"] = Cardinality(Primary)

BensFollows(b) ==
    /\ b \in BensStores
    /\ \A n \in Name : BensNameFollows(b, n)
    /\ \A l \in Label : LabelFollows(b, l)
    /\ CountsFollow(b) /\ ReverseFollows(b)

\* What the names and labels that a transaction is not about need.
LEMMA AroundFollows ==
    ASSUME NEW b, BensFollows(b), NEW n \in Name, NEW r, Around(r, b, n),
           tokenOwner'[n] # Zero,
           \A m \in Name \ {n} : /\ tokenOwner'[m] = tokenOwner[m] /\ nodeOwner'[m] = nodeOwner[m]
                                 /\ term'[m] = term[m]
    PROVE  /\ r \in BensStores
           /\ \A m \in Name \ {n} : BensNameFollows(r, m)'
           /\ \A l \in Label \ {Labelled(n)} : LabelFollows(r, l)'
           /\ SharesLabel(n)' <=> SharesLabel(n)
<1>1. r \in BensStores
  BY DEF Around
<1>2. ASSUME NEW m \in Name \ {n} PROVE BensNameFollows(r, m)'
  <2>1. /\ m \in r.known <=> m \in b.known
        /\ r.domain[m].expiryDate = b.domain[m].expiryDate
    BY DEF Around
  <2>2. BensNameFollows(b, m)
    BY DEF BensFollows
  <2>3. CASE Labelled(m) = Labelled(n)
    <3>1. SharesLabel(m)'
      BY <2>3 DEF SharesLabel
    <3> QED
      BY <2>1, <2>2, <3>1 DEF BensNameFollows
  <2>4. CASE Labelled(m) # Labelled(n)
    <3>1. SharesLabel(m)' <=> SharesLabel(m)
      BY <2>4 DEF SharesLabel
    <3>2. /\ r.domain[m].owner = b.domain[m].owner
          /\ r.domain[m].registrant = b.domain[m].registrant
          /\ r.registration[Labelled(m)] = b.registration[Labelled(m)]
      BY <2>4, NameParts DEF Around
    <3> QED
      BY <2>1, <2>2, <3>1, <3>2 DEF BensNameFollows
  <2> QED
    BY <2>3, <2>4
<1>3. ASSUME NEW l \in Label \ {Labelled(n)} PROVE LabelFollows(r, l)'
  <2>1. r.registration[l] = b.registration[l] /\ LabelFollows(b, l)
    BY DEF Around, BensFollows
  <2>2. \A m \in Name : Labelled(m) = l => (m \in Taken' <=> m \in Taken)
    BY DEF Taken
  <2>3. Taken \subseteq Name /\ Taken' \subseteq Name
    BY DEF Taken
  <2> QED
    BY <2>1, <2>2, <2>3 DEF LabelFollows
<1>4. SharesLabel(n)' <=> SharesLabel(n)
  BY DEF SharesLabel
<1> QED
  BY <1>1, <1>2, <1>3, <1>4

\* The Registration of a label that no other TLD shares is of its one name.
LEMMA RegistrationIsTaken ==
    ASSUME NEW b, BensFollows(b), NEW n \in Name
    PROVE  /\ InLabel(b, n)
           /\ n \in Taken => b.registration[Labelled(n)].domain # Unset
           /\ n \in Taken /\ ~SharesLabel(n) => b.registration[Labelled(n)].domain = n
<1>0. PICK k : k = b.registration[Labelled(n)].domain
  OBVIOUS
<1>1. LabelFollows(b, Labelled(n))
  BY NameParts DEF BensFollows
<1>2. k # Unset => k \in Name /\ tokenOwner[k] # Zero /\ Labelled(k) = Labelled(n)
  BY <1>0, <1>1 DEF LabelFollows, Taken
<1>3. InLabel(b, n)
  BY <1>0, <1>2 DEF InLabel
<1>4. n \in Taken => k # Unset
  BY <1>0, <1>1 DEF LabelFollows
<1>5. k # Unset /\ k # n => SharesLabel(n)
  BY <1>2 DEF SharesLabel
<1> QED
  BY <1>0, <1>3, <1>4, <1>5

\* A transaction about a registered name that is not registered again.
LEMMA BensNameEventKeeps ==
    ASSUME NEW b, BensFollows(b), NEW n \in Name, NEW r, Around(r, b, n),
           r.known = b.known, r.reverse = b.reverse, r.subdomainCount = b.subdomainCount,
           r.registration[Labelled(n)].domain = b.registration[Labelled(n)].domain,
           BensNameFollows(r, n)', tokenOwner[n] # Zero, tokenOwner'[n] # Zero, primary' = primary,
           \A m \in Name \ {n} : /\ tokenOwner'[m] = tokenOwner[m] /\ nodeOwner'[m] = nodeOwner[m]
                                 /\ term'[m] = term[m]
    PROVE  BensFollows(r)'
<1>1. /\ r \in BensStores
      /\ \A m \in Name \ {n} : BensNameFollows(r, m)'
      /\ \A l \in Label \ {Labelled(n)} : LabelFollows(r, l)'
  BY AroundFollows
<1>2. Taken' = Taken /\ Primary' = Primary
  BY DEF Taken, Primary
<1>3. LabelFollows(r, Labelled(n))'
  <2>1. LabelFollows(b, Labelled(n))
    BY NameParts DEF BensFollows
  <2> QED
    BY <1>2, <2>1 DEF LabelFollows
<1>4. CountsFollow(r)'
  BY <1>2 DEF CountsFollow, BensFollows
<1>5. ReverseFollows(r)'
  BY <1>2 DEF ReverseFollows, BensFollows, Claimed
<1>6. \A m \in Name : BensNameFollows(r, m)'
  BY <1>1
<1>7. \A l \in Label : LabelFollows(r, l)'
  BY <1>1, <1>3
<1> QED
  BY <1>1, <1>4, <1>5, <1>6, <1>7 DEF BensFollows

\* Each transaction emits a block that the handlers follow: a renewal,
LEMMA BensRenewFollows ==
    ASSUME ChainInv, NEW st, BensFollows(st), NEW n \in Name, Renew(n)
    PROVE  \E b \in Seq(Events) : feed' = Append(feed, b) /\ BensFollows(Fold("bens", st, b))'
<1>1. PICK t : t = term'[n]
  OBVIOUS
<1>2. t \in Nat /\ tokenOwner[n] # Zero /\ \A m \in Name \ {n} : term'[m] = term[m]
  BY <1>1 DEF Renew, ChainInv, ChainTypeOK
<1>3. PICK e, r : e = Event("NameRenewed", n, t, Zero) /\ r = Handled("bens", st, e)
  OBVIOUS
<1>4. st \in BensStores /\ BensNameFollows(st, n)
  BY DEF BensFollows
<1>5. n \in st.known /\ st.registration[Labelled(n)].domain # Unset
  BY <1>2, <1>4, RegistrationIsTaken DEF BensNameFollows, Taken
<1>6. /\ Around(r, st, n) /\ r.known = st.known
      /\ r.reverse = st.reverse /\ r.subdomainCount = st.subdomainCount
      /\ r.domain[n].expiryDate = t /\ r.domain[n].owner = st.domain[n].owner
      /\ r.domain[n].registrant = st.domain[n].registrant
      /\ r.registration[Labelled(n)].domain = st.registration[Labelled(n)].domain
      /\ r.registration[Labelled(n)].expiryDate = t
  BY <1>2, <1>3, <1>4, <1>5, BensRenewedHandled
<1>7. BensFollows(r)'
  <2>1. UNCHANGED <<tokenOwner, nodeOwner, primary>>
    BY DEF Renew
  <2>2. SharesLabel(n)' <=> SharesLabel(n)
    BY <2>1 DEF SharesLabel
  <2>3. BensNameFollows(r, n)'
    BY <1>1, <1>4, <1>6, <2>1, <2>2 DEF BensNameFollows
  <2> QED
    BY <1>2, <1>6, <2>1, <2>3, BensNameEventKeeps
<1>8. <<e>> \in Seq(Events)
  BY <1>2, <1>3, EventIs DEF Kinds, Values
<1>9. feed' = Append(feed, <<e>>)
  BY <1>1, <1>3 DEF Renew, Emit
<1>10. Fold("bens", st, <<e>>) = r
  BY <1>3, FoldOfOne
<1> QED
  BY <1>7, <1>8, <1>9, <1>10

\* a transfer of the token,
LEMMA BensTransferFollows ==
    ASSUME ChainInv, NEW st, BensFollows(st), NEW n \in Name, NEW a \in Account, TransferName(n, a)
    PROVE  \E b \in Seq(Events) : feed' = Append(feed, b) /\ BensFollows(Fold("bens", st, b))'
<1>1. PICK from : from = tokenOwner[n]
  OBVIOUS
<1>2. from \in Holders /\ from # Zero /\ a \in Holders
  BY <1>1 DEF TransferName, ChainInv, ChainTypeOK, Holders
<1>3. PICK e, r : e = Event("Transfer", n, from, a) /\ r = Handled("bens", st, e)
  OBVIOUS
<1>4. st \in BensStores /\ BensNameFollows(st, n)
  BY DEF BensFollows
<1>5. InLabel(st, n) /\ (~SharesLabel(n) => st.registration[Labelled(n)].domain = n)
  BY <1>1, <1>2, RegistrationIsTaken DEF Taken
<1>6. /\ Still(r, st, n)
      /\ from # Zero /\ st.registration[Labelled(n)].domain = n =>
           r.domain[n].owner = a /\ r.domain[n].registrant = a
  BY <1>2, <1>3, <1>4, <1>5, BensTransferHandled
<1>7. BensFollows(r)'
  <2>1. tokenOwner'[n] = a /\ a # Zero /\ \A m \in Name \ {n} : tokenOwner'[m] = tokenOwner[m]
    BY AccountIsNoName DEF TransferName, ChainInv, ChainTypeOK
  <2>2. UNCHANGED <<nodeOwner, term, primary>>
    BY DEF TransferName
  <2>3. SharesLabel(n)' <=> SharesLabel(n)
    BY <2>1 DEF SharesLabel
  <2>4. BensNameFollows(r, n)'
    <3>1. /\ n \in r.known <=> n \in st.known
          /\ r.domain[n].expiryDate = st.domain[n].expiryDate /\ r.registration = st.registration
      BY <1>6 DEF Still
    <3>2. ~SharesLabel(n) => r.domain[n].owner = a /\ r.domain[n].registrant = a
      BY <1>2, <1>5, <1>6
    <3> QED
      BY <1>1, <1>2, <1>4, <2>1, <2>2, <2>3, <3>1, <3>2 DEF BensNameFollows
  <2>5. /\ Around(r, st, n) /\ r.known = st.known /\ r.registration = st.registration
        /\ r.reverse = st.reverse /\ r.subdomainCount = st.subdomainCount
    BY <1>6 DEF Still
  <2> QED
    BY <1>1, <1>2, <2>1, <2>2, <2>4, <2>5, BensNameEventKeeps
<1>8. <<e>> \in Seq(Events)
  BY <1>2, <1>3, EventIs DEF Kinds, Values, Holders
<1>9. feed' = Append(feed, <<e>>)
  BY <1>1, <1>3 DEF TransferName, Emit
<1>10. Fold("bens", st, <<e>>) = r
  BY <1>3, FoldOfOne
<1> QED
  BY <1>7, <1>8, <1>9, <1>10

\* Of a node: its owner is the registry's afterwards, or what it was.
LEMMA NodeEventKeeps ==
    ASSUME ChainInv, NEW st, BensFollows(st), NEW n \in Name, tokenOwner[n] # Zero,
           NEW r, Still(r, st, n),
           r.domain[n].registrant = st.domain[n].registrant,
           \/ r.domain[n].owner = st.domain[n].owner /\ nodeOwner' = nodeOwner
           \/ r.domain[n].owner = nodeOwner'[n],
           \A m \in Name \ {n} : nodeOwner'[m] = nodeOwner[m],
           UNCHANGED <<tokenOwner, term, primary>>
    PROVE  BensFollows(r)'
<1>1. /\ Around(r, st, n) /\ r.known = st.known /\ r.registration = st.registration
      /\ r.reverse = st.reverse /\ r.subdomainCount = st.subdomainCount
      /\ r.domain[n].expiryDate = st.domain[n].expiryDate
  BY DEF Still
<1>2. SharesLabel(n)' <=> SharesLabel(n)
  BY DEF SharesLabel
<1>3. BensNameFollows(st, n)
  BY DEF BensFollows
<1>4. BensNameFollows(r, n)'
  BY <1>1, <1>2, <1>3 DEF BensNameFollows
<1> QED
  BY <1>1, <1>4, BensNameEventKeeps

\* a transfer of the node,
LEMMA BensGiveNodeFollows ==
    ASSUME ChainInv, NEW st, BensFollows(st), NEW n \in Name, NEW a \in Holders, GiveNode(n, a)
    PROVE  \E b \in Seq(Events) : feed' = Append(feed, b) /\ BensFollows(Fold("bens", st, b))'
<1>1. PICK e, r : e = Event("NodeTransfer", n, Zero, a) /\ r = Handled("bens", st, e)
  OBVIOUS
<1>2. st \in BensStores /\ BensNameFollows(st, n) /\ tokenOwner[n] # Zero /\ n \in st.known
  BY DEF BensFollows, BensNameFollows, GiveNode
<1>3. /\ Still(r, st, n) /\ r.domain[n].registrant = st.domain[n].registrant
      /\ r.domain[n].owner = IF n \in st.known THEN a ELSE st.domain[n].owner
  BY <1>1, <1>2, BensNodeTransferHandled
<1>4. BensFollows(r)'
  <2>1. nodeOwner'[n] = a /\ \A m \in Name \ {n} : nodeOwner'[m] = nodeOwner[m]
    BY DEF GiveNode, ChainInv, ChainTypeOK
  <2> QED
    BY <1>2, <1>3, <2>1, NodeEventKeeps DEF GiveNode
<1>5. <<e>> \in Seq(Events)
  BY <1>1, EventIs DEF Kinds, Values, Holders
<1>6. feed' = Append(feed, <<e>>)
  BY <1>1 DEF GiveNode, Emit
<1>7. Fold("bens", st, <<e>>) = r
  BY <1>1, FoldOfOne
<1> QED
  BY <1>4, <1>5, <1>6, <1>7

\* a change of the resolver,
LEMMA BensSetResolverFollows ==
    ASSUME ChainInv, NEW st, BensFollows(st), NEW n \in Name, NEW v \in {Resolver, Zero},
           SetResolver(n, v)
    PROVE  \E b \in Seq(Events) : feed' = Append(feed, b) /\ BensFollows(Fold("bens", st, b))'
<1>1. PICK e, r : e = Event("NewResolver", n, Zero, v) /\ r = Handled("bens", st, e)
  OBVIOUS
<1>2. st \in BensStores /\ tokenOwner[n] # Zero
  BY DEF BensFollows, SetResolver, ChainInv, NodesAreOfNames
<1>3. /\ Still(r, st, n) /\ r.domain[n].registrant = st.domain[n].registrant
      /\ r.domain[n].owner = st.domain[n].owner
  BY <1>1, <1>2, BensResolverHandled
<1>4. BensFollows(r)'
  BY <1>2, <1>3, NodeEventKeeps DEF SetResolver
<1>5. <<e>> \in Seq(Events)
  BY <1>1, EventIs DEF Kinds, Values, Holders
<1>6. feed' = Append(feed, <<e>>)
  BY <1>1 DEF SetResolver, Emit
<1>7. Fold("bens", st, <<e>>) = r
  BY <1>1, FoldOfOne
<1> QED
  BY <1>4, <1>5, <1>6, <1>7

\* a change of the address record,
LEMMA BensSetAddrFollows ==
    ASSUME ChainInv, NEW st, BensFollows(st), NEW n \in Name, NEW a \in Holders, SetAddr(n, a)
    PROVE  \E b \in Seq(Events) : feed' = Append(feed, b) /\ BensFollows(Fold("bens", st, b))'
<1>1. PICK e, r : e = Event("AddrChanged", n, Zero, a) /\ r = Handled("bens", st, e)
  OBVIOUS
<1>2. st \in BensStores /\ tokenOwner[n] # Zero
  BY DEF BensFollows, SetAddr, ChainInv, NodesAreOfNames
<1>3. /\ Still(r, st, n) /\ r.domain[n].registrant = st.domain[n].registrant
      /\ r.domain[n].owner = st.domain[n].owner
  BY <1>1, <1>2, BensAddrHandled
<1>4. BensFollows(r)'
  BY <1>2, <1>3, NodeEventKeeps DEF SetAddr
<1>5. <<e>> \in Seq(Events)
  BY <1>1, EventIs DEF Kinds, Values, Holders
<1>6. feed' = Append(feed, <<e>>)
  BY <1>1 DEF SetAddr, Emit
<1>7. Fold("bens", st, <<e>>) = r
  BY <1>1, FoldOfOne
<1> QED
  BY <1>4, <1>5, <1>6, <1>7

\* A naming claims one reverse node more, or one that is claimed.
LEMMA NamingKeepsReverse ==
    ASSUME ChainInv, NEW b, ReverseFollows(b), NEW a \in Account,
           NEW v \in Name \cup {Empty}, Named(a, v), NEW r, AroundAccount(r, b, a), Claimed(r, a),
           r.subdomainCount["addr.reverse"] =
                IF Claimed(b, a) THEN b.subdomainCount["addr.reverse"]
                                 ELSE b.subdomainCount["addr.reverse"] + 1
    PROVE  ReverseFollows(r)'
<1>1. v # Zero
  BY ChainAssumption
<1>2. primary' \in [Account -> Name \cup {Empty, Zero}] /\ primary'[a] = v
      /\ \A c \in Account \ {a} : primary'[c] = primary[c]
  BY DEF Named, ChainInv, ChainTypeOK
<1>3. Primary' = Primary \cup {a} /\ (a \in Primary <=> Claimed(b, a))
  BY <1>1, <1>2 DEF Primary, ReverseFollows
<1>4. ASSUME NEW c \in Account PROVE Claimed(r, c) <=> primary'[c] # Zero
  BY <1>1, <1>2 DEF ReverseFollows, AroundAccount, Claimed
<1>5. IsFiniteSet(Primary) /\ b.subdomainCount["addr.reverse"] = Cardinality(Primary)
  BY DEF ReverseFollows
<1>6. PICK S : S = Primary
  OBVIOUS
<1>7. /\ IsFiniteSet(S \cup {a})
      /\ Cardinality(S \cup {a}) = IF a \in S THEN Cardinality(S) ELSE Cardinality(S) + 1
  BY <1>5, <1>6, FS_AddElement
<1>8. IsFiniteSet(Primary') /\ r.subdomainCount["addr.reverse"] = Cardinality(Primary')
  BY <1>3, <1>5, <1>6, <1>7
<1> QED
  BY <1>4, <1>8 DEF ReverseFollows, Claimed

\* a naming,
LEMMA BensSetPrimaryFollows ==
    ASSUME ChainInv, NEW st, BensFollows(st), NEW a \in Account,
           NEW v \in Name \cup {Empty}, SetPrimary(a, v)
    PROVE  \E b \in Seq(Events) : feed' = Append(feed, b) /\ BensFollows(Fold("bens", st, b))'
<1>1. PICK y \in ResolvingOf(a) : NamingEvents(a, v) = NamingBlock(a, v, y)
  BY NamingEventsAre
<1>2. PICK b, r : b = NamingBlock(a, v, y) /\ r = Fold("bens", st, b)
  OBVIOUS
<1>3. b \in Seq(Events)
  BY <1>2, NamingBlockTyped
<1>4. feed' = Append(feed, b)
  BY <1>1, <1>2 DEF SetPrimary, Emit
<1>5. /\ AroundAccount(r, st, a) /\ Claimed(r, a)
      /\ r.subdomainCount["addr.reverse"] =
           IF Claimed(st, a) THEN st.subdomainCount["addr.reverse"]
                             ELSE st.subdomainCount["addr.reverse"] + 1
  <2>1. r = Fold("bens", st, NamingBlock(a, v, y)) /\ st \in BensStores
    BY <1>2 DEF BensFollows
  <2> QED
    BY <2>1, BensNamingHandled
<1>6. ReverseFollows(r)'
  BY <1>5, NamingKeepsReverse DEF SetPrimary, BensFollows
<1>7. UNCHANGED <<tokenOwner, nodeOwner, term>> /\ Taken' = Taken
  BY DEF SetPrimary, Taken
<1>8. ASSUME NEW n \in Name PROVE BensNameFollows(r, n)'
  <2>1. SharesLabel(n)' <=> SharesLabel(n)
    BY <1>7 DEF SharesLabel
  <2>2. BensNameFollows(st, n) /\ r.domain = st.domain /\ r.known = st.known
        /\ r.registration = st.registration
    BY <1>5 DEF BensFollows, AroundAccount
  <2> QED
    BY <1>7, <2>1, <2>2 DEF BensNameFollows
<1>9. ASSUME NEW l \in Label PROVE LabelFollows(r, l)'
  <2>1. LabelFollows(st, l) /\ r.registration = st.registration
    BY <1>5 DEF BensFollows, AroundAccount
  <2> QED
    BY <1>7, <2>1 DEF LabelFollows
<1>10. CountsFollow(r)'
  <2>1. CountsFollow(st) /\ \A t \in TLD : r.subdomainCount[t] = st.subdomainCount[t]
    BY <1>5 DEF BensFollows, AroundAccount
  <2> QED
    BY <1>7, <2>1 DEF CountsFollow
<1>11. BensFollows(r)'
  BY <1>5, <1>6, <1>8, <1>9, <1>10 DEF BensFollows, AroundAccount
<1> QED
  BY <1>2, <1>3, <1>4, <1>11

\* The events before the naming's, of a registration.
LEMMA BensRegisterKeepsName ==
    ASSUME NEW b, BensFollows(b), NEW n \in Name, NEW a \in Account, NEW from,
           NEW resolving \in ResolvingOf(n), NEW address \in AddressOf(n, a),
           NEW q, q = Fold("bens", Fold("bens",
                         Handled("bens", Handled("bens", b, Event("Transfer", n, from, a)),
                                 Event("NodeTransfer", n, Zero, a)), resolving), address)
    PROVE  Still(q, b, n)
<1>0. a \in Holders /\ b \in BensStores /\ InLabel(b, n)
  BY RegistrationIsTaken DEF Holders, BensFollows
<1>1. PICK s1 : s1 = Handled("bens", b, Event("Transfer", n, from, a))
  OBVIOUS
<1>2. Still(s1, b, n) /\ s1 \in BensStores
  BY <1>0, <1>1, BensTransferHandled DEF Still, Around
<1>3. PICK s2 : s2 = Handled("bens", s1, Event("NodeTransfer", n, Zero, a))
  OBVIOUS
<1>4. Still(s2, s1, n) /\ s2 \in BensStores
  BY <1>0, <1>2, <1>3, BensNodeTransferHandled DEF Still, Around
<1>5. PICK s3 : s3 = Fold("bens", s2, resolving)
  OBVIOUS
<1>6. Still(s3, s2, n) /\ s3 \in BensStores
  <2>1. CASE resolving = << >>
    <3>1. s3 = s2
      BY <1>5, <2>1, FoldOfNone
    <3> QED
      BY <1>4, <3>1, StillItself
  <2>2. CASE resolving = <<Event("NewResolver", n, Zero, Resolver)>>
    <3>1. s3 = Handled("bens", s2, Event("NewResolver", n, Zero, Resolver))
      BY <1>5, <2>2, FoldOfOne
    <3>2. PICK p : p = Handled("bens", s2, Event("NewResolver", n, Zero, Resolver))
      OBVIOUS
    <3>3. Still(p, s2, n) /\ p \in BensStores
      <4>1. Resolver \in {Resolver, Zero}
        OBVIOUS
      <4>2. Still(p, s2, n)
        BY <1>4, <3>2, <4>1, BensResolverHandled
      <4> QED
        BY <4>2 DEF Still, Around
    <3> QED
      BY <3>1, <3>2, <3>3
  <2> QED
    BY <2>1, <2>2 DEF ResolvingOf
<1>7. Still(s3, b, n)
  <2>1. Still(s2, b, n)
    BY <1>2, <1>4, StillIsTransitive
  <2> QED
    BY <1>6, <2>1, StillIsTransitive
<1>8. q = Fold("bens", s3, address)
  BY <1>1, <1>3, <1>5
<1>9. CASE address = << >>
  <2>1. q = s3
    BY <1>8, <1>9, FoldOfNone
  <2> QED
    BY <1>7, <2>1
<1>10. CASE address = <<Event("AddrChanged", n, Zero, a)>>
  <2>1. PICK p : p = Handled("bens", s3, Event("AddrChanged", n, Zero, a))
    OBVIOUS
  <2>2. q = p
    BY <1>8, <1>10, <2>1, FoldOfOne
  <2>3. Still(p, s3, n)
    BY <1>0, <1>6, <2>1, BensAddrHandled
  <2>4. Still(p, b, n)
    BY <1>7, <2>3, StillIsTransitive
  <2> QED
    BY <2>2, <2>4
<1> QED
  BY <1>9, <1>10 DEF AddressOf

\* A registration counts the name if it is a new one.
LEMMA RegisteredCounts ==
    ASSUME NEW b \in BensStores, CountsFollow(b), NEW n \in Name,
           NEW k, k <=> n \in Taken, Taken' = Taken \cup {n},
           NEW r, \A t \in TLD : r.subdomainCount[t] =
                    IF t = TldOf(n) /\ ~k THEN b.subdomainCount[t] + 1 ELSE b.subdomainCount[t]
    PROVE  CountsFollow(r)'
<1>1. PICK T : T = Taken
  OBVIOUS
<1>2. Taken' = T \cup {n} /\ IsFiniteSet(T) /\ (k <=> n \in T)
      /\ \A t \in TLD : b.subdomainCount[t] = Cardinality({m \in T : TldOf(m) = t})
  BY <1>1 DEF CountsFollow
<1>3. IsFiniteSet(T \cup {n})
  BY <1>2, FS_AddElement
<1>4. ASSUME NEW t \in TLD
      PROVE  r.subdomainCount[t] = Cardinality({m \in T \cup {n} : TldOf(m) = t})
  <2>1. PICK S, U : S = {m \in T : TldOf(m) = t} /\ U = {m \in T \cup {n} : TldOf(m) = t}
    OBVIOUS
  <2>2. IsFiniteSet(S)
    <3>1. S \subseteq T
      BY <2>1
    <3> QED
      BY <1>2, <3>1, FS_Subset
  <2>3. b.subdomainCount[t] = Cardinality(S)
    BY <1>2, <2>1
  <2>4. CASE t # TldOf(n) \/ k
    <3>1. U = S
      BY <1>2, <2>1, <2>4
    <3> QED
      BY <2>1, <2>3, <2>4, <3>1
  <2>5. CASE t = TldOf(n) /\ ~k
    <3>1. U = S \cup {n} /\ n \notin S
      BY <1>2, <2>1, <2>5
    <3>2. Cardinality(S \cup {n}) = Cardinality(S) + 1
      BY <2>2, <3>1, FS_AddElement
    <3> QED
      BY <2>1, <2>3, <2>5, <3>1, <3>2
  <2> QED
    BY <2>4, <2>5
<1> QED
  BY <1>2, <1>3, <1>4 DEF CountsFollow

\* The naming's events, if there are any.
LEMMA BensRegisterNames ==
    ASSUME ChainInv, NEW st, BensFollows(st), NEW n \in Name, NEW a \in Account, NEW how \in Hows,
           Register(n, a, how), NEW naming,
           how # "primary" => naming = << >>,
           how = "primary" => \E x \in ResolvingOf(a) : naming = NamingBlock(a, n, x),
           NEW q, Still(q, st, n), NEW p, p = Fold("bens", q, naming)
    PROVE  AroundAccount(p, q, a) /\ ReverseFollows(p)'
<1>1. /\ q \in BensStores /\ q.reverse = st.reverse /\ q.subdomainCount = st.subdomainCount
      /\ ReverseFollows(st)
  BY DEF Still, Around, BensFollows
<1>2. ReverseFollows(q)
  BY <1>1 DEF ReverseFollows, Claimed
<1>3. CASE how = "primary"
  <2>1. PICK x \in ResolvingOf(a) : naming = NamingBlock(a, n, x)
    BY <1>3
  <2>2. p = Fold("bens", q, NamingBlock(a, n, x)) /\ n \in Name \cup {Empty}
    BY <2>1
  <2>3. PICK r : r = Fold("bens", q, NamingBlock(a, n, x))
    OBVIOUS
  <2>4. /\ AroundAccount(r, q, a) /\ Claimed(r, a)
        /\ r.subdomainCount["addr.reverse"] =
             IF Claimed(q, a) THEN q.subdomainCount["addr.reverse"]
                              ELSE q.subdomainCount["addr.reverse"] + 1
    BY <1>1, <2>2, <2>3, BensNamingHandled
  <2>5. Named(a, n)
    BY <1>3 DEF Register
  <2>6. ReverseFollows(r)'
    BY <1>2, <2>2, <2>4, <2>5, NamingKeepsReverse
  <2> QED
    BY <2>2, <2>3, <2>4, <2>6
<1>4. CASE how # "primary"
  <2>1. p = q
    BY <1>4, FoldOfNone
  <2>2. primary' = primary
    BY <1>4 DEF Register
  <2>3. ReverseFollows(q)'
    BY <1>2, <2>2 DEF ReverseFollows, Claimed, Primary
  <2>4. AroundAccount(q, q, a)
    BY <1>1 DEF AroundAccount
  <2> QED
    BY <2>1, <2>3, <2>4
<1> QED
  BY <1>3, <1>4

\* and a registration, with the naming it may contain.
LEMMA BensRegisterFollows ==
    ASSUME ChainInv, NEW st, BensFollows(st), NEW n \in Name, NEW a \in Account, NEW how \in Hows,
           Register(n, a, how)
    PROVE  \E b \in Seq(Events) : feed' = Append(feed, b) /\ BensFollows(Fold("bens", st, b))'
<1>1. PICK resolving \in ResolvingOf(n), address \in AddressOf(n, a), naming \in Seq(Events) :
              /\ how = "bare" => address = << >>
              /\ how # "bare" => address = <<Event("AddrChanged", n, Zero, a)>>
              /\ how # "primary" => naming = << >>
              /\ how = "primary" => \E x \in ResolvingOf(a) : naming = NamingBlock(a, n, x)
              /\ feed' = Append(feed, RegisterBlock(n, a, tokenOwner[n], resolving, address, naming,
                                                    term'[n]))
  BY RegisterEmits
<1>2. PICK from, t : from = tokenOwner[n] /\ t = term'[n]
  OBVIOUS
<1>3. from \in Holders /\ t \in Nat /\ a \in Holders /\ a # Zero
  BY <1>2, AccountIsNoName DEF Register, ChainInv, ChainTypeOK, Holders
<1>4. /\ tokenOwner'[n] = a /\ nodeOwner'[n] = a /\ term'[n] = t
      /\ \A m \in Name \ {n} : /\ tokenOwner'[m] = tokenOwner[m] /\ nodeOwner'[m] = nodeOwner[m]
                               /\ term'[m] = term[m]
  BY <1>2 DEF Register, ChainInv, ChainTypeOK
<1>5. PICK q : q = Fold("bens", Fold("bens",
                         Handled("bens", Handled("bens", st, Event("Transfer", n, from, a)),
                                 Event("NodeTransfer", n, Zero, a)), resolving), address)
  OBVIOUS
<1>6. Still(q, st, n)
  BY <1>5, BensRegisterKeepsName
<1>7. PICK p : p = Fold("bens", q, naming)
  OBVIOUS
<1>8. AroundAccount(p, q, a) /\ ReverseFollows(p)'
  BY <1>1, <1>6, <1>7, BensRegisterNames
<1>9. /\ p \in BensStores /\ Around(p, st, n) /\ p.known = st.known
      /\ p.registration = st.registration /\ \A x \in TLD : p.subdomainCount[x] = st.subdomainCount[x]
  BY <1>6, <1>8 DEF AroundAccount, Still, Around
<1>10. PICK r : r = Handled("bens", p, Event("NameRegistered", n, t, a))
  OBVIOUS
<1>11. /\ Around(r, p, n) /\ r.known = p.known \cup {n} /\ r.reverse = p.reverse
       /\ r.domain[n].expiryDate = t /\ r.domain[n].owner = a /\ r.domain[n].registrant = a
       /\ r.registration[Labelled(n)].domain =
            IF p.registration[Labelled(n)].domain = Unset THEN n ELSE p.registration[Labelled(n)].domain
       /\ r.registration[Labelled(n)].expiryDate = t
       /\ r.subdomainCount =
            [p.subdomainCount EXCEPT ![TldOf(n)] =
                IF n \in p.known THEN p.subdomainCount[TldOf(n)] ELSE p.subdomainCount[TldOf(n)] + 1]
  BY <1>3, <1>9, <1>10, BensRegisteredHandled
<1>12. Around(r, st, n)
  BY <1>9, <1>11, AroundIsTransitive
<1>13. /\ r \in BensStores
       /\ \A m \in Name \ {n} : BensNameFollows(r, m)'
       /\ \A l \in Label \ {Labelled(n)} : LabelFollows(r, l)'
  BY <1>3, <1>4, <1>12, AroundFollows
<1>14. Taken' = Taken \cup {n}
  BY <1>3, <1>4 DEF Taken
<1>15. BensNameFollows(r, n)'
  BY <1>3, <1>4, <1>11 DEF BensNameFollows
<1>16. LabelFollows(r, Labelled(n))'
  <2>1. PICK k, j : k = st.registration[Labelled(n)].domain /\ j = r.registration[Labelled(n)].domain
    OBVIOUS
  <2>2. j = IF k = Unset THEN n ELSE k
    BY <1>9, <1>11, <2>1
  <2>3. k # Unset => k \in Taken /\ Labelled(k) = Labelled(n)
    BY <2>1, NameParts DEF BensFollows, LabelFollows
  <2>4. j # Unset /\ j \in Taken' /\ Labelled(j) = Labelled(n)
    BY <1>14, <2>2, <2>3, NameParts
  <2> QED
    BY <2>1, <2>4 DEF LabelFollows
<1>17. CountsFollow(r)'
  <2>1. n \in st.known <=> n \in Taken
    BY DEF BensFollows, BensNameFollows, Taken
  <2>2. \A x \in TLD : r.subdomainCount[x] =
          IF x = TldOf(n) /\ ~(n \in Taken) THEN st.subdomainCount[x] + 1 ELSE st.subdomainCount[x]
    <3>1. p.subdomainCount \in [TLD \cup {"addr.reverse"} -> Nat] /\ TldOf(n) \in TLD
      BY <1>9, BensFields, NameParts
    <3> QED
      BY <1>9, <1>11, <2>1, <3>1
  <2>3. st \in BensStores /\ CountsFollow(st)
    BY DEF BensFollows
  <2> QED
    BY <1>14, <2>2, <2>3, RegisteredCounts
<1>18. ReverseFollows(r)'
  <2>1. r.subdomainCount["addr.reverse"] = p.subdomainCount["addr.reverse"]
    <3>1. p.subdomainCount \in [TLD \cup {"addr.reverse"} -> Nat] /\ TldOf(n) # "addr.reverse"
      BY <1>9, BensFields, NameParts, ChainAssumption
    <3> QED
      BY <1>11, <3>1
  <2> QED
    BY <1>8, <1>11, <2>1 DEF ReverseFollows, Claimed
<1>19. BensFollows(r)'
  <2>1. \A m \in Name : BensNameFollows(r, m)'
    BY <1>13, <1>15
  <2>2. \A l \in Label : LabelFollows(r, l)'
    BY <1>13, <1>16
  <2> QED
    BY <1>13, <1>17, <1>18, <2>1, <2>2 DEF BensFollows
<1>20. PICK b : b = RegisterBlock(n, a, from, resolving, address, naming, t)
  OBVIOUS
<1>21. b \in Seq(Events) /\ Fold("bens", st, b) = r
  BY <1>3, <1>5, <1>7, <1>10, <1>20, RegisterFolded
<1>22. feed' = Append(feed, b)
  BY <1>1, <1>2, <1>20
<1> QED
  BY <1>19, <1>21, <1>22

\* Every transaction is a block that the handlers follow; the end of the grace period
\* is none.
LEMMA BensChainFollows ==
    ASSUME ChainInv, NEW st, BensFollows(st), ChainNext
    PROVE  \/ feed' = feed /\ BensFollows(st)'
           \/ \E b \in Seq(Events) : feed' = Append(feed, b) /\ BensFollows(Fold("bens", st, b))'
<1>1. ASSUME NEW n \in Name, Lapse(n) PROVE feed' = feed /\ BensFollows(st)'
  <2>1. UNCHANGED <<tokenOwner, nodeOwner, term, primary, feed>>
    BY <1>1 DEF Lapse
  <2>2. BensFollows(st)'
    BY <2>1 DEF BensFollows, BensNameFollows, LabelFollows, CountsFollow, ReverseFollows, Taken,
                Primary, SharesLabel, Claimed
  <2> QED
    BY <2>1, <2>2
<1> QED
  BY <1>1, BensRenewFollows, BensTransferFollows, BensRegisterFollows, BensGiveNodeFollows,
     BensSetAddrFollows, BensSetResolverFollows, BensSetPrimaryFollows DEF ChainNext, Hows, Holders

BensInv ==
    ChainInv /\ \E s : Future("bens", bens, feed, s) /\ BensFollows(s[Len(feed)])

\* The empty store follows the empty chain.
LEMMA BensInitially == ChainInit /\ BensInit => BensInv
<1> SUFFICES ASSUME ChainInit, BensInit PROVE BensInv
  OBVIOUS
<1>1. ChainInv
  BY ChainInitially
<1>2. PICK b : b = bens
  OBVIOUS
<1>3. b \in BensStores
  <2>1. PICK d, rv, rg, c :
          /\ d = [n \in Name |-> [owner |-> Zero, registrant |-> Zero, expiryDate |-> 0,
                                  resolver |-> Unset, resolvedAddress |-> Unset]]
          /\ rv = [a \in Account |-> [owner |-> Zero, resolver |-> Unset]]
          /\ rg = [l \in Label |-> [domain |-> Unset, registrant |-> Zero, expiryDate |-> 0]]
          /\ c = [t \in TLD \cup {"addr.reverse"} |-> 0]
    OBVIOUS
  <2>2. d \in [Name -> BensDomains] /\ rv \in [Account -> Reverses]
    BY <2>1 DEF BensDomains, Reverses, Holders
  <2>3. rg \in [Label -> Registrations] /\ c \in [TLD \cup {"addr.reverse"} -> Nat]
    BY <2>1 DEF Registrations, Holders
  <2>4. b = BensOf(d, {}, rv, rg, c)
    BY <1>2, <2>1 DEF BensInit, BensOf
  <2>5. {} \in SUBSET Name
    OBVIOUS
  <2>6. BensOf(d, {}, rv, rg, c) \in BensStores
    BY <2>2, <2>3, <2>5, BensIs
  <2> QED
    BY <2>4, <2>6
<1>4. /\ \A n \in Name : n \notin b.known /\ b.domain[n].expiryDate = 0
                         /\ b.domain[n].registrant = Zero /\ b.domain[n].owner = Zero
      /\ \A l \in Label : b.registration[l].domain = Unset /\ b.registration[l].expiryDate = 0
      /\ \A a \in Account : b.reverse[a].owner = Zero
      /\ \A t \in TLD \cup {"addr.reverse"} : b.subdomainCount[t] = 0
  BY <1>2 DEF BensInit
<1>5. /\ \A n \in Name : tokenOwner[n] = Zero /\ nodeOwner[n] = Zero /\ term[n] = 0
      /\ \A a \in Account : primary[a] = Zero
  BY DEF ChainInit
<1>6. Taken = {} /\ Primary = {}
  BY <1>5 DEF Taken, Primary
<1>7. \A n \in Name : BensNameFollows(b, n)
  BY <1>4, <1>5, NameParts DEF BensNameFollows
<1>8. \A l \in Label : LabelFollows(b, l)
  BY <1>4, <1>6 DEF LabelFollows
<1>9. CountsFollow(b)
  <2>1. \A t \in TLD : {n \in Taken : TldOf(n) = t} = {}
    BY <1>6
  <2> QED
    BY <1>4, <1>6, <2>1, FS_EmptySet DEF CountsFollow
<1>10. ReverseFollows(b)
  BY <1>4, <1>5, <1>6, FS_EmptySet DEF ReverseFollows, Claimed
<1>11. BensFollows(b)
  BY <1>3, <1>7, <1>8, <1>9, <1>10 DEF BensFollows
<1>12. feed = << >>
  BY DEF ChainInit
<1>13. PICK s : Future("bens", bens, << >>, s) /\ s[Len(<< >>)] = bens
  BY FutureOfNone
<1> QED
  BY <1>1, <1>2, <1>11, <1>12, <1>13 DEF BensInv

\* What follows does not look at the blocks that are still to be indexed.
LEMMA BensFollowsKept ==
    ASSUME NEW st, BensFollows(st), UNCHANGED nameVars
    PROVE  BensFollows(st)'
<1>1. UNCHANGED <<tokenOwner, nodeOwner, term, primary>>
  BY DEF nameVars
<1> QED
  BY <1>1 DEF BensFollows, BensNameFollows, LabelFollows, CountsFollow, ReverseFollows, Taken,
              Primary, SharesLabel, Claimed

\* As of the other subgraph, the end of the future follows the chain throughout.
LEMMA BensStep == BensInv /\ [BensNext]_<<eventVars, bens>> => BensInv'
<1> SUFFICES ASSUME BensInv, [BensNext]_<<eventVars, bens>> PROVE BensInv'
  OBVIOUS
<1>1. PICK s : Future("bens", bens, feed, s) /\ BensFollows(s[Len(feed)])
  BY DEF BensInv
<1>2. PICK f, st, last : f = feed /\ st = bens /\ last = s[Len(f)]
  OBVIOUS
<1>3. /\ f \in Seq(Seq(Events)) /\ \A b \in Seq(Events) : Append(f, b) \in Seq(Seq(Events))
      /\ f # << >> => Tail(f) \in Seq(Seq(Events))
  BY <1>2, FeedTypes DEF BensInv
<1>4. Future("bens", st, f, s) /\ BensFollows(last)
  BY <1>1, <1>2
<1>5. CASE ChainNext /\ UNCHANGED bens
  <2>1. CASE feed' = feed /\ BensFollows(last)'
    <3>1. ChainInv'
      BY <1>2, <1>3, <1>5, <2>1, ChainStep DEF BensInv
    <3>2. feed' = f /\ bens' = st
      BY <1>2, <1>5, <2>1
    <3>3. BensFollows(s[Len(f)])'
      BY <1>2, <2>1
    <3> QED
      BY <1>4, <3>1, <3>2, <3>3 DEF BensInv
  <2>2. ASSUME NEW b \in Seq(Events), feed' = Append(feed, b), BensFollows(Fold("bens", last, b))'
        PROVE  BensInv'
    <3>1. PICK u : /\ Future("bens", st, Append(f, b), u)
                   /\ u[Len(Append(f, b))] = Fold("bens", s[Len(f)], b)
      <4>1. Future("bens", st, f, s)
        BY <1>4
      <4>2. f \in Seq(Seq(Events))
        BY <1>3
      <4> QED
        BY <4>1, <4>2, FutureExtends
    <3>2. feed' = Append(f, b) /\ bens' = st
      BY <1>2, <1>5, <2>2
    <3>3. ChainInv'
      BY <1>3, <1>5, <3>2, ChainStep DEF BensInv
    <3>4. BensFollows(u[Len(Append(f, b))])'
      BY <1>2, <2>2, <3>1
    <3> QED
      BY <3>1, <3>2, <3>3, <3>4 DEF BensInv
  <2>3. ChainInv
    BY DEF BensInv
  <2> QED
    BY <1>4, <1>5, <2>1, <2>2, <2>3, BensChainFollows
<1>6. CASE IndexBensBlock
  <2>1. f # << >> /\ bens' = Fold("bens", st, Head(f)) /\ feed' = Tail(f)
    BY <1>2, <1>6 DEF IndexBensBlock, Fold
  <2>2. PICK u : /\ Future("bens", Fold("bens", st, Head(f)), Tail(f), u)
                 /\ u[Len(Tail(f))] = last
    BY <1>2, <1>3, <1>4, <2>1, FutureStarts
  <2>3. ChainInv'
    BY <1>3, <1>6, <2>1 DEF IndexBensBlock, nameVars, BensInv, ChainInv, ChainTypeOK, NodesAreOfNames
  <2>4. BensFollows(last)'
    BY <1>4, <1>6, BensFollowsKept DEF IndexBensBlock
  <2>5. BensFollows(u[Len(Tail(f))])'
    BY <2>2, <2>4
  <2> QED
    BY <2>1, <2>2, <2>3, <2>5 DEF BensInv
<1>7. CASE UNCHANGED <<eventVars, bens>>
  <2>1. UNCHANGED <<nameVars, feed, bens>>
    BY <1>7 DEF eventVars
  <2>2. ChainInv'
    BY <2>1 DEF nameVars, BensInv, ChainInv, ChainTypeOK, NodesAreOfNames
  <2>3. BensFollows(last)'
    BY <1>4, <2>1, BensFollowsKept
  <2>4. feed' = f /\ bens' = st
    BY <1>2, <2>1
  <2>5. BensFollows(s[Len(f)])'
    BY <1>2, <2>3
  <2> QED
    BY <1>4, <2>2, <2>4, <2>5 DEF BensInv
<1> QED
  BY <1>5, <1>6, <1>7 DEF BensNext

\* Once nothing waits, the end of the future is the store.
LEMMA BensInvIsEnough == BensInv => BensFollowsChain
<1> SUFFICES ASSUME BensInv, feed = << >> PROVE BensFollowsChain
  BY DEF BensFollowsChain
<1>1. BensFollows(bens)
  <2>1. PICK s : Future("bens", bens, feed, s) /\ BensFollows(s[Len(feed)])
    BY DEF BensInv
  <2>2. Len(feed) = 0
    OBVIOUS
  <2> QED
    BY <2>1, <2>2 DEF Future
<1>2. ASSUME NEW t \in TLD
      PROVE  bens.subdomainCount[t] = Quantify(Name, LAMBDA n : TldOf(n) = t /\ tokenOwner[n] # Zero)
  <2>1. {n \in Taken : TldOf(n) = t} = {n \in Name : TldOf(n) = t /\ tokenOwner[n] # Zero}
    BY DEF Taken
  <2>2. bens.subdomainCount[t] = Cardinality({n \in Taken : TldOf(n) = t})
    BY <1>1 DEF BensFollows, CountsFollow
  <2> QED
    BY <2>1, <2>2 DEF Quantify
<1>3. bens.subdomainCount["addr.reverse"] = Quantify(Account, LAMBDA a : primary[a] # Zero)
  BY <1>1 DEF BensFollows, ReverseFollows, Primary, Quantify
<1>4. \A n \in Name : BensNameFollows(bens, n)
  BY <1>1 DEF BensFollows
<1> QED
  BY <1>2, <1>3, <1>4 DEF BensFollowsChain, BensNameFollows

\* Once every block is indexed, Blockscout shows every name of the chain and every
\* reverse node, each counted once, with its expiry, its holder and its owner, but
\* for the holders of a label that is registered under two TLDs.
THEOREM BensFollowsChainHolds == BensSpec => []BensFollowsChain
<1>1. BensInv => BensFollowsChain
  BY BensInvIsEnough
<1> QED
  BY <1>1, BensInitially, BensStep, PTL DEF BensSpec
===============================================================================
