------------------------ MODULE RegistrationRace_proofs ------------------------
(***************************************************************************)
(* Why nobody can get in front of a reveal, for every number of customers, *)
(* copycats and names, every window of commitments and every delay shorter *)
(* than the minimum age; and why a success the first client's pipeline     *)
(* reports is one.                                                         *)
(***************************************************************************)
EXTENDS RegistrationRace, RegistrationPipeline, ArcNSController_proofs

Broadcasts == [tld : TLD, req : Customer, since : Nat, onTime : BOOLEAN]

\* What is known of a reveal that went out on time and waits: it waits no longer
\* than INCLUSION, its name is free, its commitment stays in the window until then,
\* and a commitment of a copycat for the same name is younger than the reveal.
Waits(p) ==
    /\ p.since <= now /\ now <= p.since + INCLUSION
    /\ Available(NameOf(p))
    /\ p.req \notin usedCommitments[p.tld]
    /\ commitments[p.tld][p.req] # 0
    /\ commitments[p.tld][p.req] + MIN_COMMITMENT_AGE <= p.since
    /\ p.since + INCLUSION <= commitments[p.tld][p.req] + MAX_COMMITMENT_AGE
    /\ \A c \in Copycat : c.label = p.req.label /\ commitments[p.tld][c] # 0
                             => p.since <= commitments[p.tld][c]

\* Copycats commit to names they have seen, a name is seen in the one reveal there
\* ever is for it, and that reveal is what uses its commitment.
RaceIInv ==
    /\ ControllerTypeOK /\ now # 0
    /\ clicked \in [TLD -> [Customer -> Nat]]
    /\ mempool \subseteq Broadcasts /\ seen \subseteq Name
    /\ \A p, q \in mempool : p.tld = q.tld /\ p.req = q.req => p = q
    /\ \A p \in mempool : NameOf(p) \in seen
    /\ \A p \in mempool : p.onTime => Waits(p)
    /\ \A tld \in TLD, c \in Copycat :
          commitments[tld][c] # 0 => <<tld, c.label>> \in seen
    /\ \A tld \in TLD, r \in Customer :
          r \in usedCommitments[tld] => <<tld, r.label>> \in seen

\* Steps of the race are steps of the system.
LEMMA RaceIsSystem ==
    ASSUME mempool \subseteq Broadcasts, [RaceNext]_<<allVars, raceVars>>
    PROVE  [SystemNext]_allVars
<1>0. Customer \cup Copycat \subseteq Request BY RaceAssumption
<1>1. ASSUME NEW s \in Account, RaceCommit(s) PROVE SystemNext
  BY <1>0, <1>1 DEF RaceCommit, ControllerTx, SystemNext
<1>2. ASSUME NEW tld \in TLD, NEW r \in Request, NEW m \in Limit,
             sender' = r.sender, UNCHANGED now,
             \/ Register(tld, r, m)
             \/ \E d \in Duration : Renew(r.sender, tld, r.label, d, m)
      PROVE  SystemNext
  <2>1. r.sender \in Account /\ r.label \in SLD BY RequestFields
  <2>2. ControllerTx(r.sender) BY <1>2, <2>1 DEF ControllerTx
  <2> QED BY <2>1, <2>2 DEF SystemNext
<1>3. CASE IncludeSome
  <2>1. PICK p \in mempool : Include(p) BY <1>3 DEF IncludeSome
  <2>2. p.tld \in TLD /\ p.req \in Request BY <1>0, <2>1 DEF Broadcasts
  <2>3. ASSUME NEW m \in Limit, Register(p.tld, p.req, m), sender' = p.req.sender,
               UNCHANGED now
        PROVE  SystemNext
    BY <1>2, <2>2, <2>3
  <2> QED BY <2>1, <2>3 DEF Include
<1>4. CASE CopycatTx BY <1>0, <1>2, <1>4 DEF CopycatTx
<1>5. CASE RaceTick BY <1>5 DEF RaceTick, SystemNext
<1>6. ASSUME NEW tld \in TLD, NEW r \in Customer, Click(tld, r) \/ Broadcast(tld, r)
      PROVE  UNCHANGED allVars
  BY <1>6 DEF Click, Broadcast, Reveal
<1> QED BY <1>1, <1>3, <1>4, <1>5, <1>6 DEF RaceNext

\* What a waiting reveal is made of.
LEMMA RevealFields ==
    ASSUME RaceIInv, NEW p \in mempool
    PROVE  /\ p.tld \in TLD /\ p.req \in Customer /\ p.req \in Request
           /\ p.since \in Nat /\ now \in Nat
           /\ NameOf(p) \in Name /\ NameOf(p) = <<p.tld, p.req.label>>
           /\ expires[NameOf(p)] \in Nat
           /\ \A c \in Request : commitments[p.tld][c] \in Nat
<1>1. p.tld \in TLD /\ p.req \in Customer /\ p.since \in Nat
  BY DEF RaceIInv, Broadcasts
<1>2. p.req \in Request BY <1>1, RaceAssumption
<1>3. NameOf(p) = <<p.tld, p.req.label>> /\ NameOf(p) \in Name
  BY <1>1, <1>2, RequestFields DEF NameOf
<1> QED BY <1>1, <1>2, <1>3
        DEF RaceIInv, ControllerTypeOK, RegistrarTypeOK, Waits

\* The constants of the race, as arithmetic needs them.
LEMMA RaceNumbers ==
    /\ INCLUSION \in Nat /\ MIN_COMMITMENT_AGE \in Nat /\ MAX_COMMITMENT_AGE \in Nat
    /\ INCLUSION < MIN_COMMITMENT_AGE /\ GRACE \in Nat
    /\ Customer \cup Copycat \subseteq Request
    /\ Customer \cap Copycat = {}
  BY RaceAssumption, ControllerAssumption, RegistrarAssumption

\* A reveal that went out on time is a reveal the controller accepts.
LEMMA WaitsIsGood == ASSUME RaceIInv PROVE RevealStaysGood
<1> SUFFICES ASSUME NEW p \in mempool, p.onTime
             PROVE  Available(NameOf(p)) /\ Revealable(p.tld, p.req)
  BY DEF RevealStaysGood
<1>1. /\ p.since \in Nat /\ now \in Nat
      /\ commitments[p.tld][p.req] \in Nat /\ Waits(p)
  BY RevealFields DEF RaceIInv
<1> QED BY <1>1, RaceNumbers DEF Waits, Revealable

\* A registration or renewal of another name leaves a waiting reveal alone.
LEMMA OthersSpare ==
    ASSUME RaceIInv, NEW p \in mempool, p.onTime, UNCHANGED now,
           NEW s \in Account, NEW tld \in TLD,
            \/ \E r \in Request : /\ Sells(s, tld, r)
                                /\ <<tld, r.label>> # NameOf(p)
           \/ \E l \in SLD, d \in Duration : Renews(s, tld, l, d)
    PROVE  Waits(p)'
<1>1. /\ p.tld \in TLD /\ p.req \in Request /\ p.since \in Nat /\ now \in Nat
      /\ NameOf(p) \in Name /\ NameOf(p) = <<p.tld, p.req.label>>
      /\ expires[NameOf(p)] \in Nat /\ Waits(p) /\ ControllerTypeOK
  BY RevealFields DEF RaceIInv
<1>2. /\ commitments \in [TLD -> [Request -> Nat]]
      /\ usedCommitments \in [TLD -> SUBSET Request]
      /\ expires \in [Name -> Nat]
  BY <1>1 DEF ControllerTypeOK, RegistrarTypeOK
<1>3. ASSUME NEW r \in Request, Sells(s, tld, r), <<tld, r.label>> # NameOf(p)
      PROVE  Waits(p)'
  <2>1. ~(p.tld = tld /\ p.req = r) BY <1>1, <1>3
  <2>2. /\ commitments' = [commitments EXCEPT ![tld][r] = 0]
        /\ usedCommitments' = [usedCommitments EXCEPT ![tld] = @ \cup {r}]
    BY <1>3 DEF Sells, Spend
  <2>3. /\ commitments'[p.tld][p.req] = commitments[p.tld][p.req]
        /\ p.req \notin usedCommitments'[p.tld]
    BY <1>1, <1>2, <2>1, <2>2 DEF Waits
  <2>4. \A c \in Copycat : commitments'[p.tld][c] # 0
                               => commitments'[p.tld][c] = commitments[p.tld][c]
    BY <1>1, <1>2, <2>2, RaceNumbers
  <2>5. expires'[NameOf(p)] = expires[NameOf(p)]
    <3> DEFINE m == <<tld, r.label>>
    <3>1. Served = {m} BY <1>1, <1>3, RegistrationServes
    <3> HIDE DEF m
    <3>2. NameOf(p) # m BY <1>3 DEF m
    <3> QED BY <1>1, <3>1, <3>2 DEF Served
  <2>6. Available(NameOf(p))'
    BY <1>1, <2>5 DEF Available, Waits, NameOf
  <2> QED BY <1>1, <2>3, <2>4, <2>6 DEF Waits
<1>4. ASSUME NEW l \in SLD, NEW d \in Duration, Renews(s, tld, l, d)
      PROVE  Waits(p)'
  <2>1. UNCHANGED commitVars BY <1>4 DEF Renews, controllerVars
  <2>2. expires'[NameOf(p)] = expires[NameOf(p)]
    <3> DEFINE m == <<tld, l>>
    <3>1. Served = {m} /\ ~Available(m) BY <1>1, <1>4, RenewalServes
    <3> HIDE DEF m
    <3>2. NameOf(p) # m BY <1>1, <3>1 DEF Waits
    <3> QED BY <1>1, <3>1, <3>2 DEF Served
  <2>3. Available(NameOf(p))'
    BY <1>1, <2>2 DEF Available, Waits, NameOf
  <2> QED BY <1>1, <2>1, <2>3 DEF Waits, commitVars
<1> QED BY <1>3, <1>4

\* The deployed system, nothing broadcast.
LEMMA RaceInitInv == RaceInit => RaceIInv
<1> SUFFICES ASSUME RaceInit PROVE RaceIInv OBVIOUS
<1>1. ControllerTypeOK BY SystemInitTypeOK DEF RaceInit
<1>2. now # 0 BY RegistrarAssumption DEF RaceInit, SystemInit, TokensInit
<1>3. \A tld \in TLD, c \in Copycat : commitments[tld][c] = 0
  BY RaceNumbers DEF RaceInit, SystemInit, ControllerInit
<1>4. \A tld \in TLD, r \in Customer : r \notin usedCommitments[tld]
  BY RaceNumbers DEF RaceInit, SystemInit, ControllerInit
<1>5. clicked \in [TLD -> [Customer -> Nat]] BY DEF RaceInit
<1> QED BY <1>1, <1>2, <1>3, <1>4, <1>5 DEF RaceInit, RaceIInv

\* A commitment delays no waiting reveal: its own is too young to be made
\* again, and one of a copycat comes after the reveal.
LEMMA CommitKeeps ==
    ASSUME RaceIInv, ControllerTypeOK', NEW s \in Account, RaceCommit(s)
    PROVE  RaceIInv'
<1>1. PICK tld \in TLD, c \in Customer \cup Copycat :
        /\ c \in Copycat => <<tld, c.label>> \in seen
        /\ Commit(tld, c)
  BY DEF RaceCommit
<1>2. UNCHANGED <<now, clicked, mempool, seen, usedCommitments, expires>>
  BY <1>1 DEF RaceCommit, raceVars, Commit, registrarVars, tokenVars
<1>3. /\ commitments' = [commitments EXCEPT ![tld][c] = now]
      /\ commitments \in [TLD -> [Request -> Nat]] /\ c \in Request
  BY <1>1, RaceNumbers DEF Commit, RaceIInv, ControllerTypeOK
<1>4. ASSUME NEW p \in mempool, p.onTime PROVE Waits(p)'
  <2>1. /\ p.tld \in TLD /\ p.req \in Customer /\ p.req \in Request
        /\ p.since \in Nat /\ now \in Nat
        /\ commitments[p.tld][p.req] \in Nat /\ Waits(p)
    BY <1>4, RevealFields DEF RaceIInv
  <2>2. ~(p.tld = tld /\ p.req = c)
    BY <1>1, <2>1, RaceNumbers DEF Commit, Committable, Waits
  <2>3. commitments'[p.tld][p.req] = commitments[p.tld][p.req]
    BY <1>3, <2>1, <2>2
  <2>4. \A k \in Copycat : commitments'[p.tld][k] \in {commitments[p.tld][k], now}
    BY <1>3, <2>1, RaceNumbers
  <2> QED BY <1>2, <2>1, <2>3, <2>4 DEF Waits, Available, NameOf
<1>5. \A t \in TLD, k \in Copycat : commitments'[t][k] # 0 => <<t, k.label>> \in seen
  BY <1>1, <1>3, RaceNumbers DEF RaceIInv
<1> QED BY <1>2, <1>4, <1>5 DEF RaceIInv

\* The client submits a commitment: nothing of the chain moves.
LEMMA ClickKeeps ==
    ASSUME RaceIInv, ControllerTypeOK', NEW tld \in TLD, NEW r \in Customer,
           Click(tld, r)
    PROVE  RaceIInv'
<1>1. UNCHANGED <<now, mempool, seen, commitments, usedCommitments, expires>>
  BY DEF Click, allVars, arcnsVars, registrarVars, tokenVars, controllerVars, commitVars
<1>2. clicked' \in [TLD -> [Customer -> Nat]]
  BY DEF Click, RaceIInv, ControllerTypeOK, RegistrarTypeOK
<1>3. \A p \in mempool : Waits(p) => Waits(p)'
  BY <1>1 DEF Waits, Available, NameOf
<1> QED BY <1>1, <1>2, <1>3 DEF RaceIInv, NameOf

\* A name is revealed once, and on time with nothing of a copycat before it: the
\* client has waited, so the commitment is mature.
LEMMA BroadcastKeeps ==
    ASSUME RaceIInv, ControllerTypeOK', NEW tld \in TLD, NEW r \in Customer,
           Broadcast(tld, r)
    PROVE  RaceIInv'
<1> DEFINE p == [tld |-> tld, req |-> r, since |-> now, onTime |-> OnTime(tld, r)]
<1>1. /\ p.tld = tld /\ p.req = r /\ p.since = now /\ p.onTime = OnTime(tld, r)
      /\ mempool' = mempool \cup {p} /\ NameOf(p) = <<tld, r.label>>
      /\ <<tld, r.label>> \notin seen
      /\ seen' = seen \cup {<<tld, r.label>>}
      /\ now >= clicked[tld][r] + CLIENT_WAIT
  BY DEF Broadcast, Reveal, NameOf
<1>2. UNCHANGED <<now, clicked, commitments, usedCommitments, expires>>
  BY DEF Broadcast, Reveal, allVars, arcnsVars, registrarVars, tokenVars, controllerVars,
         commitVars
<1>3. /\ now \in Nat /\ r \in Request /\ <<tld, r.label>> \in Name
      /\ clicked[tld][r] \in Nat /\ commitments[tld][r] \in Nat
  BY RaceNumbers, RequestFields DEF RaceIInv, ControllerTypeOK, RegistrarTypeOK
<1>4. p \in Broadcasts
  <2>1. OnTime(tld, r) \in BOOLEAN BY DEF OnTime
  <2> QED BY <1>3, <2>1 DEF Broadcasts
<1> HIDE DEF p
<1>5. \A c \in Copycat : c.label = r.label => commitments[tld][c] = 0
  BY <1>1 DEF RaceIInv
<1>6. r \notin usedCommitments[tld]
  BY <1>1 DEF RaceIInv
<1>7. ASSUME p.onTime PROVE Waits(p)
  <2>1. OnTime(tld, r) BY <1>1, <1>7
  <2>2. commitments[tld][r] + MIN_COMMITMENT_AGE <= now
    BY <1>1, <1>3, <2>1, RaceNumbers, RaceAssumption DEF OnTime
  <2> QED BY <1>1, <1>3, <1>5, <1>6, <2>1, <2>2, RaceNumbers DEF Waits, OnTime
<1>8. \A q \in mempool' : q.onTime => Waits(q)'
  <2>1. \A q \in mempool' : q.onTime => Waits(q) BY <1>1, <1>7 DEF RaceIInv
  <2> QED BY <1>2, <2>1 DEF Waits, Available, NameOf
<1>9. \A q1, q2 \in mempool' : q1.tld = q2.tld /\ q1.req = q2.req => q1 = q2
  <2>1. \A q \in mempool : ~(q.tld = tld /\ q.req = r)
    BY <1>1 DEF RaceIInv, NameOf
  <2> QED BY <1>1, <2>1 DEF RaceIInv
<1>10. /\ mempool' \subseteq Broadcasts /\ seen' \subseteq Name /\ now' # 0
       /\ \A q \in mempool' : NameOf(q) \in seen'
       /\ \A t \in TLD, c \in Copycat : commitments'[t][c] # 0 => <<t, c.label>> \in seen'
       /\ \A t \in TLD, k \in Customer : k \in usedCommitments'[t] => <<t, k.label>> \in seen'
  BY <1>1, <1>2, <1>3, <1>4 DEF RaceIInv
<1>11. clicked' \in [TLD -> [Customer -> Nat]]
  BY <1>2 DEF RaceIInv
<1> QED BY <1>8, <1>9, <1>10, <1>11 DEF RaceIInv, NameOf

\* A reveal that is included leaves the mempool, whether it registers or reverts; the
\* others are for other names.
LEMMA IncludeKeeps ==
    ASSUME RaceIInv, ControllerTypeOK', NEW p \in mempool, Include(p)
    PROVE  RaceIInv'
<1>1. /\ mempool' = mempool \ {p} /\ UNCHANGED <<now, clicked, seen>>
      /\ p.tld \in TLD /\ p.req \in Customer /\ p.req \in Request
      /\ NameOf(p) = <<p.tld, p.req.label>> /\ NameOf(p) \in seen
  <2>1. UNCHANGED now BY DEF Include, allVars, arcnsVars, registrarVars, tokenVars
  <2> QED BY <2>1, RevealFields DEF Include, RaceIInv
<1>2. \/ Sells(p.req.sender, p.tld, p.req) /\ p.req.sender \in Account
      \/ UNCHANGED <<commitments, usedCommitments, expires>>
  BY <1>1, RegisterSells, RequestFields
     DEF Include, allVars, arcnsVars, registrarVars, tokenVars, controllerVars, commitVars
<1>3. ASSUME NEW q \in mempool', q.onTime PROVE Waits(q)'
  <2>1. q \in mempool /\ q # p /\ Waits(q) BY <1>1, <1>3 DEF RaceIInv
  <2>2. /\ q.tld \in TLD /\ q.req \in Customer /\ NameOf(q) = <<q.tld, q.req.label>>
    BY <2>1, RevealFields
  <2>3. ~(q.tld = p.tld /\ q.req = p.req) BY <2>1 DEF RaceIInv
  <2>4. <<p.tld, p.req.label>> # NameOf(q) BY <1>1, <2>2, <2>3, RaceAssumption
  <2>5. CASE Sells(p.req.sender, p.tld, p.req) /\ p.req.sender \in Account
    BY <1>1, <1>3, <2>1, <2>4, <2>5, OthersSpare
  <2>6. CASE UNCHANGED <<commitments, usedCommitments, expires>>
    BY <1>1, <2>1, <2>6 DEF Waits, Available, NameOf
  <2> QED BY <1>2, <2>5, <2>6
<1>4. /\ \A t \in TLD, c \in Copycat : commitments'[t][c] # 0 => <<t, c.label>> \in seen
      /\ \A t \in TLD, k \in Customer : k \in usedCommitments'[t] => <<t, k.label>> \in seen
  <2>1. CASE Sells(p.req.sender, p.tld, p.req)
    <3>1. /\ commitments' = [commitments EXCEPT ![p.tld][p.req] = 0]
          /\ usedCommitments' = [usedCommitments EXCEPT ![p.tld] = @ \cup {p.req}]
          /\ commitments \in [TLD -> [Request -> Nat]]
          /\ usedCommitments \in [TLD -> SUBSET Request]
      BY <2>1 DEF Sells, Spend, RaceIInv, ControllerTypeOK
    <3>2. ASSUME NEW t \in TLD, NEW c \in Copycat, commitments'[t][c] # 0
          PROVE  <<t, c.label>> \in seen
      <4>1. commitments[t][c] # 0 BY <1>1, <3>1, <3>2, RaceNumbers
      <4> QED BY <4>1 DEF RaceIInv
    <3>3. ASSUME NEW t \in TLD, NEW k \in Customer, k \in usedCommitments'[t]
          PROVE  <<t, k.label>> \in seen
      <4>1. k \in usedCommitments[t] \/ (k = p.req /\ t = p.tld) BY <1>1, <3>1, <3>3
      <4> QED BY <1>1, <4>1 DEF RaceIInv
    <3> QED BY <3>2, <3>3
  <2>2. CASE UNCHANGED <<commitments, usedCommitments, expires>>
    BY <2>2 DEF RaceIInv
  <2> QED BY <1>2, <2>1, <2>2
<1> QED BY <1>1, <1>3, <1>4 DEF RaceIInv, NameOf

\* A copycat that registers or renews takes no name a customer waits for:
\* its commitment for that name is too young.
LEMMA CopycatKeeps ==
    ASSUME RaceIInv, ControllerTypeOK', CopycatTx
    PROVE  RaceIInv'
<1>1. PICK tld \in TLD, r \in Copycat, m \in Limit :
        \/ Register(tld, r, m)
        \/ \E d \in Duration : Renew(r.sender, tld, r.label, d, m)
  BY DEF CopycatTx
<1>2. /\ UNCHANGED <<now, clicked, mempool, seen>> /\ r \in Request
      /\ r.sender \in Account /\ r.label \in SLD
  BY RaceNumbers, RequestFields DEF CopycatTx, raceVars
<1>3. /\ commitments \in [TLD -> [Request -> Nat]]
      /\ usedCommitments \in [TLD -> SUBSET Request]
  BY DEF RaceIInv, ControllerTypeOK
<1>4. CASE Register(tld, r, m)
  <2>1. Sells(r.sender, tld, r) BY <1>2, <1>4, RegisterSells
  <2>2. /\ commitments' = [commitments EXCEPT ![tld][r] = 0]
        /\ usedCommitments' = [usedCommitments EXCEPT ![tld] = @ \cup {r}]
    BY <2>1 DEF Sells, Spend
  <2>3. ASSUME NEW p \in mempool, p.onTime PROVE Waits(p)'
    <3>1. /\ p.tld \in TLD /\ p.req \in Request /\ p.since \in Nat /\ now \in Nat
          /\ NameOf(p) = <<p.tld, p.req.label>>
          /\ commitments[p.tld][r] \in Nat /\ Waits(p)
      BY <1>2, <2>3, RevealFields DEF RaceIInv
    <3>2. ASSUME <<tld, r.label>> = NameOf(p) PROVE FALSE
      <4>1. tld = p.tld /\ r.label = p.req.label BY <3>1, <3>2
      <4>2. /\ commitments[p.tld][r] # 0
            /\ now >= commitments[p.tld][r] + MIN_COMMITMENT_AGE
        BY <2>1, <4>1 DEF Sells, Revealable
      <4>3. p.since <= commitments[p.tld][r] BY <3>1, <4>1, <4>2 DEF Waits
      <4>4. now <= p.since + INCLUSION BY <3>1 DEF Waits
      <4> QED BY <3>1, <4>2, <4>3, <4>4, RaceNumbers
    <3> QED BY <1>2, <2>1, <2>3, <3>2, OthersSpare
  <2>4. \A t \in TLD, c \in Copycat : commitments'[t][c] # 0 => <<t, c.label>> \in seen
    <3> SUFFICES ASSUME NEW t \in TLD, NEW c \in Copycat, commitments'[t][c] # 0
                 PROVE  <<t, c.label>> \in seen
      OBVIOUS
    <3>1. commitments[t][c] # 0 BY <1>2, <1>3, <2>2, RaceNumbers
    <3> QED BY <3>1 DEF RaceIInv
  <2>5. \A t \in TLD, k \in Customer : k \in usedCommitments'[t] => k \in usedCommitments[t]
    BY <1>3, <2>2, RaceNumbers
  <2> QED BY <1>2, <2>3, <2>4, <2>5 DEF RaceIInv, NameOf
<1>5. ASSUME NEW d \in Duration, Renew(r.sender, tld, r.label, d, m) PROVE RaceIInv'
  <2>1. Renews(r.sender, tld, r.label, d) BY <1>2, <1>5, RenewRenews
  <2>2. UNCHANGED commitVars BY <2>1 DEF Renews, controllerVars
  <2>3. \A p \in mempool : p.onTime => Waits(p)' BY <1>2, <2>1, OthersSpare
  <2> QED BY <1>2, <2>2, <2>3 DEF RaceIInv, commitVars, NameOf
<1> QED BY <1>1, <1>4, <1>5

\* Time passes only while no reveal has waited for as long as it may.
LEMMA TickKeeps ==
    ASSUME RaceIInv, ControllerTypeOK', RaceTick PROVE RaceIInv'
<1>1. /\ now' = now + 1 /\ now \in Nat
      /\ UNCHANGED <<clicked, mempool, seen, commitments, usedCommitments, expires>>
      /\ \A p \in mempool : now < p.since + INCLUSION
  BY DEF RaceTick, Tick, raceVars, registrarVars, tokenVars, controllerVars, commitVars,
         RaceIInv, ControllerTypeOK, RegistrarTypeOK
<1>2. ASSUME NEW p \in mempool, p.onTime PROVE Waits(p)'
  <2>1. /\ p.since \in Nat /\ p.since <= now /\ Waits(p)
        /\ expires[NameOf(p)] \in Nat
    <3>1. Waits(p) BY <1>2 DEF RaceIInv
    <3> QED BY <3>1, RevealFields DEF Waits
  <2>2. /\ p.since <= now' /\ now' <= p.since + INCLUSION
        /\ expires[NameOf(p)] + GRACE < now'
    BY <1>1, <2>1, RaceNumbers DEF Waits, Available
  <2> QED BY <1>1, <2>1, <2>2 DEF Waits, Available, NameOf
<1> QED BY <1>1, <1>2 DEF RaceIInv, NameOf

\* No step breaks the invariant.
LEMMA RaceInvStep ==
    RaceIInv /\ [RaceNext]_<<allVars, raceVars>> => RaceIInv'
<1> SUFFICES ASSUME RaceIInv, [RaceNext]_<<allVars, raceVars>> PROVE RaceIInv'
  OBVIOUS
<1>1. ControllerTypeOK' BY RaceIsSystem, ControllerTypeStep DEF RaceIInv
<1>2. CASE UNCHANGED <<allVars, raceVars>>
  BY <1>1, <1>2
  DEF RaceIInv, Waits, Available, NameOf, allVars, arcnsVars, raceVars, registrarVars,
      tokenVars, controllerVars, commitVars
<1> QED BY <1>1, <1>2, CommitKeeps, ClickKeeps, BroadcastKeeps, IncludeKeeps, CopycatKeeps, TickKeeps
        DEF RaceNext, IncludeSome

\* Once a customer has revealed on time, and until the reveal is included, nothing
\* that anybody commits, registers or renews makes it fail (_validateCommitment and
\* the checks of commit in ArcNSController, the wait of useRegistration.ts).
THEOREM RevealStaysGoodHolds == RaceSpec => []RevealStaysGood
BY RaceInitInv, RaceInvStep, WaitsIsGood, PTL DEF RaceSpec

(***************************************************************************)
(* The pipeline of the first client.  The one way to a receipt without a   *)
(* registration that the checks before it do not close: the commitment     *)
(* outlives its window while register() is pending.                        *)
(***************************************************************************)

Place ==
    {"idle", "binding", "commit", "commitSent", "commitVisible", "committed", "maturing",
     "proof", "checks", "simulating", "register", "registerSent", "registerVisible",
     "success", "failed", "drifted", "hung"}

FlowState == [at : Place, account : WalletAccount \cup {None}, attempt : Nat,
              n : Nat, waited : Nat]

Begun(f) == flow[f].account # None

\* The places a flow reaches only after it has read its commitment as mature.
SawMaturity(f) ==
    flow[f].at \in {"proof", "checks", "simulating", "register", "registerSent",
                    "registerVisible"}

TxOf(f, t) ==
    /\ t \in [flow : Flow, kind : Kind, n : Nat, from : WalletAccount, waited : Nat,
              mined : BOOLEAN]
    /\ t.flow = f

Receipt(t) == t.mined /\ t.kind = "register"

\* Why register() was included with the outcome it had, as far as it still shows.
Explained(t) ==
    \/ t.flow \in revealed \/ holder # None
    \/ faults # {} \/ t.flow \in lapsed
    \/ t.from # flow[t.flow].account

PipelineTyped ==
    /\ flow \in [Flow -> FlowState]
    /\ connected \in WalletAccount
    /\ commitmentAge \in [Flow -> Nat \cup {None}]
    /\ \A f \in Flow : At(f, "idle") <=> ~Begun(f)

TxsKnown == \A t \in txs : TxOf(t.flow, t) /\ Begun(t.flow)
PromptsKnown == \A p \in prompts : p[1] \in Flow /\ p[2] \in Kind /\ Begun(p[1])

\* A commitment that was seen mature stays so until it is revealed, unless it
\* outlives its window.
StaysMature == \A f \in Flow : SawMaturity(f) => f \in revealed \/ f \in lapsed \/ Matured(f)
WindowNoted == \A f \in Flow : Expired(f) => f \in lapsed
RevealedHolds == \A f \in revealed : f \in Flow /\ Begun(f) /\ holder = flow[f].account
ReceiptsExplained == \A t \in txs : Receipt(t) => Explained(t)
SuccessHasReceipt ==
    \A f \in Flow : At(f, "success") => \E t \in Mine(f, "register") : t.mined

PipelineInv ==
    /\ PipelineTyped /\ TxsKnown /\ PromptsKnown
    /\ StaysMature /\ WindowNoted /\ RevealedHolds
    /\ ReceiptsExplained /\ SuccessHasReceipt

\* The invariant is what the property says, and where each part of it comes from.
LEMMA PipelineInvGives ==
    ASSUME PipelineInv
    PROVE  SuccessIsReal
  <1> SUFFICES ASSUME NEW f \in Flow, At(f, "success")
               PROVE  \/ f \in revealed /\ holder = flow[f].account
                      \/ f \notin revealed /\ holder # None
                      \/ faults # {} \/ f \in lapsed
                      \/ \E t \in Mine(f, "register") : t.mined /\ t.from # flow[f].account
    BY DEF SuccessIsReal
  <1>1. PICK t \in Mine(f, "register") : t.mined
    BY DEF PipelineInv, SuccessHasReceipt
  <1>2. t \in txs /\ t.flow = f /\ Receipt(t)
    BY <1>1 DEF Mine, Receipt
  <1>3. Explained(t)
    BY <1>2 DEF PipelineInv, ReceiptsExplained
  <1>4. f \in revealed => holder = flow[f].account
    BY DEF PipelineInv, RevealedHolds
  <1> QED
    BY <1>1, <1>2, <1>3, <1>4 DEF Explained

LEMMA PipelineStarts ==
    ASSUME PipelineInit
    PROVE  PipelineInv
  <1> USE DEF PipelineInit
  <1>1. \A f \in Flow : flow[f].at = "idle" /\ flow[f].account = None
    OBVIOUS
  <1>2. flow \in [Flow -> FlowState]
    <2>1. [at |-> "idle", account |-> None, attempt |-> 0, n |-> 0, waited |-> 0]
             \in FlowState
      BY DEF FlowState, Place
    <2> QED
      BY <2>1
  <1>3. PipelineTyped
    BY <1>1, <1>2 DEF PipelineTyped, At, Begun
  <1>4. StaysMature /\ SuccessHasReceipt
    BY <1>1 DEF StaysMature, SuccessHasReceipt, At, SawMaturity
  <1>5. WindowNoted
    BY DEF WindowNoted, Expired, Committed
  <1>6. TxsKnown /\ PromptsKnown /\ RevealedHolds /\ ReceiptsExplained
    BY DEF TxsKnown, PromptsKnown, RevealedHolds, ReceiptsExplained
  <1> QED
    BY <1>3, <1>4, <1>5, <1>6 DEF PipelineInv

\* A step of the hook: it moves one flow, adds transactions and prompts of it, and
\* leaves the chain alone.
LEMMA HookKeeps ==
    ASSUME NEW f \in Flow, NEW r \in FlowState, PipelineInv,
           flow' = [flow EXCEPT ![f] = r],
           ~At(f, "idle"), ~At(f, "success"), r.account = flow[f].account, r.at # "idle",
           r.at \in {"proof", "checks", "simulating", "register", "registerSent",
                     "registerVisible"} => SawMaturity(f) \/ Matured(f),
           r.at = "success" => r.n = flow[f].n /\ \E t \in Mine(f, "register") : t.mined,
           \A t \in txs : Receipt(t) => t \in txs',
           \A t \in txs' : t \in txs \/ (TxOf(f, t) /\ ~t.mined),
           \A p \in prompts' : p \in prompts \/ (p[1] = f /\ p[2] \in Kind),
           UNCHANGED <<connected, commitmentAge, lapsed, revealed, holder, faults>>
    PROVE  PipelineInv'
  <1> USE DEF PipelineInv
  <1>1. /\ flow' \in [Flow -> FlowState] /\ flow'[f] = r
        /\ \A g \in Flow : g # f => flow'[g] = flow[g]
    BY DEF PipelineTyped
  <1>2. \A g \in Flow : flow'[g].account = flow[g].account
    BY <1>1
  <1>3. \A g \in Flow : Begun(g)' <=> Begun(g)
    BY <1>2 DEF Begun
  <1>4. Begun(f)
    BY DEF PipelineTyped
  <1>5. PipelineTyped'
    <2>1. \A g \in Flow : At(g, "idle")' <=> ~Begun(g)'
      BY <1>1, <1>3, <1>4 DEF PipelineTyped, At
    <2> QED
      BY <1>1, <2>1 DEF PipelineTyped
  <1>6. TxsKnown'
    <2> SUFFICES ASSUME NEW t \in txs' PROVE TxOf(t.flow, t) /\ Begun(t.flow)'
      BY DEF TxsKnown, TxOf
    <2>1. CASE t \in txs
      BY <2>1, <1>3 DEF TxsKnown, TxOf
    <2>2. CASE TxOf(f, t)
      BY <2>2, <1>3, <1>4 DEF TxOf
    <2> QED
      BY <2>1, <2>2
  <1>7. PromptsKnown'
    BY <1>3, <1>4 DEF PromptsKnown
  <1>8. StaysMature'
    <2>1. \A g \in Flow : Matured(g)' <=> Matured(g)
      BY DEF Matured, Committed
    <2>2. \A g \in Flow : SawMaturity(g)' => SawMaturity(g) \/ Matured(g)
      BY <1>1 DEF SawMaturity
    <2> QED
      BY <2>1, <2>2 DEF StaysMature
  <1>9. WindowNoted'
    BY DEF WindowNoted, Expired, Committed
  <1>10. RevealedHolds'
    BY <1>2, <1>3 DEF RevealedHolds
  <1>11. ReceiptsExplained'
    <2> SUFFICES ASSUME NEW t \in txs', Receipt(t) PROVE Explained(t)'
      BY DEF ReceiptsExplained, Receipt
    <2>1. t \in txs
      BY DEF Receipt
    <2>2. t.flow \in Flow
      BY <2>1 DEF TxsKnown, TxOf
    <2> QED
      BY <1>2, <2>1, <2>2 DEF ReceiptsExplained, Explained
  <1>12. SuccessHasReceipt'
    <2> SUFFICES ASSUME NEW g \in Flow, flow'[g].at = "success"
                 PROVE  \E t \in Mine(g, "register")' : t.mined
      BY DEF SuccessHasReceipt, At
    <2>1. flow'[g].n = flow[g].n /\ \E t \in Mine(g, "register") : t.mined
      BY <1>1 DEF SuccessHasReceipt, At
    <2>2. PICK t \in Mine(g, "register") : t.mined
      BY <2>1
    <2>3. t \in txs' /\ t.flow = g /\ t.kind = "register" /\ t.n = flow'[g].n
      BY <2>1, <2>2 DEF Mine, Receipt
    <2> QED
      BY <2>2, <2>3 DEF Mine
  <1> QED
    BY <1>5, <1>6, <1>7, <1>8, <1>9, <1>10, <1>11, <1>12

\* Everything a flow does between its click and its end is such a step.
LEMMA FlowStepKeeps ==
    ASSUME NEW f \in Flow, PipelineInv, FlowStep(f)
    PROVE  PipelineInv'
  <1> DEFINE Moved(p) == [flow[f] EXCEPT !.at = p]
  <1>0. flow \in [Flow -> FlowState] /\ flow[f] \in FlowState /\ connected \in WalletAccount
    BY DEF PipelineInv, PipelineTyped
  <1>1. \A p \in Place : /\ Moved(p) \in FlowState /\ Moved(p).at = p
                         /\ Moved(p).account = flow[f].account /\ Moved(p).n = flow[f].n
    BY <1>0 DEF FlowState
  <1>2. \A p \in Place : [flow EXCEPT ![f].at = p] = [flow EXCEPT ![f] = Moved(p)]
    BY <1>0
  <1> DEFINE Went(p) ==
        /\ flow' = [flow EXCEPT ![f] = Moved(p)]
        /\ txs' = txs /\ prompts' = prompts
        /\ UNCHANGED <<connected, commitmentAge, lapsed, revealed, holder, faults>>
  <1>3. ASSUME NEW p \in Place, p # "idle", p # "success",
               p \notin {"proof", "checks", "simulating", "register", "registerSent",
                         "registerVisible"} \/ SawMaturity(f) \/ Matured(f),
               ~At(f, "idle"), ~At(f, "success"), Went(p)
        PROVE  PipelineInv'
    <2>1. \A t \in txs' : t \in txs \/ (TxOf(f, t) /\ ~t.mined)
      BY <1>3
    <2>2. \A t \in txs : Receipt(t) => t \in txs'
      BY <1>3
    <2>3. \A q \in prompts' : q \in prompts \/ (q[1] = f /\ q[2] \in Kind)
      BY <1>3
    <2> DEFINE r == Moved(p)
    <2>4. /\ r \in FlowState /\ r.at = p /\ r.account = flow[f].account
          /\ flow' = [flow EXCEPT ![f] = r]
          /\ UNCHANGED <<connected, commitmentAge, lapsed, revealed, holder, faults>>
      BY <1>1, <1>3
    <2> HIDE DEF r
    <2> QED
      BY <1>3, <2>1, <2>2, <2>3, <2>4, HookKeeps
  <1>4. \A p \in Place : Go(f, p) => Went(p)
    BY <1>2 DEF Go, chainVars
  <1>5. Fail(f) => Went("failed")
    BY <1>2 DEF Fail, EndAs, chainVars
  <1> HIDE DEF Moved, Went
  <1>6. CASE BindSender(f)
    BY <1>3, <1>5, <1>6 DEF BindSender, At, Place
  <1>7. CASE Preflight(f)
    BY <1>3, <1>4, <1>5, <1>7 DEF Preflight, At, Place
  <1>8. CASE StorageCheck(f)
    BY <1>3, <1>4, <1>5, <1>8 DEF StorageCheck, At, Place
  <1>9. CASE MaturityPoll(f)
    <2>1. CASE Fail(f)
      BY <1>3, <1>5, <1>9, <2>1 DEF MaturityPoll, At, Place
    <2>2. CASE Matured(f) /\ Go(f, "proof")
      BY <1>3, <1>4, <1>9, <2>2 DEF MaturityPoll, At, Place
    <2>3. CASE EndAs(f, "drifted") /\ UNCHANGED <<connected, prompts, txs, chainVars>>
      <3>1. Went("drifted")
        BY <1>2, <2>3 DEF EndAs, chainVars, Went, Place
      <3> QED
        BY <1>3, <1>9, <3>1 DEF MaturityPoll, At, Place
    <2> QED
      BY <1>9, <2>1, <2>2, <2>3 DEF MaturityPoll, DriftCheck
  <1>10. CASE FinalProof(f)
    BY <1>3, <1>4, <1>5, <1>10 DEF FinalProof, At, Place
  <1>11. CASE PreSimulateChecks(f)
    BY <1>3, <1>4, <1>5, <1>11 DEF PreSimulateChecks, At, Place, SawMaturity
  <1>12. CASE Simulate(f)
    BY <1>3, <1>4, <1>5, <1>12 DEF Simulate, At, Place, SawMaturity
  <1>13. CASE CommitReceipt(f)
    <2>1. At(f, "commitVisible")
      BY <1>13 DEF CommitReceipt
    <2>2. CASE Fail(f)
      BY <1>3, <1>5, <2>1, <2>2 DEF At, Place
    <2>3. CASE ~Fail(f)
      <3>1. PICK t \in Mine(f, "commit") : txs' = txs \ {t}
        BY <1>13, <2>3 DEF CommitReceipt
      <3>2. /\ flow' = [flow EXCEPT ![f].at = "committed"] /\ prompts' = prompts
            /\ UNCHANGED <<connected, commitmentAge, lapsed, revealed, holder, faults>>
        BY <1>13, <2>3 DEF CommitReceipt, chainVars
      <3>3. \A q \in txs : Receipt(q) => q \in txs'
        BY <3>1 DEF Mine, Receipt
      <3>4. \A q \in txs' : q \in txs
        BY <3>1
      <3> DEFINE r == Moved("committed")
      <3>5. /\ r \in FlowState /\ r.at = "committed" /\ r.account = flow[f].account
            /\ flow' = [flow EXCEPT ![f] = r]
        BY <1>1, <1>2, <3>2 DEF Place
      <3> HIDE DEF r
      <3> QED
        BY <2>1, <3>2, <3>3, <3>4, <3>5, HookKeeps DEF At
    <2> QED
      BY <2>2, <2>3
  <1>14. CASE RegisterReceipt(f)
    <2>1. At(f, "registerVisible")
      BY <1>14 DEF RegisterReceipt
    <2>2. CASE Fail(f)
      BY <1>3, <1>5, <2>1, <2>2 DEF At, Place
    <2>3. CASE ~Fail(f)
      <3>1. \E t \in Mine(f, "register") : t.mined
        BY <1>14, <2>3 DEF RegisterReceipt
      <3>2. /\ flow' = [flow EXCEPT ![f].at = "success"] /\ prompts' = prompts /\ txs' = txs
            /\ UNCHANGED <<connected, commitmentAge, lapsed, revealed, holder, faults>>
        BY <1>14, <2>3 DEF RegisterReceipt, EndAs, chainVars
      <3> DEFINE r == Moved("success")
      <3>3. /\ r \in FlowState /\ r.at = "success" /\ r.account = flow[f].account
            /\ r.n = flow[f].n /\ flow' = [flow EXCEPT ![f] = r]
        BY <1>1, <1>2, <3>2 DEF Place
      <3> HIDE DEF r
      <3> QED
        BY <2>1, <3>1, <3>2, <3>3, HookKeeps DEF At
    <2> QED
      BY <2>2, <2>3
  <1>15. ASSUME NEW kind \in Kind, ProveTransactionVisible(f, kind)
         PROVE  PipelineInv'
    BY <1>3, <1>4, <1>5, <1>15 DEF ProveTransactionVisible, At, Kind, Place, SawMaturity
  <1>16. ASSUME NEW kind \in Kind, Submit(f, kind)
         PROVE  PipelineInv'
    <2> DEFINE t == [flow |-> f, kind |-> kind, n |-> flow[f].attempt, from |-> connected,
                     waited |-> 0, mined |-> FALSE]
    <2>1. flow[f].at = kind /\ kind \in {"commit", "register"}
      BY <1>16 DEF Submit, At, Kind
    <2>2. TxOf(f, t) /\ ~t.mined
      BY <1>0 DEF TxOf, FlowState
    <2>3. Submission(f, kind) = txs \cup {t}
      BY DEF Submission
    <2> HIDE DEF t
    <2>4. ASSUME NEW r \in FlowState, flow' = [flow EXCEPT ![f] = r],
                 r.account = flow[f].account,
                 \/ r.at \in {kind, "failed"}
                 \/ kind = "commit" /\ r.at = "commitSent"
                 \/ kind = "register" /\ r.at = "registerSent",
                 txs' = txs \/ txs' = Submission(f, kind),
                 prompts' = prompts \/ prompts' = prompts \cup {<<f, kind>>},
                 UNCHANGED <<connected, commitmentAge, lapsed, revealed, holder, faults>>
          PROVE  PipelineInv'
      <3>1. \A q \in txs' : q \in txs \/ (TxOf(f, q) /\ ~q.mined)
        BY <2>2, <2>3, <2>4
      <3>2. \A q \in txs : Receipt(q) => q \in txs'
        BY <2>3, <2>4
      <3>3. \A q \in prompts' : q \in prompts \/ (q[1] = f /\ q[2] \in Kind)
        BY <2>4
      <3>4. /\ r.at \notin {"idle", "success"}
            /\ r.at \in {"proof", "checks", "simulating", "register", "registerSent",
                         "registerVisible"} => SawMaturity(f)
        BY <2>1, <2>4 DEF SawMaturity
      <3> QED
        BY <2>1, <2>4, <3>1, <3>2, <3>3, <3>4, HookKeeps DEF At
    <2>5. MayBePassedOn(f, kind) =>
             /\ txs' = txs \/ txs' = Submission(f, kind)
             /\ UNCHANGED <<commitmentAge, lapsed, revealed, holder, faults>>
      BY DEF MayBePassedOn
    <2>6. CASE SubmitSent(f, kind)
      <3> DEFINE r == [flow[f] EXCEPT !.at = IF kind = "commit" THEN "commitSent"
                                                                ELSE "registerSent",
                                      !.n = flow[f].attempt, !.attempt = 0]
      <3>1. /\ r \in FlowState /\ r.account = flow[f].account
            /\ r.at = IF kind = "commit" THEN "commitSent" ELSE "registerSent"
        BY <1>0 DEF FlowState, Place
      <3>2. flow' = [flow EXCEPT ![f] = r]
        BY <1>0, <2>6 DEF SubmitSent
      <3> HIDE DEF r
      <3> QED
        BY <2>1, <2>4, <2>6, <3>1, <3>2 DEF SubmitSent, chainVars
    <2>7. CASE SubmitRetried(f, kind)
      <3> DEFINE r == [flow[f] EXCEPT !.attempt = @ + 1]
      <3>1. r \in FlowState /\ r.account = flow[f].account /\ r.at = flow[f].at
        BY <1>0 DEF FlowState
      <3>2. flow' = [flow EXCEPT ![f] = r]
        BY <1>0, <2>7 DEF SubmitRetried
      <3> HIDE DEF r
      <3> QED
        BY <2>1, <2>4, <2>5, <2>7, <3>1, <3>2 DEF SubmitRetried
    <2>8. flow' = [flow EXCEPT ![f].at = "failed"] =>
             /\ flow' = [flow EXCEPT ![f] = Moved("failed")]
             /\ Moved("failed") \in FlowState /\ Moved("failed").at = "failed"
             /\ Moved("failed").account = flow[f].account
      BY <1>1, <1>2 DEF Place
    <2>9. CASE SubmitFailed(f, kind)
      BY <2>4, <2>5, <2>8, <2>9 DEF SubmitFailed, EndAs
    <2>10. CASE SubmitTimedOut(f, kind)
      BY <2>4, <2>8, <2>10 DEF SubmitTimedOut, EndAs
    <2> QED
      BY <1>16, <2>6, <2>7, <2>9, <2>10 DEF Submit
  <1> QED
    BY <1>6, <1>7, <1>8, <1>9, <1>10, <1>11, <1>12, <1>13, <1>14, <1>15, <1>16 DEF FlowStep
\* Nothing that is left alone disturbs the invariant.
LEMMA SameFlows ==
    ASSUME PipelineInv, UNCHANGED <<flow, connected>>
    PROVE  /\ \A f \in Flow : Begun(f)' <=> Begun(f)
           /\ \A f \in Flow : flow[f].account \in WalletAccount \cup {None}
           /\ commitmentAge' \in [Flow -> Nat \cup {None}] => PipelineTyped'
  BY DEF PipelineInv, PipelineTyped, Begun, At, FlowState

LEMMA CommitIncludedKeeps ==
    ASSUME PipelineInv, NEW f \in Flow, CommitIncluded(f),
           UNCHANGED <<flow, connected, lapsed>>
    PROVE  PipelineTyped' /\ StaysMature' /\ WindowNoted' /\ RevealedHolds'
  <1> USE DEF PipelineInv
  <1>1. /\ commitmentAge' \in [Flow -> Nat \cup {None}] /\ revealed' = revealed
        /\ holder' = holder
        /\ \A g \in Flow : \/ commitmentAge'[g] = commitmentAge[g]
                           \/ commitmentAge'[g] = 0 /\ g \notin revealed
                              /\ (~Committed(g) \/ Expired(g))
    BY DEF CommitIncluded, PipelineTyped
  <1>2. None # 0 /\ 0 \in Nat /\ ~(0 > MAX_AGE_V2)
    BY PipelineAssumption
  <1>3. WindowNoted'
    BY <1>1, <1>2 DEF WindowNoted, Expired, Committed
  <1>4. StaysMature'
    <2> SUFFICES ASSUME NEW g \in Flow, SawMaturity(g)
                 PROVE  g \in revealed \/ g \in lapsed \/ Matured(g)'
      BY <1>1 DEF StaysMature, SawMaturity
    <2>1. g \in revealed \/ g \in lapsed \/ Matured(g)
      BY DEF StaysMature
    <2>2. CASE commitmentAge'[g] = commitmentAge[g]
      BY <2>1, <2>2 DEF Matured, Committed
    <2>3. CASE ~Committed(g)
      BY <2>1, <2>3 DEF Matured
    <2>4. CASE Expired(g)
      BY <2>4 DEF WindowNoted
    <2> QED
      BY <1>1, <2>2, <2>3, <2>4
  <1> QED
    BY <1>1, <1>3, <1>4, SameFlows DEF RevealedHolds

LEMMA RegisterIncludedKeeps ==
    ASSUME PipelineInv, NEW f \in Flow, NEW s \in WalletAccount, Begun(f),
           RegisterIncluded(f, s), UNCHANGED <<flow, connected, lapsed, faults>>
    PROVE  /\ PipelineTyped' /\ StaysMature' /\ WindowNoted' /\ RevealedHolds'
           /\ revealed \subseteq revealed' /\ (holder # None => holder' = holder)
           /\ SawMaturity(f) => \/ f \in revealed' \/ holder # None \/ faults # {}
                                \/ f \in lapsed \/ s # flow[f].account
  <1> USE DEF PipelineInv
  <1>1. CASE ~Accepts(f, s)
    <2>1. UNCHANGED <<commitmentAge, revealed, holder>>
      BY <1>1 DEF RegisterIncluded
    <2>2. PipelineTyped' /\ StaysMature' /\ WindowNoted' /\ RevealedHolds'
      <3>1. \A g \in Flow : /\ Matured(g)' <=> Matured(g)
                            /\ SawMaturity(g)' <=> SawMaturity(g)
                            /\ Expired(g)' <=> Expired(g)
        BY <2>1 DEF Matured, Expired, Committed, SawMaturity
      <3> QED
        BY <2>1, <3>1, SameFlows
           DEF PipelineTyped, StaysMature, WindowNoted, RevealedHolds
    <2>3. SawMaturity(f) => \/ f \in revealed' \/ holder # None \/ faults # {}
                            \/ f \in lapsed \/ s # flow[f].account
      BY <1>1, <2>1 DEF Accepts, StaysMature, WindowNoted
    <2> QED
      BY <2>1, <2>2, <2>3
  <1>2. CASE Accepts(f, s)
    <2>1. /\ commitmentAge' = [commitmentAge EXCEPT ![f] = None]
          /\ revealed' = revealed \cup {f} /\ holder' = flow[f].account /\ holder = None
          /\ flow[f].account # None
      BY <1>2 DEF RegisterIncluded, Accepts, Begun
    <2>2. revealed = {}
      BY <2>1 DEF RevealedHolds, Begun
    <2>3. commitmentAge' \in [Flow -> Nat \cup {None}]
      <3>1. commitmentAge \in [Flow -> Nat \cup {None}]
        BY DEF PipelineTyped
      <3> QED
        BY <2>1, <3>1
    <2>4. \A g \in Flow : \/ g = f /\ commitmentAge'[g] = None
                          \/ g # f /\ commitmentAge'[g] = commitmentAge[g]
      BY <2>1 DEF PipelineTyped
    <2>5. StaysMature' /\ WindowNoted'
      BY <2>1, <2>4 DEF StaysMature, WindowNoted, Expired, Matured, Committed, SawMaturity
    <2>6. RevealedHolds'
      BY <2>1, <2>2 DEF RevealedHolds, Begun
    <2> QED
      BY <2>1, <2>3, <2>5, <2>6, SameFlows
  <1> QED
    BY <1>1, <1>2

\* The transactions that remain are known, whether or not one gets its receipt.
LEMMA IncludeTxKeeps ==
    ASSUME PipelineInv, NEW t \in txs, IncludeTx(t)
    PROVE  PipelineInv'
  <1> USE DEF PipelineInv
  <1>1. /\ ~t.mined /\ UNCHANGED <<flow, connected, prompts, lapsed, faults>>
        /\ TxOf(t.flow, t) /\ Begun(t.flow) /\ t.flow \in Flow /\ t.kind \in Kind
        /\ t.from \in WalletAccount
    BY DEF IncludeTx, clientVars, TxsKnown, TxOf
  <1> DEFINE done == [t EXCEPT !.mined = TRUE, !.waited = 0]
  <1>2. /\ TxOf(done.flow, done) /\ done.flow = t.flow /\ done.kind = t.kind
        /\ done.from = t.from /\ done.mined /\ done.n = t.n
    BY <1>1 DEF TxOf
  <1>3. txs' \subseteq (txs \ {t}) \cup {done} /\ txs \ {t} \subseteq txs'
        /\ (done \in txs' => Watched(t) \/ done \in txs)
    BY DEF IncludeTx
  <1> HIDE DEF done
  <1>4. /\ PipelineTyped' /\ StaysMature' /\ WindowNoted' /\ RevealedHolds'
        /\ revealed \subseteq revealed' /\ (holder # None => holder' # None)
    <2>1. CASE t.kind = "commit"
      BY <1>1, <2>1, CommitIncludedKeeps DEF IncludeTx, CommitIncluded
    <2>2. CASE t.kind # "commit"
      BY <1>1, <2>2, RegisterIncludedKeeps DEF IncludeTx
    <2> QED
      BY <2>1, <2>2
  <1>5. TxsKnown'
    BY <1>1, <1>2, <1>3 DEF TxsKnown, TxOf, Begun
  <1>6. PromptsKnown'
    BY <1>1 DEF PromptsKnown, Begun
  <1>7. ReceiptsExplained'
    <2> SUFFICES ASSUME NEW q \in txs', Receipt(q) PROVE Explained(q)'
      BY DEF ReceiptsExplained, Receipt
    <2>1. CASE q \in txs
      BY <1>1, <1>4, <2>1 DEF ReceiptsExplained, Explained
    <2>2. CASE q = done /\ q \notin txs
      <3>1. t.kind = "register" /\ SawMaturity(t.flow)
        BY <1>2, <1>3, <2>2 DEF Receipt, Watched, SawMaturity
      <3>2. RegisterIncluded(t.flow, t.from)
        BY <3>1 DEF IncludeTx
      <3>3. \/ t.flow \in revealed' \/ holder # None \/ faults # {}
            \/ t.flow \in lapsed \/ t.from # flow[t.flow].account
        BY <1>1, <3>1, <3>2, RegisterIncludedKeeps
      <3> QED
        BY <1>1, <1>2, <1>4, <2>2, <3>3 DEF Explained
    <2> QED
      BY <1>3, <2>1, <2>2
  <1>8. SuccessHasReceipt'
    <2>1. \A q \in txs : q.mined => q \in txs'
      BY <1>1, <1>3
    <2> QED
      BY <1>1, <2>1 DEF SuccessHasReceipt, Mine, At
  <1> QED
    BY <1>4, <1>5, <1>6, <1>7, <1>8

LEMMA ClockTickKeeps ==
    ASSUME PipelineInv, ClockTick
    PROVE  PipelineInv'
  <1> USE DEF PipelineInv
  <1>1. /\ UNCHANGED <<connected, prompts, revealed, holder, faults>>
        /\ lapsed' = lapsed \cup {f \in Flow : Committed(f) /\ commitmentAge[f] >= MAX_AGE_V2}
        /\ commitmentAge' = [f \in Flow |-> IF Committed(f)
                                THEN Older(commitmentAge[f], MAX_AGE_V2) ELSE None]
        /\ flow' = [f \in Flow |-> IF flow[f].at = "maturing"
                       THEN [flow[f] EXCEPT !.waited = Older(@, MATURITY_TOTAL)] ELSE flow[f]]
        /\ txs' = {IF ~t.mined THEN [t EXCEPT !.waited = @ + 1] ELSE t : t \in txs}
    BY DEF ClockTick
  <1>2. \A f \in Flow : /\ flow'[f] \in FlowState /\ flow'[f].at = flow[f].at
                        /\ flow'[f].account = flow[f].account /\ flow'[f].n = flow[f].n
    <2> TAKE f \in Flow
    <2>1. flow[f] \in FlowState
      BY DEF PipelineTyped
    <2>2. Older(flow[f].waited, MATURITY_TOTAL) \in Nat
      BY <2>1, PipelineAssumption DEF Older, FlowState
    <2> QED
      BY <1>1, <2>1, <2>2 DEF FlowState
  <1>3. flow' \in [Flow -> FlowState]
    BY <1>1, <1>2
  <1>4. \A f \in Flow : /\ commitmentAge'[f] \in Nat \cup {None}
                        /\ Committed(f)' <=> Committed(f)
                        /\ Matured(f) => Matured(f)'
                        /\ Expired(f)' => f \in lapsed'
    <2> TAKE f \in Flow
    <2>1. CASE ~Committed(f)
      BY <1>1, <2>1 DEF Committed, Matured, Expired
    <2>2. CASE Committed(f)
      <3>1. commitmentAge[f] \in Nat /\ None \notin Nat /\ MAX_AGE_V2 \in Nat
            /\ MIN_AGE_V2 \in Nat
        BY <2>2, PipelineAssumption DEF PipelineTyped, Committed
      <3>2. /\ commitmentAge'[f] = Older(commitmentAge[f], MAX_AGE_V2)
            /\ commitmentAge'[f] \in Nat /\ commitmentAge'[f] >= commitmentAge[f]
            /\ commitmentAge'[f] > MAX_AGE_V2 => commitmentAge[f] >= MAX_AGE_V2
        BY <1>1, <2>2, <3>1 DEF Older
      <3>3. commitmentAge[f] >= MAX_AGE_V2 => f \in lapsed'
        BY <1>1, <2>2
      <3>4. commitmentAge[f] >= MIN_AGE_V2 => commitmentAge'[f] >= MIN_AGE_V2
        BY <3>1, <3>2
      <3> QED
        BY <2>2, <3>1, <3>2, <3>3, <3>4 DEF Committed, Matured, Expired
    <2> QED
      BY <2>1, <2>2
  <1>5. PipelineTyped'
    <2>1. connected' \in WalletAccount /\ commitmentAge' \in [Flow -> Nat \cup {None}]
      BY <1>1, <1>4 DEF PipelineTyped
    <2>2. \A f \in Flow : At(f, "idle")' <=> ~Begun(f)'
      BY <1>2 DEF PipelineTyped, At, Begun
    <2> QED
      BY <1>3, <2>1, <2>2 DEF PipelineTyped
  <1>6. \A q \in txs' : \E t \in txs :
           /\ q.flow = t.flow /\ q.kind = t.kind /\ q.from = t.from /\ q.mined = t.mined
           /\ TxOf(q.flow, q)
    <2> TAKE q \in txs'
    <2>1. PICK t \in txs : q = IF ~t.mined THEN [t EXCEPT !.waited = @ + 1] ELSE t
      BY <1>1
    <2>2. TxOf(t.flow, t)
      BY DEF TxsKnown
    <2>3. /\ q.flow = t.flow /\ q.kind = t.kind /\ q.from = t.from /\ q.mined = t.mined
          /\ TxOf(q.flow, q)
      BY <2>1, <2>2 DEF TxOf
    <2> QED
      BY <2>3
  <1>7. TxsKnown'
    BY <1>2, <1>6 DEF TxsKnown, TxOf, Begun
  <1>8. PromptsKnown'
    <2>1. prompts' = prompts
      BY <1>1
    <2> QED
      BY <1>2, <2>1 DEF PromptsKnown, Begun
  <1>9. StaysMature'
    <2>1. revealed' = revealed /\ lapsed \subseteq lapsed'
      BY <1>1
    <2>2. \A f \in Flow : SawMaturity(f)' => SawMaturity(f)
      BY <1>2 DEF SawMaturity
    <2> QED
      BY <1>4, <2>1, <2>2 DEF StaysMature
  <1>10. WindowNoted'
    BY <1>4 DEF WindowNoted
  <1>11. RevealedHolds'
    BY <1>1, <1>2 DEF RevealedHolds, Begun
  <1>12. ReceiptsExplained'
    <2> SUFFICES ASSUME NEW q \in txs', Receipt(q) PROVE Explained(q)'
      BY DEF ReceiptsExplained, Receipt
    <2>1. PICK t \in txs : /\ q.flow = t.flow /\ q.kind = t.kind /\ q.from = t.from
                           /\ q.mined = t.mined
      BY <1>6
    <2>2. Explained(t) /\ t.flow \in Flow
      BY <2>1 DEF ReceiptsExplained, Receipt, TxsKnown, TxOf
    <2> QED
      BY <1>1, <1>2, <2>1, <2>2 DEF Explained
  <1>13. SuccessHasReceipt'
    <2>1. \A t \in txs : t.mined => t \in txs'
      BY <1>1
    <2> QED
      BY <1>2, <2>1 DEF SuccessHasReceipt, Mine, At
  <1> QED
    BY <1>5, <1>7, <1>8, <1>9, <1>10, <1>11, <1>12, <1>13

\* What the world does besides: other people, the account, the clock, the wallet.
LEMMA AroundKeeps ==
    ASSUME PipelineInv, \/ \E t \in txs : Drop(t)
                        \/ Disturb \/ SwitchAccount \/ LateConfirm \/ Reset
    PROVE  PipelineInv'
  <1> USE DEF PipelineInv
  <1>1. /\ UNCHANGED <<flow, commitmentAge, lapsed, revealed>>
        /\ connected' \in WalletAccount
    BY DEF Drop, Disturb, SwitchAccount, LateConfirm, Reset, clientVars, chainVars, PipelineTyped
  <1>2. /\ holder # None => holder' = holder
        /\ faults \subseteq faults'
    BY DEF Drop, Disturb, SwitchAccount, LateConfirm, Reset, chainVars
  <1>3. /\ \A q \in txs' : q \in txs \/ (TxOf(q.flow, q) /\ Begun(q.flow) /\ ~q.mined)
        /\ \A q \in txs : q.mined => q \in txs'
        /\ prompts' \subseteq prompts
    <2>1. CASE \E t \in txs : Drop(t)
      BY <2>1 DEF Drop
    <2>2. CASE Disturb \/ SwitchAccount \/ Reset
      BY <2>2 DEF Disturb, SwitchAccount, Reset
    <2>3. CASE LateConfirm
      <3>1. PICK p \in prompts, go \in BOOLEAN :
               /\ prompts' = prompts \ {p}
               /\ txs' = IF go THEN txs \cup {[flow |-> p[1], kind |-> p[2], n |-> RETRIES + 1,
                                               from |-> connected, waited |-> 0,
                                               mined |-> FALSE]}
                         ELSE txs
        BY <2>3 DEF LateConfirm
      <3> DEFINE late == [flow |-> p[1], kind |-> p[2], n |-> RETRIES + 1,
                          from |-> connected, waited |-> 0, mined |-> FALSE]
      <3>2. p[1] \in Flow /\ p[2] \in Kind /\ Begun(p[1])
        BY DEF PromptsKnown
      <3>3. RETRIES + 1 \in Nat
        BY PipelineAssumption
      <3>4. TxOf(late.flow, late) /\ Begun(late.flow) /\ ~late.mined
        BY <3>2, <3>3 DEF TxOf, PipelineTyped
      <3> HIDE DEF late
      <3>5. txs' = txs \/ txs' = txs \cup {late}
        BY <3>1 DEF late
      <3> QED
        BY <3>1, <3>4, <3>5
    <2> QED
      BY <2>1, <2>2, <2>3
  <1>4. PipelineTyped'
    BY <1>1 DEF PipelineTyped, At, Begun
  <1>5. TxsKnown' /\ PromptsKnown'
    BY <1>1, <1>3 DEF TxsKnown, PromptsKnown, Begun, TxOf
  <1>6. StaysMature' /\ WindowNoted'
    BY <1>1 DEF StaysMature, WindowNoted, SawMaturity, Matured, Expired, Committed
  <1>7. RevealedHolds'
    BY <1>1, <1>2 DEF RevealedHolds, Begun
  <1>8. ReceiptsExplained'
    BY <1>1, <1>2, <1>3 DEF ReceiptsExplained, Explained, Receipt
  <1>9. SuccessHasReceipt'
    BY <1>1, <1>3 DEF SuccessHasReceipt, Mine, At
  <1> QED
    BY <1>4, <1>5, <1>6, <1>7, <1>8, <1>9

\* A flow that hangs no longer looks at anything.
LEMMA HangKeeps ==
    ASSUME NEW f \in Flow, PipelineInv, Hang(f)
    PROVE  PipelineInv'
  <1> DEFINE r == [flow[f] EXCEPT !.at = "hung"]
  <1>1. flow \in [Flow -> FlowState] /\ flow[f] \in FlowState
    BY DEF PipelineInv, PipelineTyped
  <1>2. /\ flow' = [flow EXCEPT ![f] = r]
        /\ UNCHANGED <<connected, prompts, txs, commitmentAge, lapsed, revealed, holder, faults>>
        /\ ~At(f, "idle") /\ ~At(f, "success")
    BY <1>1 DEF Hang, Go, At, Unguarded, chainVars
  <1>3. r \in FlowState /\ r.account = flow[f].account /\ r.at = "hung"
    BY <1>1 DEF FlowState, Place
  <1> HIDE DEF r
  <1> QED
    BY <1>2, <1>3, HookKeeps

\* A click: only a flow that nobody knows begins.
LEMMA BeginKeepsPipeline ==
    ASSUME NEW f \in Flow, PipelineInv, Begin(f)
    PROVE  PipelineInv'
  <1> USE DEF PipelineInv
  <1>1. /\ UNCHANGED <<connected, prompts, txs, commitmentAge, lapsed, revealed, holder, faults>>
        /\ flow' = [flow EXCEPT ![f].at = "binding", ![f].account = connected]
        /\ ~Begun(f) /\ flow \in [Flow -> FlowState] /\ flow[f] \in FlowState
        /\ connected \in WalletAccount /\ connected # None
    BY PipelineAssumption DEF Begin, chainVars, PipelineTyped
  <1>2. /\ flow'[f] = [flow[f] EXCEPT !.at = "binding", !.account = connected]
        /\ \A g \in Flow : g # f => flow'[g] = flow[g]
        /\ DOMAIN flow' = Flow
    BY <1>1
  <1>3. flow'[f] \in FlowState /\ flow'[f].at = "binding" /\ flow'[f].account = connected
    BY <1>1, <1>2 DEF FlowState, Place
  <1>4. flow' \in [Flow -> FlowState]
    BY <1>1, <1>2, <1>3
  <1>5. PipelineTyped'
    BY <1>1, <1>2, <1>3, <1>4 DEF PipelineTyped, At, Begun
  <1>6. TxsKnown'
    <2> SUFFICES ASSUME NEW t \in txs PROVE TxOf(t.flow, t) /\ Begun(t.flow)'
      BY <1>1 DEF TxsKnown, TxOf
    <2> QED
      BY <1>1, <1>2 DEF TxsKnown, TxOf, Begun
  <1>7. PromptsKnown'
    BY <1>1, <1>2 DEF PromptsKnown, Begun
  <1>8. StaysMature' /\ WindowNoted'
    BY <1>1, <1>2, <1>3
       DEF StaysMature, WindowNoted, SawMaturity, Matured, Expired, Committed
  <1>9. RevealedHolds'
    BY <1>1, <1>2 DEF RevealedHolds, Begun
  <1>10. ReceiptsExplained'
    <2> SUFFICES ASSUME NEW t \in txs, Receipt(t) PROVE Explained(t)'
      BY <1>1 DEF ReceiptsExplained, Receipt
    <2>1. t.flow \in Flow /\ t.flow # f
      BY <1>1 DEF TxsKnown, TxOf
    <2> QED
      BY <1>1, <1>2, <2>1 DEF ReceiptsExplained, Explained
  <1>11. SuccessHasReceipt'
    BY <1>1, <1>2, <1>3 DEF SuccessHasReceipt, Mine, At
  <1> QED
    BY <1>5, <1>6, <1>7, <1>8, <1>9, <1>10, <1>11

\* Whatever the wallet, the provider, the chain and other flows do, the invariant of
\* the pipeline holds.
THEOREM PipelineInvHolds == PipelineSpec => []PipelineInv
  <1>1. PipelineInv /\ PipelineNext => PipelineInv'
    <2> SUFFICES ASSUME PipelineInv, PipelineNext PROVE PipelineInv'
      OBVIOUS
    <2>1. CASE \E f \in Flow : Begin(f) \/ FlowStep(f) \/ Hang(f)
      BY <2>1, BeginKeepsPipeline, FlowStepKeeps, HangKeeps
    <2>2. CASE Settle
      BY <2>2, IncludeTxKeeps, AroundKeeps DEF Settle
    <2>3. CASE ClockTick
      BY <2>3, ClockTickKeeps
    <2>4. CASE Reset \/ LateConfirm \/ SwitchAccount \/ Disturb
      BY <2>4, AroundKeeps
    <2> QED
      BY <2>1, <2>2, <2>3, <2>4 DEF PipelineNext
  <1>2. PipelineInv /\ UNCHANGED pipelineVars => PipelineInv'
    <2> SUFFICES ASSUME PipelineInv, UNCHANGED pipelineVars PROVE PipelineInv'
      OBVIOUS
    <2> USE DEF pipelineVars, clientVars, chainVars, PipelineInv
    <2>1. PipelineTyped' /\ TxsKnown' /\ PromptsKnown'
      BY DEF PipelineTyped, At, Begun, TxsKnown, TxOf, PromptsKnown
    <2>2. StaysMature' /\ WindowNoted' /\ RevealedHolds'
      BY DEF StaysMature, SawMaturity, Matured, Committed, WindowNoted, Expired,
             RevealedHolds, Begun
    <2>3. ReceiptsExplained' /\ SuccessHasReceipt'
      BY DEF ReceiptsExplained, Explained, Receipt, SuccessHasReceipt, Mine, At
    <2> QED
      BY <2>1, <2>2, <2>3
  <1> QED
    BY <1>1, <1>2, PipelineStarts, PTL DEF PipelineSpec

\* A success the first client reports is one (useRegistrationPipeline.ts: the receipt's
\* status is not looked at), for any number of flows, accounts, retries and mishaps.
THEOREM SuccessIsRealHolds == PipelineSpec => []SuccessIsReal
  BY PipelineInvHolds, PipelineInvGives, PTL

==============================================================================
