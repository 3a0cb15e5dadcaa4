---------------------- MODULE ArcNSBaseRegistrar_proofs ----------------------
(***************************************************************************)
(* The registry's guarantees for every set of addresses and every tree,    *)
(* and the registrars' for every set of TLDs, names, accounts and          *)
(* controllers, every grace period and every duration.                     *)
(***************************************************************************)
EXTENDS ArcNSBaseRegistrar, TLAPS

------------------------------------------------------------------------------
(* The registry.                                                            *)

\* A node is above itself.
LEMMA SelfAbove == ASSUME NEW n \in Nodes PROVE n \in Above(n)
<1>1. n \in Seq(Label) BY RegistryAssumption
<1>2. Len(n) \in 0..Len(n) /\ SubSeq(n, 1, Len(n)) = n BY <1>1
<1> QED BY <1>2 DEF Above

\* The parent of a node is above it.
LEMMA ParentAbove ==
    ASSUME NEW n \in Nodes, NEW l \in Label, Append(n, l) \in Nodes
    PROVE  n \in Above(Append(n, l))
<1>1. n \in Seq(Label) BY RegistryAssumption
<1>2. Len(n) \in 0..Len(Append(n, l)) BY <1>1
<1>3. SubSeq(Append(n, l), 1, Len(n)) = n BY <1>1
<1> QED BY <1>2, <1>3 DEF Above

\* The records the constructor leaves have the types of the registry.
LEMMA RegistryInitTypeOK == RegistryInit => RegistryTypeOK
<1> SUFFICES ASSUME RegistryInit PROVE RegistryTypeOK OBVIOUS
<1>1. records \in [Nodes -> Record]
  BY RegistryAssumption DEF RegistryInit, NoRecord, Record, Owner
<1>2. operators \in [Owner -> SUBSET Owner] BY DEF RegistryInit
<1>3. sender \in Owner BY DEF RegistryInit, Owner
<1> QED BY <1>1, <1>2, <1>3 DEF RegistryTypeOK

\* p is the node m or its parent.
SelfOrParent(p, m) == p = m \/ \E l \in Label : m = Append(p, l)

\* One node is rewritten, over which s has authority directly or through its
\* parent.
Writes(s) ==
    /\ UNCHANGED operators
    /\ \E m \in Nodes, rec \in Record :
          /\ records' = [records EXCEPT ![m] = rec]
          /\ \E p \in Nodes : SelfOrParent(p, m) /\ Authorised(s, p)

\* s edits its own set of operators.
Approves(s) ==
    /\ UNCHANGED records
    /\ \E ops \in SUBSET Owner : operators' = [operators EXCEPT ![s] = ops]

\* Every transaction of the registry does one of the two.
LEMMA TxEffect ==
    ASSUME RegistryTypeOK, NEW s \in Account, RegistryTx(s)
    PROVE  sender' = s /\ (Writes(s) \/ Approves(s))
<1> USE DEF RegistryTypeOK
<1>0. s \in Owner /\ Grantee \cup Operator \subseteq Owner
  BY RegistryAssumption DEF Owner
<1>1. ASSUME NEW n \in Nodes, NEW o \in Grantee,
             NEW r \in ResolverAddr \cup {Zero}, NEW t \in TTL,
             SetRecord(s, n, o, r, t)
      PROVE  Writes(s)
  <2>1. [owner |-> o, resolver |-> r, ttl |-> t] \in Record BY <1>0 DEF Record
  <2> QED BY <1>1, <2>1 DEF Writes, SelfOrParent, SetRecord, WithRecord
<1>2. ASSUME NEW n \in Nodes, NEW l \in Label, NEW o \in Grantee,
             NEW r \in ResolverAddr \cup {Zero}, NEW t \in TTL,
             SetSubnodeRecord(s, n, l, o, r, t)
      PROVE  Writes(s)
  <2>1. [owner |-> o, resolver |-> r, ttl |-> t] \in Record BY <1>0 DEF Record
  <2> QED BY <1>2, <2>1
          DEF Writes, SelfOrParent, SetSubnodeRecord, WithSubnodeRecord, WithRecord
<1>3. ASSUME NEW n \in Nodes, NEW l \in Label, NEW o \in Grantee,
             SetSubnodeOwner(s, n, l, o)
      PROVE  Writes(s)
  <2> DEFINE m == Append(n, l)
  <2>1. m \in Nodes BY <1>3 DEF SetSubnodeOwner
  <2>2. [records[m] EXCEPT !.owner = o] \in Record BY <1>0, <2>1 DEF Record
  <2>3. records' = [records EXCEPT ![m] = [records[m] EXCEPT !.owner = o]]
    BY <1>3 DEF SetSubnodeOwner, WithSubnodeOwner, WithOwner
  <2> QED BY <1>3, <2>1, <2>2, <2>3 DEF Writes, SelfOrParent, SetSubnodeOwner
<1>4. ASSUME NEW n \in Nodes, NEW r \in ResolverAddr \cup {Zero},
             SetResolver(s, n, r)
      PROVE  Writes(s)
  <2>1. [records[n] EXCEPT !.resolver = r] \in Record BY DEF Record
  <2>2. records' = [records EXCEPT ![n] = [records[n] EXCEPT !.resolver = r]]
    BY <1>4 DEF SetResolver
  <2> QED BY <1>4, <2>1, <2>2 DEF Writes, SelfOrParent, SetResolver
<1>5. ASSUME NEW n \in Nodes, NEW o \in Grantee, SetOwner(s, n, o)
      PROVE  Writes(s)
  <2>1. [records[n] EXCEPT !.owner = o] \in Record BY <1>0 DEF Record
  <2>2. records' = [records EXCEPT ![n] = [records[n] EXCEPT !.owner = o]]
    BY <1>5 DEF SetOwner, WithOwner
  <2> QED BY <1>5, <2>1, <2>2 DEF Writes, SelfOrParent, SetOwner
<1>6. ASSUME NEW n \in Nodes, NEW t \in TTL, SetTTL(s, n, t)
      PROVE  Writes(s)
  <2>1. [records[n] EXCEPT !.ttl = t] \in Record BY DEF Record
  <2>2. records' = [records EXCEPT ![n] = [records[n] EXCEPT !.ttl = t]]
    BY <1>6 DEF SetTTL
  <2> QED BY <1>6, <2>1, <2>2 DEF Writes, SelfOrParent, SetTTL
<1>7. ASSUME NEW a \in Operator, NEW ok \in BOOLEAN, SetApprovalForAll(s, a, ok)
      PROVE  Approves(s)
  <2>1. (IF ok THEN operators[s] \cup {a} ELSE operators[s] \ {a})
            \in SUBSET Owner
    BY <1>0
  <2> QED BY <1>7, <2>1 DEF Approves, SetApprovalForAll
<1> QED BY <1>1, <1>2, <1>3, <1>4, <1>5, <1>6, <1>7 DEF RegistryTx

\* Every transaction keeps the types, whoever sends it and whatever it asks.
LEMMA RegistryTypeStep ==
    RegistryTypeOK /\ [RegistryNext]_<<registryVars, sender>> => RegistryTypeOK'
<1> SUFFICES ASSUME RegistryTypeOK, [RegistryNext]_<<registryVars, sender>>
             PROVE  RegistryTypeOK'
  OBVIOUS
<1>1. ASSUME NEW s \in Account, RegistryTx(s) PROVE RegistryTypeOK'
  <2>1. sender' = s /\ (Writes(s) \/ Approves(s)) BY <1>1, TxEffect
  <2>2. sender' \in Owner BY <2>1, RegistryAssumption DEF Owner
  <2>3. CASE Writes(s) BY <2>2, <2>3 DEF Writes, RegistryTypeOK
  <2>4. CASE Approves(s) BY <2>2, <2>4 DEF Approves, RegistryTypeOK
  <2> QED BY <2>1, <2>3, <2>4
<1>2. CASE UNCHANGED <<registryVars, sender>>
  BY <1>2 DEF RegistryTypeOK, registryVars
<1> QED BY <1>1, <1>2 DEF RegistryNext

\* The registry keeps its types: owners and operators are addresses or 0,
\* nothing else is ever stored by ArcNSRegistry.
THEOREM RegistryTypeCorrect == RegistrySpec => []RegistryTypeOK
BY RegistryInitTypeOK, RegistryTypeStep, PTL DEF RegistrySpec

------------------------------------------------------------------------------
\* What is above something above a node is above the node.
LEMMA AboveTransitive ==
    ASSUME NEW n \in Nodes, NEW q \in Above(n), NEW p \in Above(q)
    PROVE  p \in Above(n)
<1>1. n \in Seq(Label) BY RegistryAssumption
<1>2. PICK k \in 0..Len(n) : q = SubSeq(n, 1, k) BY DEF Above
<1>3. Len(q) = k BY <1>1, <1>2
<1>4. PICK j \in 0..k : p = SubSeq(q, 1, j) BY <1>3 DEF Above
<1>5. p = SubSeq(n, 1, j) BY <1>1, <1>2, <1>4
<1>6. j \in 0..Len(n) /\ p \in Nodes BY <1>2, <1>4 DEF Above
<1> QED BY <1>5, <1>6 DEF Above

\* The step behind NoEscalation: an outsider of n changes neither n's record
\* nor who has authority over n.
LEMMA OutsiderStep ==
    ASSUME RegistryTypeOK, NEW s \in Account, RegistryTx(s),
           NEW n \in Nodes, s \in Outsiders(n)
    PROVE  records'[n] = records[n] /\ Outsiders(n) \subseteq Outsiders(n)'
<1>1. \A q \in Above(n) : ~Authorised(s, q) BY DEF Outsiders
<1>2. \A q \in Above(n) : q \in Nodes BY DEF Above
<1>3. Writes(s) \/ Approves(s) BY TxEffect
<1>4. CASE Writes(s)
  <2>1. PICK m \in Nodes, rec \in Record :
            /\ records' = [records EXCEPT ![m] = rec]
            /\ \E p \in Nodes : SelfOrParent(p, m) /\ Authorised(s, p)
    BY <1>4 DEF Writes
  <2>2. m \notin Above(n)
    BY <1>1, <2>1, SelfAbove, ParentAbove, AboveTransitive DEF SelfOrParent
  <2>3. \A q \in Above(n) : records'[q] = records[q]
    BY <1>2, <2>1, <2>2 DEF RegistryTypeOK
  <2>4. operators' = operators BY <1>4 DEF Writes
  <2>5. \A x, q : q \in Above(n) /\ ~Authorised(x, q) => ~Authorised(x, q)'
    BY <2>3, <2>4 DEF Authorised
  <2> QED BY <2>3, <2>5, SelfAbove DEF Outsiders, Above
<1>5. CASE Approves(s)
  <2>1. records' = records BY <1>5 DEF Approves
  <2>2. \A q \in Above(n) : records[q].owner # s BY <1>1 DEF Authorised
  <2>3. \A q \in Above(n) :
            operators'[records[q].owner] = operators[records[q].owner]
    BY <1>2, <1>5, <2>2 DEF Approves, RegistryTypeOK, Record
  <2>4. \A x, q : q \in Above(n) /\ ~Authorised(x, q) => ~Authorised(x, q)'
    BY <2>1, <2>3 DEF Authorised
  <2> QED BY <2>1, <2>4 DEF Outsiders, Above
<1> QED BY <1>3, <1>4, <1>5

\* Authority over a node and the nodes above it is only handed down: no
\* sequence of transactions of outsiders alone reaches a node's record.
THEOREM NoEscalationHolds == RegistrySpec => NoEscalation
<1>1. ASSUME RegistryTypeOK, [RegistryNext]_<<registryVars, sender>>,
             NEW n \in Nodes, sender' \in Outsiders(n)
      PROVE  /\ records'[n] = records[n]
             /\ Outsiders(n) \subseteq Outsiders(n)'
  <2>1. ASSUME NEW s \in Account, RegistryTx(s)
        PROVE  /\ records'[n] = records[n]
               /\ Outsiders(n) \subseteq Outsiders(n)'
    BY <1>1, <2>1, OutsiderStep, TxEffect
  <2>2. CASE UNCHANGED <<registryVars, sender>>
    BY <2>2 DEF registryVars, Outsiders, Above, Authorised
  <2> QED BY <1>1, <2>1, <2>2 DEF RegistryNext
<1>2. RegistryTypeOK /\ [RegistryNext]_<<registryVars, sender>>
        => [\A n \in Nodes : sender' \in Outsiders(n) =>
               /\ records'[n] = records[n]
               /\ Outsiders(n) \subseteq Outsiders(n)'
           ]_<<registryVars, sender>>
  BY <1>1
<1> QED BY <1>2, RegistryTypeCorrect, PTL DEF RegistrySpec, NoEscalation

\* address(0) sends no transaction, so it never approves an operator.
LEMMA NoOperatorsOfZero == RegistrySpec => []ZeroHasNoOperators
<1>1. RegistryInit => ZeroHasNoOperators
  BY DEF RegistryInit, ZeroHasNoOperators, Owner
<1>2. RegistryTypeOK /\ ZeroHasNoOperators
        /\ [RegistryNext]_<<registryVars, sender>> => ZeroHasNoOperators'
  <2> SUFFICES ASSUME RegistryTypeOK, ZeroHasNoOperators,
                      [RegistryNext]_<<registryVars, sender>>
               PROVE  ZeroHasNoOperators'
    OBVIOUS
  <2>1. ASSUME NEW s \in Account, RegistryTx(s) PROVE ZeroHasNoOperators'
    <3>1. s # Zero BY RegistryAssumption
    <3>2. Writes(s) \/ Approves(s) BY <2>1, TxEffect
    <3> QED BY <3>1, <3>2
            DEF Writes, Approves, ZeroHasNoOperators, RegistryTypeOK, Owner
  <2>2. CASE UNCHANGED <<registryVars, sender>>
    BY <2>2 DEF registryVars, ZeroHasNoOperators
  <2> QED BY <2>1, <2>2 DEF RegistryNext
<1> QED BY <1>1, <1>2, RegistryTypeCorrect, PTL DEF RegistrySpec

\* A node burned together with all the nodes above it is never written
\* again: what setOwner(node, 0) guarantees in fact.
THEOREM BurnedToRootIsFrozenHolds == RegistrySpec => BurnedToRootIsFrozen
<1>1. ASSUME RegistryTypeOK, ZeroHasNoOperators,
             [RegistryNext]_<<registryVars, sender>>,
             NEW n \in Nodes, BurnedToRoot(n)
      PROVE  records'[n] = records[n]
  <2>1. ASSUME NEW s \in Account, RegistryTx(s)
        PROVE  records'[n] = records[n]
    <3>1. s # Zero BY RegistryAssumption
    <3>2. \A m \in Above(n) : ~Authorised(s, m)
      BY <1>1, <3>1 DEF BurnedToRoot, Authorised, ZeroHasNoOperators
    <3> QED BY <1>1, <2>1, <3>2, OutsiderStep DEF Outsiders
  <2>2. CASE UNCHANGED <<registryVars, sender>> BY <2>2 DEF registryVars
  <2> QED BY <1>1, <2>1, <2>2 DEF RegistryNext
<1>2. RegistryTypeOK /\ ZeroHasNoOperators
        /\ [RegistryNext]_<<registryVars, sender>>
        => [\A n \in Nodes : BurnedToRoot(n) => records'[n] = records[n]
           ]_<<registryVars, sender>>
  BY <1>1
<1> QED BY <1>2, RegistryTypeCorrect, NoOperatorsOfZero, PTL
        DEF RegistrySpec, BurnedToRootIsFrozen

------------------------------------------------------------------------------
(* The registrars.                                                          *)

\* The node of a name is the child of its TLD node.
LEMMA NodeOfName ==
    ASSUME NEW n \in Name
    PROVE  /\ n[1] \in TLD /\ n[2] \in SLD
           /\ Append(<<n[1]>>, n[2]) = n
           /\ n \in Nodes /\ <<n[1]>> \in Nodes
           /\ <<n[1]>> # << >>
<1>1. n[1] \in TLD /\ n[2] \in SLD /\ n = <<n[1], n[2]>> BY DEF Name
<1>2. n \in Nodes /\ <<n[1]>> \in Nodes BY <1>1, RegistrarAssumption
<1>3. n \in Seq(Label) /\ <<n[1]>> \in Seq(Label)
  BY <1>2, RegistryAssumption
<1>4. Len(n) = 2 /\ Len(<<n[1]>>) = 1 BY <1>1
<1>5. n[1] \in Label /\ n[2] \in Label BY <1>3, <1>4
<1>6. DOMAIN Append(<<n[1]>>, n[2]) = 1..2 BY <1>3, <1>4, <1>5
<1>7. Append(<<n[1]>>, n[2])[1] = n[1] /\ Append(<<n[1]>>, n[2])[2] = n[2]
  BY <1>3, <1>4, <1>5
<1>8. Append(<<n[1]>>, n[2]) \in Seq(Label) BY <1>3, <1>5
<1>9. Append(<<n[1]>>, n[2]) = n BY <1>3, <1>4, <1>6, <1>7, <1>8
<1> QED BY <1>1, <1>2, <1>4, <1>9

\* A node that hangs from the TLD node of a name, or is that name's node,
\* is reached from the node itself or from the TLD node only.
LEMMA ParentOfName ==
    ASSUME NEW n \in Name, NEW p \in Nodes, SelfOrParent(p, n)
    PROVE  p = n \/ p = <<n[1]>>
<1>1. CASE p = n BY <1>1
<1>2. ASSUME NEW l \in Label, n = Append(p, l) PROVE p = <<n[1]>>
  <2>1. p \in Seq(Label) BY RegistryAssumption
  <2>2. n = <<n[1], n[2]>> BY DEF Name
  <2>3. Len(n) = 2 BY <2>2
  <2>4. Len(p) + 1 = Len(n) BY <1>2, <2>1
  <2>5. Len(p) \in Nat /\ Len(p) + 1 = 2 BY <2>1, <2>3, <2>4
  <2>6. \A k \in Nat : k + 1 = 2 => k = 1 OBVIOUS
  <2>7. Len(p) = 1 BY <2>5, <2>6, Zenon
  <2>8. p[1] = n[1] BY <1>2, <2>1, <2>7
  <2> QED BY <2>1, <2>7, <2>8
<1> QED BY <1>1, <1>2 DEF SelfOrParent

------------------------------------------------------------------------------
(***************************************************************************)
(* Types.                                                                  *)
(***************************************************************************)
\* The deployed (or migrated) registrars and registry are well typed.
LEMMA RegistrarInitTypeOK == RegistrarInit => RegistrarTypeOK
<1> SUFFICES ASSUME RegistrarInit PROVE RegistrarTypeOK OBVIOUS
<1> USE RegistryAssumption, RegistrarAssumption DEF RegistrarInit, TokensInit, DeployedOwner, Owner
<1>1. \A n \in Nodes : [NoRecord EXCEPT !.owner =
                     IF n = Root THEN Deployer
                     ELSE IF Len(n) = 1 /\ n[1] \in TLD THEN RegistrarOf[n[1]]
                     ELSE IF n \in Name THEN nft[n]
                     ELSE Zero] \in Record
  BY DEF NoRecord, Record
<1>2. records \in [Nodes -> Record] BY <1>1
<1>3. RegistryTypeOK BY <1>2 DEF RegistryTypeOK
<1>4. expires \in [Name -> Nat] /\ nft \in [Name -> Owner] OBVIOUS
<1>5. nftOperators \in [TLD -> [Owner -> SUBSET Owner]] OBVIOUS
<1>6. approved \in [Name -> Owner] OBVIOUS
<1> QED BY <1>3, <1>4, <1>5, <1>6 DEF RegistrarTypeOK

\* Rewriting the node of a name with an owner keeps the registry typed.
LEMMA NodeWriteType ==
    ASSUME records \in [Nodes -> Record], NEW n \in Name, NEW o \in Owner
    PROVE  /\ WithSubnodeOwner(records, <<n[1]>>, n[2], o) \in [Nodes -> Record]
           /\ \A r \in ResolverAddr :
                WithSubnodeRecord(records, <<n[1]>>, n[2], o, r, 0)
                    \in [Nodes -> Record]
<1>1. Append(<<n[1]>>, n[2]) = n /\ n \in Nodes BY NodeOfName
<1>2. [records[n] EXCEPT !.owner = o] \in Record BY <1>1 DEF Record
<1>3. \A r \in ResolverAddr : [owner |-> o, resolver |-> r, ttl |-> 0] \in Record
  BY RegistryAssumption DEF Record
<1>4. WithSubnodeOwner(records, <<n[1]>>, n[2], o)
        = [records EXCEPT ![n] = [records[n] EXCEPT !.owner = o]]
  BY <1>1 DEF WithSubnodeOwner, WithOwner
<1>5. \A r \in ResolverAddr :
        WithSubnodeRecord(records, <<n[1]>>, n[2], o, r, 0)
          = [records EXCEPT ![n] = [owner |-> o, resolver |-> r, ttl |-> 0]]
  BY <1>1 DEF WithSubnodeRecord, WithRecord
<1> QED BY <1>1, <1>2, <1>3, <1>4, <1>5

\* Each kind of step keeps the types.
LEMMA RegistrarTypeStep ==
    RegistrarTypeOK /\ [RegistrarNext]_systemVars => RegistrarTypeOK'
<1> SUFFICES ASSUME RegistrarTypeOK, [RegistrarNext]_systemVars
             PROVE  RegistrarTypeOK'
  OBVIOUS
<1> USE DEF RegistrarTypeOK
<1>0. /\ Grantee \subseteq Owner /\ Operator \subseteq Owner /\ Zero \in Owner
      /\ Account \subseteq Owner /\ ControllerAddr \subseteq Owner
      /\ Duration \subseteq Nat
  BY RegistryAssumption, RegistrarAssumption DEF Owner
<1>1. ASSUME NEW c \in ControllerAddr, ControllerCall(c)
      PROVE  RegistrarTypeOK'
  <2>1. PICK n \in Name, d \in Duration :
          \/ \E o \in Grantee : RegisterWithLabel(c, n, o, d)
          \/ \E o \in Grantee, r \in ResolverAddr :
                RegisterWithResolverAndLabel(c, n, o, d, r)
          \/ RenewName(c, n, d)
    BY <1>1 DEF ControllerCall
  <2>2. sender' \in Owner /\ now' = now BY <1>0, <1>1 DEF ControllerCall
  <2>3. records \in [Nodes -> Record] BY DEF RegistryTypeOK
  <2>4. ASSUME NEW o \in Grantee, Enroll(n, o, d)
        PROVE  /\ expires' \in [Name -> Nat] /\ nft' \in [Name -> Owner]
               /\ approved' \in [Name -> Owner] /\ labelled' \subseteq Name
    BY <1>0, <2>4 DEF Enroll, MoveToken
  <2>5. ASSUME NEW o \in Grantee, RegisterWithLabel(c, n, o, d)
        PROVE  RegistrarTypeOK'
    <3>1. records' \in [Nodes -> Record]
      BY <1>0, <2>3, <2>5, NodeWriteType DEF RegisterWithLabel, EnrolledNode
    <3> QED BY <2>2, <2>4, <2>5, <3>1 DEF RegisterWithLabel, RegistryTypeOK
  <2>6. ASSUME NEW o \in Grantee, NEW r \in ResolverAddr,
               RegisterWithResolverAndLabel(c, n, o, d, r)
        PROVE  RegistrarTypeOK'
    <3>1. records' \in [Nodes -> Record]
      BY <1>0, <2>3, <2>6, NodeWriteType
      DEF RegisterWithResolverAndLabel, EnrolledRecord
    <3> QED BY <2>2, <2>4, <2>6, <3>1
            DEF RegisterWithResolverAndLabel, RegistryTypeOK
  <2>7. CASE RenewName(c, n, d)
    BY <1>0, <2>2, <2>7 DEF RenewName, Extend, RegistryTypeOK, registryVars
  <2> QED BY <2>1, <2>5, <2>6, <2>7
<1>2. ASSUME NEW s \in Account, RegistrarTx(s) PROVE RegistrarTypeOK'
  <2>1. sender' \in Owner /\ now' = now BY <1>0, <1>2 DEF RegistrarTx
  <2>2. ASSUME NEW n \in Name, NEW o \in Grantee, Reclaim(s, n, o)
        PROVE  RegistrarTypeOK'
    <3>1. records' \in [Nodes -> Record]
      BY <1>0, <2>2, NodeWriteType DEF Reclaim, RegistryTypeOK
    <3> QED BY <2>1, <2>2, <3>1
            DEF Reclaim, RegistryTypeOK, registrarVars, tokenVars
  <2>3. ASSUME NEW n \in Name, NEW o \in Grantee, TransferFrom(s, n, o)
        PROVE  RegistrarTypeOK'
    BY <1>0, <2>1, <2>3
    DEF TransferFrom, MoveToken, RegistryTypeOK, registryVars
  <2>4. ASSUME NEW n \in Name, NEW o \in Grantee, Approve(s, n, o)
        PROVE  RegistrarTypeOK'
    BY <1>0, <2>1, <2>4 DEF Approve, RegistryTypeOK, registryVars
  <2>5. ASSUME NEW tld \in TLD, NEW a \in Operator, NEW ok \in BOOLEAN,
               SetTokenOperator(s, tld, a, ok)
        PROVE  RegistrarTypeOK'
    <3> DEFINE ops == IF ok THEN nftOperators[tld][s] \cup {a}
                            ELSE nftOperators[tld][s] \ {a}
    <3>1. s \in Owner /\ nftOperators[tld] \in [Owner -> SUBSET Owner] BY <1>0
    <3>2. ops \in SUBSET Owner BY <1>0, <3>1
    <3>3. nftOperators' = [nftOperators EXCEPT ![tld] =
                               [nftOperators[tld] EXCEPT ![s] = ops]]
      BY <2>5 DEF SetTokenOperator
    <3>4. [nftOperators[tld] EXCEPT ![s] = ops] \in [Owner -> SUBSET Owner]
      BY <3>1, <3>2
    <3>5. nftOperators' \in [TLD -> [Owner -> SUBSET Owner]]
      BY <3>3, <3>4
    <3> QED BY <2>1, <2>5, <3>5
            DEF SetTokenOperator, RegistryTypeOK, registryVars, tokenVars
  <2>6. ASSUME NEW tld \in TLD, NEW c \in ControllerAddr,
               AddController(s, tld, c) \/ RemoveController(s, tld, c)
        PROVE  RegistrarTypeOK'
    BY <2>1, <2>6 DEF AddController, RemoveController, RegistryTypeOK,
                      registryVars, tokenVars
  <2> QED BY <1>2, <2>2, <2>3, <2>4, <2>5, <2>6 DEF RegistrarTx
<1>3. ASSUME NEW s \in Account, RegistryTx(s), UNCHANGED <<registrarVars, now>>
      PROVE  RegistrarTypeOK'
  <2>1. RegistryTypeOK'
    BY <1>3, RegistryTypeStep DEF RegistryNext
  <2> QED BY <1>3, <2>1 DEF registrarVars, tokenVars
<1>4. CASE Tick
  BY <1>0, <1>4 DEF Tick, RegistryTypeOK, registryVars, registrarVars, tokenVars
<1>5. CASE UNCHANGED systemVars
  BY <1>5 DEF systemVars, RegistryTypeOK, registryVars, registrarVars, tokenVars
<1> QED BY <1>1, <1>2, <1>3, <1>4, <1>5 DEF RegistrarNext

\* Every variable of the registrars and of the registry keeps its type.
THEOREM RegistrarTypeCorrect == RegistrarSpec => []RegistrarTypeOK
BY RegistrarInitTypeOK, RegistrarTypeStep, PTL DEF RegistrarSpec

------------------------------------------------------------------------------
(***************************************************************************)
(* The inductive invariant.  MintedCoherent needs the clock never to fall  *)
(* behind the deployment, or a registration could store the expiry 0;      *)
(* OnlyEntitledMove needs that nobody operates for a contract: the         *)
(* registrar owns the TLD node and with it the nodes of all names.         *)
(***************************************************************************)
ContractsApproveNobody == \A o \in Owner \ Account : operators[o] = {}

RegistrarIInv ==
    /\ RegistrarTypeOK
    /\ now >= StartTime
    /\ MintedCoherent
    /\ ContractsApproveNobody

\* What a step may do to the tokens of the names, to the clock and to the
\* operators; the cases the invariants and the refinement are proved from.
TokenStep(n) ==
    \/ /\ UNCHANGED <<tokenVars, now>>
    \/ /\ now' > now /\ UNCHANGED tokenVars
    \/ \E o \in Address, d \in Duration : Enroll(n, o, d) /\ UNCHANGED now
    \/ \E d \in Duration :
          Extend(n, d) /\ UNCHANGED <<nft, approved, labelled, now>>
    \/ \E o \in Address : /\ nft[n] # Zero
                          /\ MoveToken(n, o)
                          /\ UNCHANGED <<expires, labelled, now>>
    \/ /\ nft[n] # Zero
       /\ \E o \in Owner : approved' = [approved EXCEPT ![n] = o]
       /\ UNCHANGED <<expires, nft, labelled, now>>

OperatorStep ==
    \/ UNCHANGED <<operators, nftOperators>>
    \/ \E s \in Account, ops \in SUBSET Owner :
          /\ operators' = [operators EXCEPT ![s] = ops]
          /\ UNCHANGED nftOperators
    \/ \E s \in Account, tld \in TLD, ops \in SUBSET Owner :
          /\ nftOperators' = [nftOperators EXCEPT ![tld][s] = ops]
          /\ UNCHANGED operators

\* Every step of the registrars, whoever takes it, has one of these effects:
\* the call tree of each transaction ends in Enroll, Extend, a move or an
\* approval of one token, or leaves the tokens alone.
LEMMA StepEffect ==
    ASSUME RegistrarTypeOK, [RegistrarNext]_systemVars
    PROVE  /\ OperatorStep
           /\ UNCHANGED <<tokenVars, now>> \/ \/ now' > now /\ UNCHANGED tokenVars
                                             \/ \E n \in Name : TokenStep(n)
<1> DEFINE Goal == /\ OperatorStep
                   /\ \/ UNCHANGED <<tokenVars, now>>
                      \/ now' > now /\ UNCHANGED tokenVars
                      \/ \E n \in Name : TokenStep(n)
<1> USE DEF RegistrarTypeOK
<1>0. /\ Grantee \subseteq Owner /\ Operator \subseteq Owner /\ Zero \in Owner
      /\ Account \subseteq Owner /\ Grantee \ {Zero} \subseteq Address
  BY RegistryAssumption DEF Owner
<1>1. ASSUME NEW c \in ControllerAddr, ControllerCall(c) PROVE Goal
  <2>1. PICK n \in Name, d \in Duration :
          \/ \E o \in Grantee : RegisterWithLabel(c, n, o, d)
          \/ \E o \in Grantee, r \in ResolverAddr :
                RegisterWithResolverAndLabel(c, n, o, d, r)
          \/ RenewName(c, n, d)
    BY <1>1 DEF ControllerCall
  <2>2. UNCHANGED now BY <1>1 DEF ControllerCall
  <2>3. ASSUME NEW o \in Grantee,
               \/ RegisterWithLabel(c, n, o, d)
               \/ \E r \in ResolverAddr :
                      RegisterWithResolverAndLabel(c, n, o, d, r)
        PROVE  Goal
    <3>1. Enroll(n, o, d) /\ UNCHANGED <<operators, nftOperators>>
      BY <2>3 DEF RegisterWithLabel, RegisterWithResolverAndLabel
    <3>2. o \in Address BY <1>0, <3>1 DEF Enroll
    <3> QED BY <2>2, <3>1, <3>2 DEF TokenStep, OperatorStep
  <2>4. CASE RenewName(c, n, d)
    BY <2>2, <2>4 DEF RenewName, registryVars, TokenStep, OperatorStep
  <2> QED BY <2>1, <2>3, <2>4
<1>2. ASSUME NEW s \in Account, RegistrarTx(s) PROVE Goal
  <2>1. UNCHANGED now BY <1>2 DEF RegistrarTx
  <2>2. ASSUME NEW n \in Name, NEW o \in Grantee, Reclaim(s, n, o) PROVE Goal
    BY <2>1, <2>2 DEF Reclaim, registrarVars, OperatorStep
  <2>3. ASSUME NEW n \in Name, NEW o \in Grantee, TransferFrom(s, n, o)
        PROVE  Goal
    <3>1. o \in Address BY <1>0, <2>3 DEF TransferFrom
    <3> QED BY <2>1, <2>3, <3>1
            DEF TransferFrom, registryVars, TokenStep, OperatorStep
  <2>4. ASSUME NEW n \in Name, NEW o \in Grantee, Approve(s, n, o) PROVE Goal
    BY <1>0, <2>1, <2>4 DEF Approve, registryVars, TokenStep, OperatorStep
  <2>5. ASSUME NEW tld \in TLD, NEW a \in Operator, NEW ok \in BOOLEAN,
               SetTokenOperator(s, tld, a, ok)
        PROVE  Goal
    <3> DEFINE ops == IF ok THEN nftOperators[tld][s] \cup {a}
                            ELSE nftOperators[tld][s] \ {a}
    <3>1. ops \in SUBSET Owner BY <1>0
    <3>2. nftOperators' = [nftOperators EXCEPT ![tld][s] = ops]
      BY <2>5 DEF SetTokenOperator
    <3> HIDE DEF ops
    <3> QED BY <2>1, <2>5, <3>1, <3>2
            DEF SetTokenOperator, registryVars, OperatorStep
  <2>6. ASSUME NEW tld \in TLD, NEW c \in ControllerAddr,
               AddController(s, tld, c) \/ RemoveController(s, tld, c)
        PROVE  Goal
    BY <2>1, <2>6
    DEF AddController, RemoveController, registryVars, OperatorStep
  <2> QED BY <1>2, <2>2, <2>3, <2>4, <2>5, <2>6 DEF RegistrarTx
<1>3. ASSUME NEW s \in Account, RegistryTx(s), UNCHANGED <<registrarVars, now>>
      PROVE  Goal
  <2>1. Writes(s) \/ Approves(s) BY <1>3, TxEffect
  <2> QED BY <1>3, <2>1
          DEF Writes, Approves, registrarVars, OperatorStep
<1>4. CASE Tick
  BY <1>4 DEF Tick, registryVars, registrarVars, OperatorStep
<1>5. CASE UNCHANGED systemVars
  BY <1>5 DEF systemVars, registryVars, registrarVars, OperatorStep
<1> QED BY <1>1, <1>2, <1>3, <1>4, <1>5 DEF RegistrarNext

\* The invariant holds at deployment and after a migration.
LEMMA RegistrarInitInv == RegistrarInit => RegistrarIInv
<1> SUFFICES ASSUME RegistrarInit PROVE RegistrarIInv OBVIOUS
<1>1. RegistrarTypeOK BY RegistrarInitTypeOK
<1>2. now >= StartTime BY RegistrarAssumption DEF RegistrarInit, TokensInit, DeployedOwner
<1>3. MintedCoherent
  <2> SUFFICES ASSUME NEW n \in Name
               PROVE  /\ nft[n] # Zero <=> expires[n] # 0
                      /\ nft[n] # Zero <=> n \in labelled
                      /\ nft[n] = Zero => approved[n] = Zero
    BY DEF MintedCoherent
  <2>1. IF nft[n] = Zero THEN expires[n] = 0 ELSE expires[n] + GRACE >= now
    BY DEF RegistrarInit, TokensInit, DeployedOwner
  <2>2. 0 + GRACE < now BY RegistrarAssumption DEF RegistrarInit, TokensInit, DeployedOwner
  <2>3. nft[n] # Zero <=> expires[n] # 0
    BY <2>1, <2>2, <1>1, RegistrarAssumption DEF RegistrarTypeOK
  <2> QED BY <2>3 DEF RegistrarInit, TokensInit, DeployedOwner
<1>4. ContractsApproveNobody
  BY DEF RegistrarInit, TokensInit, ContractsApproveNobody
<1> QED BY <1>1, <1>2, <1>3, <1>4 DEF RegistrarIInv

\* No step breaks the invariant.
LEMMA RegistrarInvStep ==
    RegistrarIInv /\ [RegistrarNext]_systemVars => RegistrarIInv'
<1> SUFFICES ASSUME RegistrarIInv, [RegistrarNext]_systemVars
             PROVE  RegistrarIInv'
  OBVIOUS
<1>1. RegistrarTypeOK /\ RegistrarTypeOK'
  BY RegistrarTypeStep DEF RegistrarIInv
<1>2. /\ OperatorStep
      /\ \/ UNCHANGED <<tokenVars, now>>
         \/ now' > now /\ UNCHANGED tokenVars
         \/ \E n \in Name : TokenStep(n)
  BY <1>1, StepEffect
<1>3. now' >= now
  <2>1. ASSUME NEW n \in Name, TokenStep(n) PROVE now' >= now
    BY <1>1, <2>1 DEF TokenStep, RegistrarTypeOK
  <2> QED BY <1>1, <1>2, <2>1 DEF RegistrarTypeOK
<1>4. now' >= StartTime
  BY <1>1, <1>3, RegistrarAssumption DEF RegistrarIInv, RegistrarTypeOK
<1>5. MintedCoherent'
  <2>1. CASE UNCHANGED tokenVars
    BY <2>1 DEF RegistrarIInv, MintedCoherent, tokenVars
  <2>2. ASSUME NEW m \in Name, TokenStep(m), ~UNCHANGED tokenVars
        PROVE  MintedCoherent'
    <3> USE <1>1 DEF RegistrarIInv, MintedCoherent, RegistrarTypeOK
    <3>0. Zero \notin Address BY RegistryAssumption
    <3>1. ASSUME NEW o \in Address, NEW d \in Duration, Enroll(m, o, d)
          PROVE  MintedCoherent'
      <4>1. now + d > 0 BY RegistrarAssumption
      <4>2. now + d # 0 BY <4>1
      <4> QED BY <3>0, <3>1, <4>2 DEF Enroll, MoveToken
    <3>2. ASSUME NEW d \in Duration, Extend(m, d),
                 UNCHANGED <<nft, approved, labelled, now>>
          PROVE  MintedCoherent'
      <4>1. expires[m] # 0
        BY <3>2, RegistrarAssumption DEF Extend
      <4>2. expires[m] + d # 0 BY <4>1, RegistrarAssumption
      <4> QED BY <3>2, <4>1, <4>2 DEF Extend
    <3>3. ASSUME NEW o \in Address, nft[m] # Zero, MoveToken(m, o),
                 UNCHANGED <<expires, labelled, now>>
          PROVE  MintedCoherent'
      BY <3>0, <3>3 DEF MoveToken
    <3>4. ASSUME NEW o \in Owner, nft[m] # Zero,
                 approved' = [approved EXCEPT ![m] = o],
                 UNCHANGED <<expires, nft, labelled, now>>
          PROVE  MintedCoherent'
      BY <3>4
    <3> QED BY <2>2, <3>1, <3>2, <3>3, <3>4 DEF TokenStep, tokenVars
  <2> QED BY <1>2, <2>1, <2>2 DEF tokenVars
<1>6. ContractsApproveNobody'
  <2>1. ContractsApproveNobody BY DEF RegistrarIInv
  <2>2. CASE UNCHANGED operators
    BY <2>1, <2>2 DEF ContractsApproveNobody
  <2>3. ASSUME NEW s \in Account, NEW ops \in SUBSET Owner,
               operators' = [operators EXCEPT ![s] = ops]
        PROVE  ContractsApproveNobody'
    BY <1>1, <2>1, <2>3
    DEF ContractsApproveNobody, RegistrarTypeOK, RegistryTypeOK
  <2> QED BY <1>2, <2>2, <2>3 DEF OperatorStep
<1> QED BY <1>1, <1>4, <1>5, <1>6 DEF RegistrarIInv

\* The invariant of the registrars, in every reachable state.
LEMMA RegistrarInvariant == RegistrarSpec => []RegistrarIInv
BY RegistrarInitInv, RegistrarInvStep, PTL DEF RegistrarSpec

\* A token exists exactly for the names with an expiry and a stored label.
THEOREM MintedCoherentHolds == RegistrarSpec => []MintedCoherent
<1>1. RegistrarIInv => MintedCoherent BY DEF RegistrarIInv
<1> QED BY <1>1, RegistrarInvariant, PTL

------------------------------------------------------------------------------
(***************************************************************************)
(* The registrar implements the abstract lease.                            *)
(***************************************************************************)
\* A deployed registrar is a lease at its start.
LEMMA LeaseStarts ==
    ASSUME TokensInit, RegistrarTypeOK PROVE AbstractLease!LeaseInit
<1>1. \A n \in Name : nft[n] = Zero <=> ~(now <= expires[n] + GRACE)
  <2> SUFFICES ASSUME NEW n \in Name
               PROVE  nft[n] = Zero <=> ~(now <= expires[n] + GRACE)
    OBVIOUS
  <2>1. IF nft[n] = Zero THEN expires[n] = 0 ELSE expires[n] + GRACE >= now
    BY DEF TokensInit
  <2>2. now = StartTime BY DEF TokensInit
  <2> QED BY <2>1, <2>2, RegistrarAssumption DEF RegistrarTypeOK
<1> QED BY <1>1
        DEF TokensInit, RegistrarTypeOK, Owner, AbstractLease!LeaseInit,
            AbstractLease!Reserved

\* Every effect a step may have on a token is a step of its lease.
LEMMA TokenStepsLease ==
    ASSUME RegistrarTypeOK,
           \/ UNCHANGED <<tokenVars, now>>
           \/ now' > now /\ UNCHANGED tokenVars
           \/ \E n \in Name : TokenStep(n)
    PROVE  [AbstractLease!LeaseNext]_AbstractLease!leaseVars
<1>1. CASE UNCHANGED <<tokenVars, now>>
  BY <1>1 DEF tokenVars, AbstractLease!leaseVars
<1>2. CASE now' > now /\ UNCHANGED tokenVars
  BY <1>2 DEF tokenVars, AbstractLease!LeaseNext, AbstractLease!TimePasses
<1>3. ASSUME NEW n \in Name, TokenStep(n)
      PROVE  [AbstractLease!LeaseNext]_AbstractLease!leaseVars
  <2>1. ASSUME NEW o \in Address, NEW d \in Duration, Enroll(n, o, d),
               UNCHANGED now
        PROVE  AbstractLease!LeaseNext
    <3>1. AbstractLease!Grant(n, o, d)
      BY <2>1, RegistrarAssumption
      DEF Enroll, Available, MoveToken, RegistrarTypeOK,
          AbstractLease!Grant, AbstractLease!Reserved
    <3> QED BY <3>1 DEF AbstractLease!LeaseNext
  <2>2. ASSUME NEW d \in Duration, Extend(n, d),
               UNCHANGED <<nft, approved, labelled, now>>
        PROVE  AbstractLease!LeaseNext
    <3>1. AbstractLease!ExtendLease(n, d)
      BY <2>2, RegistrarAssumption
      DEF Extend, RegistrarTypeOK, AbstractLease!ExtendLease, AbstractLease!Reserved
    <3> QED BY <3>1 DEF AbstractLease!LeaseNext
  <2>3. ASSUME NEW o \in Address, nft[n] # Zero, MoveToken(n, o),
               UNCHANGED <<expires, labelled, now>>
        PROVE  AbstractLease!LeaseNext
    <3>1. AbstractLease!PassOn(n, o)
      BY <2>3 DEF MoveToken, AbstractLease!PassOn
    <3> QED BY <3>1 DEF AbstractLease!LeaseNext
  <2> QED BY <1>1, <1>2, <1>3, <2>1, <2>2, <2>3
          DEF TokenStep, AbstractLease!leaseVars
<1> QED BY <1>1, <1>2, <1>3

\* The registrar's states map to lease states by reading the token's owner
\* as holder and nameExpires as the end of the lease; every transaction is a
\* step of the lease or leaves it as it is.
THEOREM RegistrarImplementsLease == RegistrarSpec => ImplementsLease
<1>1. RegistrarInit => AbstractLease!LeaseInit
  BY LeaseStarts, RegistrarInitTypeOK DEF RegistrarInit
<1>2. RegistrarIInv /\ [RegistrarNext]_systemVars
        => [AbstractLease!LeaseNext]_AbstractLease!leaseVars
  BY StepEffect, TokenStepsLease DEF RegistrarIInv
<1> QED BY <1>1, <1>2, RegistrarInvariant, PTL
        DEF RegistrarSpec, ImplementsLease, AbstractLease!LeaseSpec

------------------------------------------------------------------------------
(***************************************************************************)
(* Who moves a name.                                                       *)
(***************************************************************************)
\* The steps that touch the token, the lease or the node of a name, with
\* the guard each of them has passed.
Granting(n) ==
    \E c \in ControllerAddr, o \in Address, d \in Duration :
        /\ sender' = c
        /\ OnlyController(c, n)
        /\ Enroll(n, o, d)
        /\ records'[n].owner = o

Renewing(n) ==
    \E c \in ControllerAddr, d \in Duration :
        /\ OnlyController(c, n)
        /\ Extend(n, d)
        /\ UNCHANGED <<nft, records>>

HandingOver(n) ==
    \E s \in Account, o \in Address :
        /\ sender' = s
        /\ TokenAuthorised(s, n)
        /\ MoveToken(n, o)
        /\ UNCHANGED <<expires, records>>

Reclaiming(n) ==
    \E s \in Account :
        /\ sender' = s
        /\ Live(n[1]) /\ TokenAuthorised(s, n)
        /\ UNCHANGED <<expires, nft>>

Rewriting(n) ==
    \E s \in Account :
        /\ sender' = s
        /\ Authorised(s, n) \/ Authorised(s, <<n[1]>>)
        /\ UNCHANGED <<expires, nft>>

Untouched(n) ==
    /\ expires'[n] = expires[n]
    /\ nft'[n] = nft[n]
    /\ records'[n] = records[n]

\* A write to the node of one name is no write to that of another.
LEMMA OtherNode ==
    ASSUME RegistrarTypeOK, NEW m \in Name, NEW n \in Name, NEW o \in Owner
    PROVE  /\ m # n => WithSubnodeOwner(records, <<m[1]>>, m[2], o)[n] = records[n]
           /\ WithSubnodeOwner(records, <<m[1]>>, m[2], o)[m].owner = o
           /\ \A r \in ResolverAddr :
                LET written == WithSubnodeRecord(records, <<m[1]>>, m[2], o, r, 0) IN
                /\ m # n => written[n] = records[n]
                /\ written[m].owner = o
<1>1. /\ Append(<<m[1]>>, m[2]) = m /\ m \in Nodes /\ n \in Nodes
      /\ records \in [Nodes -> Record]
  BY NodeOfName DEF RegistrarTypeOK, RegistryTypeOK
<1>2. records[m] \in Record BY <1>1
<1> QED BY <1>1, <1>2
        DEF Record, WithSubnodeOwner, WithOwner, WithSubnodeRecord, WithRecord

\* No other step touches a name.
LEMMA NameEffect ==
    ASSUME RegistrarTypeOK, [RegistrarNext]_systemVars, NEW n \in Name
    PROVE  \/ Untouched(n) \/ Granting(n) \/ Renewing(n)
           \/ HandingOver(n) \/ Reclaiming(n) \/ Rewriting(n)
<1> DEFINE Goal == \/ Untouched(n) \/ Granting(n) \/ Renewing(n)
                   \/ HandingOver(n) \/ Reclaiming(n) \/ Rewriting(n)
<1>0. /\ Grantee \subseteq Owner /\ Zero \notin Address
      /\ Grantee \ {Zero} \subseteq Address
      /\ expires \in [Name -> Nat] /\ nft \in [Name -> Owner]
  BY RegistryAssumption DEF Owner, RegistrarTypeOK
<1>1. ASSUME NEW c \in ControllerAddr, ControllerCall(c) PROVE Goal
  <2>1. PICK m \in Name, d \in Duration :
          \/ \E o \in Grantee : RegisterWithLabel(c, m, o, d)
          \/ \E o \in Grantee, r \in ResolverAddr :
                RegisterWithResolverAndLabel(c, m, o, d, r)
          \/ RenewName(c, m, d)
    BY <1>1 DEF ControllerCall
  <2>2. sender' = c BY <1>1 DEF ControllerCall
  <2>3. ASSUME NEW o \in Grantee, OnlyController(c, m), Enroll(m, o, d),
               m # n => records'[n] = records[n],
               records'[m].owner = o
        PROVE  Goal
    <3>1. CASE m = n
      <4>1. o \in Address BY <1>0, <2>3 DEF Enroll
      <4> QED BY <2>2, <2>3, <3>1, <4>1 DEF Granting
    <3>2. CASE m # n
      BY <1>0, <2>3, <3>2 DEF Enroll, MoveToken, Untouched
    <3> QED BY <3>1, <3>2
  <2>4. ASSUME NEW o \in Grantee, RegisterWithLabel(c, m, o, d) PROVE Goal
    <3>1. o \in Owner BY <1>0
    <3>2. /\ m # n => records'[n] = records[n]
          /\ records'[m].owner = o
      BY <2>4, <3>1, OtherNode DEF RegisterWithLabel, EnrolledNode
    <3> QED BY <2>3, <2>4, <3>2 DEF RegisterWithLabel
  <2>5. ASSUME NEW o \in Grantee, NEW r \in ResolverAddr,
               RegisterWithResolverAndLabel(c, m, o, d, r)
        PROVE  Goal
    <3>1. o \in Owner BY <1>0
    <3>2. /\ m # n => records'[n] = records[n]
          /\ records'[m].owner = o
      BY <2>5, <3>1, OtherNode DEF RegisterWithResolverAndLabel, EnrolledRecord
    <3> QED BY <2>3, <2>5, <3>2 DEF RegisterWithResolverAndLabel
  <2>6. CASE RenewName(c, m, d)
    <3>1. CASE m = n
      BY <2>6, <3>1 DEF RenewName, Renewing, registryVars
    <3>2. CASE m # n
      BY <1>0, <2>6, <3>2 DEF RenewName, Extend, Untouched, registryVars
    <3> QED BY <3>1, <3>2
  <2> QED BY <2>1, <2>4, <2>5, <2>6
<1>2. ASSUME NEW s \in Account, RegistrarTx(s) PROVE Goal
  <2>1. sender' = s BY <1>2 DEF RegistrarTx
  <2>2. ASSUME NEW m \in Name, NEW o \in Grantee, Reclaim(s, m, o) PROVE Goal
    <3>1. o \in Owner BY <1>0
    <3>2. m # n => records'[n] = records[n]
      BY <2>2, <3>1, OtherNode DEF Reclaim
    <3>3. UNCHANGED <<expires, nft>>
      BY <2>2 DEF Reclaim, registrarVars, tokenVars
    <3>4. CASE m = n
      BY <2>1, <2>2, <3>3, <3>4 DEF Reclaim, Reclaiming
    <3>5. CASE m # n
      BY <3>2, <3>3, <3>5 DEF Untouched
    <3> QED BY <3>4, <3>5
  <2>3. ASSUME NEW m \in Name, NEW o \in Grantee, TransferFrom(s, m, o)
        PROVE  Goal
    <3>1. o \in Address BY <1>0, <2>3 DEF TransferFrom
    <3>2. CASE m = n
      BY <2>1, <2>3, <3>1, <3>2 DEF TransferFrom, HandingOver, registryVars
    <3>3. CASE m # n
      BY <1>0, <2>3, <3>3 DEF TransferFrom, MoveToken, Untouched, registryVars
    <3> QED BY <3>2, <3>3
  <2>4. ASSUME NEW m \in Name, NEW o \in Grantee, Approve(s, m, o) PROVE Goal
    BY <2>4 DEF Approve, Untouched, registryVars
  <2>5. ASSUME NEW tld \in TLD, NEW a \in Operator, NEW ok \in BOOLEAN,
               SetTokenOperator(s, tld, a, ok)
        PROVE  Goal
    BY <2>5 DEF SetTokenOperator, Untouched, registryVars, tokenVars
  <2>6. ASSUME NEW tld \in TLD, NEW c \in ControllerAddr,
               AddController(s, tld, c) \/ RemoveController(s, tld, c)
        PROVE  Goal
    BY <2>6 DEF AddController, RemoveController, Untouched, registryVars, tokenVars
  <2> QED BY <1>2, <2>2, <2>3, <2>4, <2>5, <2>6 DEF RegistrarTx
<1>3. ASSUME NEW s \in Account, RegistryTx(s), UNCHANGED <<registrarVars, now>>
      PROVE  Goal
  <2>1. sender' = s /\ (Writes(s) \/ Approves(s))
    BY <1>3, TxEffect DEF RegistrarTypeOK
  <2>2. UNCHANGED <<expires, nft>> BY <1>3 DEF registrarVars, tokenVars
  <2>3. CASE Approves(s) BY <2>2, <2>3 DEF Approves, Untouched
  <2>4. CASE Writes(s)
    <3>1. PICK m \in Nodes, rec \in Record :
            /\ records' = [records EXCEPT ![m] = rec]
            /\ \E p \in Nodes : SelfOrParent(p, m) /\ Authorised(s, p)
      BY <2>4 DEF Writes
    <3>2. CASE m = n
      BY <2>1, <2>2, <3>1, <3>2, ParentOfName DEF Rewriting
    <3>3. CASE m # n
      <4>1. records'[n] = records[n]
        BY <3>1, <3>3, NodeOfName DEF RegistrarTypeOK, RegistryTypeOK
      <4> QED BY <2>2, <4>1 DEF Untouched
    <3> QED BY <3>2, <3>3
  <2> QED BY <2>1, <2>3, <2>4
<1>4. CASE Tick
  BY <1>4 DEF Tick, Untouched, registryVars, registrarVars, tokenVars
<1>5. CASE UNCHANGED systemVars
  BY <1>5 DEF systemVars, Untouched, registryVars, registrarVars, tokenVars
<1> QED BY <1>1, <1>2, <1>3, <1>4, <1>5 DEF RegistrarNext

\* While the registrar holds the TLD node nobody else has authority over it,
\* so that authority over a name comes from its token, its node, or a
\* registration: the two ownership surfaces let in no third party.
THEOREM OnlyEntitledMoveHolds == RegistrarSpec => OnlyEntitledMove
<1>1. ASSUME RegistrarIInv, [RegistrarNext]_systemVars, NEW n \in Name,
             Live(n[1]), Live(n[1])'
      PROVE  /\ records'[n] # records[n] => Entitled(sender', n)
             /\ nft'[n] # nft[n] =>
                    \/ TokenAuthorised(sender', n)
                    \/ Available(n) /\ sender' \in controllers[n[1]]
  <2> USE DEF Entitled
  <2>0. RegistrarTypeOK BY <1>1 DEF RegistrarIInv
  <2>1. CASE Untouched(n) BY <2>1 DEF Untouched
  <2>2. CASE Granting(n) BY <2>2 DEF Granting, Enroll, OnlyController
  <2>3. CASE Renewing(n) BY <2>3 DEF Renewing
  <2>4. CASE HandingOver(n) BY <2>4 DEF HandingOver
  <2>5. CASE Reclaiming(n) BY <2>5 DEF Reclaiming
  <2>6. CASE Rewriting(n)
    <3>1. PICK s \in Account :
            /\ sender' = s
            /\ Authorised(s, n) \/ Authorised(s, <<n[1]>>)
            /\ UNCHANGED <<expires, nft>>
      BY <2>6 DEF Rewriting
    <3>2. ~Authorised(s, <<n[1]>>)
      <4>1. n[1] \in TLD BY NodeOfName
      <4>2. RegistrarOf[n[1]] \in Owner \ Account
        BY <4>1, RegistrarAssumption DEF Owner
      <4>3. operators[RegistrarOf[n[1]]] = {}
        BY <1>1, <4>2 DEF RegistrarIInv, ContractsApproveNobody
      <4> QED BY <1>1, <4>2, <4>3 DEF Live, Authorised
    <3> QED BY <3>1, <3>2
  <2> QED BY <1>1, <2>0, <2>1, <2>2, <2>3, <2>4, <2>5, <2>6, NameEffect
<1>2. RegistrarIInv /\ [RegistrarNext]_systemVars =>
        [\A n \in Name : Live(n[1]) /\ Live(n[1])' =>
           /\ records'[n] # records[n] => Entitled(sender', n)
           /\ nft'[n] # nft[n] =>
                  \/ TokenAuthorised(sender', n)
                  \/ Available(n) /\ sender' \in controllers[n[1]]]_systemVars
  BY <1>1
<1> QED BY <1>2, RegistrarInvariant, PTL DEF RegistrarSpec, OnlyEntitledMove

\* A token that changes hands loses its approval, and a registration gives
\* the node to the new holder: nothing of the former tenure survives.
THEOREM CleanTitleHolds == RegistrarSpec => CleanTitle
<1>1. ASSUME RegistrarIInv, [RegistrarNext]_systemVars, NEW n \in Name,
             NEW s \in Address, nft'[n] # nft[n] \/ Granted(n)
      PROVE  /\ TokenAuthorised(s, n)' =>
                    s = nft'[n] \/ s \in nftOperators'[n[1]][nft'[n]]
             /\ Granted(n) /\ Authorised(s, n)' =>
                    s = nft'[n] \/ s \in operators'[nft'[n]]
  <2>0. /\ RegistrarTypeOK /\ Zero \notin Address
        /\ expires \in [Name -> Nat] /\ now \in Nat
        /\ nft \in [Name -> Owner] /\ approved \in [Name -> Owner]
    BY <1>1, RegistryAssumption DEF RegistrarIInv, RegistrarTypeOK
  <2>1. CASE Untouched(n) BY <1>1, <2>1 DEF Untouched, Granted
  <2>2. CASE Granting(n)
    <3>1. PICK c \in ControllerAddr, o \in Address, d \in Duration :
            Enroll(n, o, d) /\ records'[n].owner = o
      BY <2>2 DEF Granting
    <3>2. nft'[n] = o /\ approved'[n] = Zero
      BY <2>0, <3>1 DEF Enroll, MoveToken
    <3> QED BY <2>0, <3>1, <3>2 DEF TokenAuthorised, Authorised
  <2>3. CASE Renewing(n)
    BY <1>1, <2>0, <2>3, RegistrarAssumption
    DEF Renewing, Extend, Granted, Available
  <2>4. CASE HandingOver(n)
    <3>1. approved'[n] = Zero /\ expires' = expires
      BY <2>0, <2>4 DEF HandingOver, MoveToken
    <3> QED BY <2>0, <3>1 DEF TokenAuthorised, Granted
  <2>5. CASE Reclaiming(n) BY <1>1, <2>5 DEF Reclaiming, Granted
  <2>6. CASE Rewriting(n) BY <1>1, <2>6 DEF Rewriting, Granted
  <2> QED BY <1>1, <2>0, <2>1, <2>2, <2>3, <2>4, <2>5, <2>6, NameEffect
<1>2. RegistrarIInv /\ [RegistrarNext]_systemVars =>
        [\A n \in Name, s \in Address : nft'[n] # nft[n] \/ Granted(n) =>
           /\ TokenAuthorised(s, n)' =>
                  s = nft'[n] \/ s \in nftOperators'[n[1]][nft'[n]]
           /\ Granted(n) /\ Authorised(s, n)' =>
                  s = nft'[n] \/ s \in operators'[nft'[n]]]_systemVars
  BY <1>1
<1> QED BY <1>2, RegistrarInvariant, PTL DEF RegistrarSpec, CleanTitle

\* The live modifier stands in front of every write of a registrar to leases
\* and nodes, so that a registrar without its TLD node leaves both alone.
THEOREM InertWithoutTLDHolds == RegistrarSpec => InertWithoutTLD
<1>1. ASSUME RegistrarIInv, [RegistrarNext]_systemVars, NEW n \in Name,
             ~Live(n[1])
      PROVE  /\ UNCHANGED expires[n]
             /\ records'[n] # records[n] =>
                   Authorised(sender', n) \/ Authorised(sender', <<n[1]>>)
  <2>0. RegistrarTypeOK BY <1>1 DEF RegistrarIInv
  <2>1. CASE Untouched(n) BY <2>1 DEF Untouched
  <2>2. CASE Granting(n) BY <1>1, <2>2 DEF Granting, OnlyController
  <2>3. CASE Renewing(n) BY <1>1, <2>3 DEF Renewing, OnlyController
  <2>4. CASE HandingOver(n) BY <2>4 DEF HandingOver
  <2>5. CASE Reclaiming(n) BY <1>1, <2>5 DEF Reclaiming
  <2>6. CASE Rewriting(n) BY <2>6 DEF Rewriting
  <2> QED BY <1>1, <2>0, <2>1, <2>2, <2>3, <2>4, <2>5, <2>6, NameEffect
<1>2. RegistrarIInv /\ [RegistrarNext]_systemVars =>
        [\A n \in Name : ~Live(n[1]) =>
           /\ UNCHANGED expires[n]
           /\ records'[n] # records[n] =>
                 Authorised(sender', n) \/ Authorised(sender', <<n[1]>>)]_systemVars
  BY <1>1
<1> QED BY <1>2, RegistrarInvariant, PTL DEF RegistrarSpec, InertWithoutTLD
==============================================================================
