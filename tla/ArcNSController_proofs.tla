------------------------ MODULE ArcNSController_proofs ------------------------
(***************************************************************************)
(* The guarantees of the resolvers and the reverse registrars, for every   *)
(* number of them, every set of names and every grant of CONTROLLER_ROLE;  *)
(* and of the sale, which writes to them, for every set of TLDs, names,    *)
(* requests and accounts, every price table and every setting of the       *)
(* administrators.                                                         *)
(***************************************************************************)
EXTENDS ArcNSController, ArcNSBaseRegistrar_proofs, SequenceTheorems

------------------------------------------------------------------------------
(* Resolvers and reverse registrars.                                        *)

resolutionVars == <<registryVars, resolverVars, sender>>

\* The reverse nodes of two addresses differ, and none is a primary name.
LEMMA ReverseNodes ==
    ASSUME NEW a \in Named
    PROVE  /\ a \in Account /\ a \in Owner /\ a \in Label
           /\ ReverseNode(a) \in Nodes
           /\ \A b \in Named : ReverseNode(a) = ReverseNode(b) => a = b
           /\ Len(ReverseNode(a)) = 3
           /\ ReverseNode(a) \notin PrimaryName
<1>1. a \in Account /\ ReverseNode(a) \in Nodes BY DEF Named, ReverseNode
<1>2. a \in Owner /\ a \in Label
  BY <1>1, RegistryAssumption, ResolverAssumption DEF Owner
<1>3. ADDR_REVERSE_NODE \in Seq(Label) /\ Len(ADDR_REVERSE_NODE) = 2
  BY RegistryAssumption, ResolverAssumption
<1>4. \A l \in Label : /\ Len(Append(ADDR_REVERSE_NODE, l)) = 2 + 1
                       /\ Append(ADDR_REVERSE_NODE, l)[2 + 1] = l
  <2>1. \A l \in Label :
           /\ Len(Append(ADDR_REVERSE_NODE, l)) = Len(ADDR_REVERSE_NODE) + 1
           /\ Append(ADDR_REVERSE_NODE, l)[Len(ADDR_REVERSE_NODE) + 1] = l
    BY <1>3, AppendProperties, Zenon
  <2> QED BY <1>3, <2>1, Zenon
<1>5. ASSUME NEW b \in Named, ReverseNode(a) = ReverseNode(b) PROVE a = b
  <2>1. b \in Label BY RegistryAssumption, ResolverAssumption DEF Named
  <2> QED BY <1>2, <1>4, <1>5, <2>1 DEF ReverseNode
<1>6. Len(ReverseNode(a)) = 3 BY <1>2, <1>4 DEF ReverseNode
<1> QED BY <1>1, <1>2, <1>5, <1>6, ResolverAssumption

\* The record a claim leaves in the registry.
ClaimRecord(o, r) == [owner |-> o, resolver |-> r, ttl |-> 0]

LEMMA ClaimRecordFields ==
    ASSUME NEW o \in Owner, NEW r \in ResolverAddr \cup {Zero}
    PROVE  /\ ClaimRecord(o, r) \in Record
           /\ ClaimRecord(o, r).owner = o /\ ClaimRecord(o, r).resolver = r
  BY RegistryAssumption DEF Record, ClaimRecord

\* A claim rewrites one reverse node.
LEMMA ClaimEffect ==
    ASSUME NEW recs, NEW a, NEW o, NEW r
    PROVE  WithClaim(recs, a, o, r) =
             [recs EXCEPT ![ReverseNode(a)] = ClaimRecord(o, r)]
  BY DEF ClaimRecord, WithClaim, WithSubnodeRecord, WithRecord, ReverseNode


------------------------------------------------------------------------------
(***************************************************************************)
(* What a transaction does to resolution.                                  *)
(***************************************************************************)
\* The address of one node, by somebody who may write it.
WritesAddr(s) ==
    \E r \in Resolver, n \in Nodes, a \in Owner :
        /\ MayWriteRecord(records, s, r, n)
        /\ addrs' = WithAddr(r, n, a)
        /\ UNCHANGED <<records, operators, names, trusted, defaultResolver>>

\* A name record, by a holder of CONTROLLER_ROLE.
WritesName(s) ==
    \E r \in Resolver, a \in Named, m \in PrimaryName :
        /\ s \in trusted[r]
        /\ names' = [names EXCEPT ![r][ReverseNode(a)] = m]
        /\ UNCHANGED <<records, operators, addrs, trusted, defaultResolver>>

\* A reverse node and the name record its resolver has for it, by anybody.
Reverses(s) ==
    \E rr \in ReverseRegistrar, a \in Named, m \in PrimaryName :
        /\ records' = WithReverseRecord(records, rr, a)
        /\ names' = WithReverseName(rr, a, m)
        /\ UNCHANGED <<operators, addrs, trusted, defaultResolver>>

\* A reverse node alone, by its address or its owner.
Claims(s) ==
    \E a \in Named, o \in Owner, r \in ResolverAddr \cup {Zero} :
        /\ s = a \/ s = records[ReverseNode(a)].owner
        /\ records' = WithClaim(records, a, o, r)
        /\ UNCHANGED <<operators, addrs, names, trusted, defaultResolver>>

\* Roles and default resolvers, by the administrator.
Administers(s) ==
    /\ UNCHANGED <<records, operators, addrs, names>>
    /\ \/ /\ \E r \in Resolver, cs \in SUBSET Address :
                trusted' = [trusted EXCEPT ![r] = cs]
          /\ UNCHANGED defaultResolver
       \/ /\ \E rr \in ReverseRegistrar, r \in Resolver :
                defaultResolver' = [defaultResolver EXCEPT ![rr] = r]
          /\ UNCHANGED trusted

\* Whatever is sent to a resolver or a reverse registrar does one of these.
LEMMA ResolverTxEffect ==
    ASSUME ResolverTypeOK, NEW s \in Account, ResolverTx(s)
    PROVE  /\ sender' = s
           /\ WritesAddr(s) \/ WritesName(s) \/ Reverses(s) \/ Claims(s) \/ Administers(s)
<1> USE DEF ResolverTypeOK
<1>0. sender' = s /\ Grantee \subseteq Owner
  BY RegistryAssumption DEF ResolverTx, Owner
<1>1. ASSUME NEW r \in Resolver, NEW n \in Recorded, NEW a \in Grantee,
             SetAddr(s, r, n, a)
      PROVE  WritesAddr(s)
  BY <1>0, <1>1, ResolverAssumption DEF SetAddr, WritesAddr, registryVars
<1>2. ASSUME NEW r \in Resolver, NEW a \in Named, NEW m \in PrimaryName,
             SetNameRecord(s, r, ReverseNode(a), m)
      PROVE  WritesName(s)
  BY <1>2 DEF SetNameRecord, WritesName, registryVars
<1>3. ASSUME NEW r \in Resolver, NEW c \in Trustee, NEW ok \in BOOLEAN,
             SetController(s, r, c, ok)
      PROVE  Administers(s)
  <2> DEFINE cs == IF ok THEN trusted[r] \cup {c} ELSE trusted[r] \ {c}
  <2>1. cs \in SUBSET Address BY ResolverAssumption
  <2>2. trusted' = [trusted EXCEPT ![r] = cs] BY <1>3 DEF SetController
  <2> HIDE DEF cs
  <2> QED BY <1>3, <2>1, <2>2 DEF SetController, Administers, registryVars
<1>4. ASSUME NEW rr \in ReverseRegistrar, NEW a \in Named, NEW m \in PrimaryName,
             SetReverseRecord(s, rr, a, m)
      PROVE  Reverses(s)
  BY <1>4 DEF SetReverseRecord, Reverses
<1>5. ASSUME NEW rr \in ReverseRegistrar, NEW m \in PrimaryName,
             SetPrimaryName(s, rr, m)
      PROVE  Reverses(s)
  <2>1. s \in Named BY <1>5 DEF SetPrimaryName, SetReverseRecord, CanSetReverse
  <2> QED BY <1>5, <2>1 DEF SetPrimaryName, SetReverseRecord, Reverses
<1>6. ASSUME NEW rr \in ReverseRegistrar, NEW a \in Named, NEW o \in Grantee,
             NEW r \in ResolverAddr \cup {Zero}, ClaimWithResolver(s, rr, a, o, r)
      PROVE  Claims(s)
  BY <1>0, <1>6 DEF ClaimWithResolver, Claims, resolverVars
<1>7. ASSUME NEW rr \in ReverseRegistrar, NEW r \in Resolver,
             SetDefaultResolver(s, rr, r)
      PROVE  Administers(s)
  BY <1>7 DEF SetDefaultResolver, Administers, registryVars
<1> QED BY <1>0, <1>1, <1>2, <1>3, <1>4, <1>5, <1>6, <1>7 DEF ResolverTx

\* The reverse record of an address, written out.
LEMMA ReverseEffect ==
    ASSUME ResolverTypeOK, NEW recs \in [Nodes -> Record],
           NEW rr \in ReverseRegistrar, NEW a \in Named
    PROVE  /\ defaultResolver[rr] \in Resolver
           /\ ClaimRecord(a, defaultResolver[rr]) \in Record
           /\ ClaimRecord(a, defaultResolver[rr]).owner = a
           /\ ClaimRecord(a, defaultResolver[rr]).resolver = defaultResolver[rr]
           /\ WithReverseRecord(recs, rr, a) =
                [recs EXCEPT ![ReverseNode(a)] = ClaimRecord(a, defaultResolver[rr])]
<1>1. a \in Owner BY ReverseNodes
<1>2. defaultResolver[rr] \in Resolver
  BY DEF ResolverTypeOK
<1>3. defaultResolver[rr] \in ResolverAddr \cup {Zero}
  BY <1>2, ResolverAssumption
<1>4. WithClaim(recs, a, a, defaultResolver[rr]) =
        [recs EXCEPT ![ReverseNode(a)] = ClaimRecord(a, defaultResolver[rr])]
  BY ClaimEffect, Zenon
<1> QED BY <1>1, <1>2, <1>3, <1>4, ClaimRecordFields DEF WithReverseRecord

\* Rewriting the reverse node of an address rewrites no other node.
LEMMA OneReverseNode ==
    ASSUME ResolverTypeOK, NEW recs \in [Nodes -> Record],
           NEW a \in Named, NEW n \in Nodes
    PROVE  /\ \A rr \in ReverseRegistrar :
                LET written == WithReverseRecord(recs, rr, a) IN
                /\ written \in [Nodes -> Record]
                /\ n # ReverseNode(a) => written[n] = recs[n]
                /\ written[ReverseNode(a)].owner = a
                /\ written[ReverseNode(a)].resolver = defaultResolver[rr]
           /\ \A o \in Owner, r \in ResolverAddr \cup {Zero} :
                /\ WithClaim(recs, a, o, r) \in [Nodes -> Record]
                /\ n # ReverseNode(a) => WithClaim(recs, a, o, r)[n] = recs[n]
<1>1. ReverseNode(a) \in Nodes BY ReverseNodes
<1>2. ASSUME NEW rr \in ReverseRegistrar
      PROVE  LET written == WithReverseRecord(recs, rr, a) IN
             /\ written \in [Nodes -> Record]
             /\ n # ReverseNode(a) => written[n] = recs[n]
             /\ written[ReverseNode(a)].owner = a
             /\ written[ReverseNode(a)].resolver = defaultResolver[rr]
  BY <1>1, ReverseEffect
<1>3. ASSUME NEW o \in Owner, NEW r \in ResolverAddr \cup {Zero}
      PROVE  /\ WithClaim(recs, a, o, r) \in [Nodes -> Record]
             /\ n # ReverseNode(a) => WithClaim(recs, a, o, r)[n] = recs[n]
  BY <1>1, ClaimEffect, ClaimRecordFields
<1> QED BY <1>2, <1>3

------------------------------------------------------------------------------
(***************************************************************************)
(* Types.                                                                  *)
(***************************************************************************)
\* The deployed resolvers and reverse registrars are well typed.
LEMMA ResolverInitTypeOK == ResolverInit => ResolverTypeOK
<1> SUFFICES ASSUME ResolverInit PROVE ResolverTypeOK OBVIOUS
<1> USE RegistryAssumption, ResolverAssumption
    DEF ResolverInit, ResolverRecordsInit, Owner
<1>1. PICK rr \in ReverseRegistrar, holder \in [PrimaryName -> Grantee] :
        records = [n \in Nodes |-> [NoRecord EXCEPT !.owner =
                        IF n = Root THEN Deployer
                        ELSE IF n = ADDR_REVERSE_NODE THEN rr
                        ELSE IF n \in PrimaryName THEN holder[n]
                        ELSE Zero]]
  OBVIOUS
<1>2. records \in [Nodes -> Record]
  <2>1. ASSUME NEW o \in Owner PROVE [NoRecord EXCEPT !.owner = o] \in Record
    BY <2>1 DEF NoRecord, Record
  <2>2. \A n \in Nodes : (IF n = Root THEN Deployer
                          ELSE IF n = ADDR_REVERSE_NODE THEN rr
                          ELSE IF n \in PrimaryName THEN holder[n]
                          ELSE Zero) \in Owner
    BY <1>1
  <2> QED BY <1>1, <2>1, <2>2
<1>3. RegistryTypeOK BY <1>2 DEF RegistryTypeOK
<1>4. /\ addrs \in [Resolver -> [Nodes -> Owner]]
      /\ names \in [Resolver -> [Nodes -> Nodes]]
  BY DEF Root
<1>5. trusted \in [Resolver -> SUBSET Address] OBVIOUS
<1> QED BY <1>3, <1>4, <1>5 DEF ResolverTypeOK

\* A transaction of a resolver or a reverse registrar keeps the types.
LEMMA ResolverTxType ==
    ASSUME ResolverTypeOK, NEW s \in Account, ResolverTx(s)
    PROVE  ResolverTypeOK'
<1> USE DEF ResolverTypeOK
<1>1. /\ sender' \in Owner
      /\ WritesAddr(s) \/ WritesName(s) \/ Reverses(s) \/ Claims(s) \/ Administers(s)
  BY ResolverTxEffect, RegistryAssumption DEF Owner
<1>2. CASE WritesAddr(s)
  BY <1>1, <1>2 DEF WritesAddr, WithAddr, RegistryTypeOK
<1>3. CASE WritesName(s)
  <2>1. PrimaryName \subseteq Nodes BY ResolverAssumption
  <2> QED BY <1>1, <1>3, <2>1, ReverseNodes DEF WritesName, RegistryTypeOK
<1>4. CASE Reverses(s)
  <2>1. PICK rr \in ReverseRegistrar, a \in Named, m \in PrimaryName :
          /\ records' = WithReverseRecord(records, rr, a)
          /\ names' = WithReverseName(rr, a, m)
          /\ UNCHANGED <<operators, addrs, trusted, defaultResolver>>
    BY <1>4 DEF Reverses
  <2>2. records' \in [Nodes -> Record]
    <3>1. records \in [Nodes -> Record] BY DEF RegistryTypeOK
    <3> QED BY <2>1, <3>1, ReverseNodes, OneReverseNode
  <2>3. names' \in [Resolver -> [Nodes -> Nodes]]
    <3>1. records \in [Nodes -> Record] BY DEF RegistryTypeOK
    <3> QED
      BY <2>1, <3>1, ReverseEffect, ReverseNodes, ResolverAssumption DEF WithReverseName
  <2> QED BY <1>1, <2>1, <2>2, <2>3 DEF RegistryTypeOK
<1>5. CASE Claims(s)
  <2>1. PICK a \in Named, o \in Owner, r \in ResolverAddr \cup {Zero} :
          /\ records' = WithClaim(records, a, o, r)
          /\ UNCHANGED <<operators, addrs, names, trusted, defaultResolver>>
    BY <1>5 DEF Claims
  <2>2. records' \in [Nodes -> Record]
    <3>1. records \in [Nodes -> Record] BY DEF RegistryTypeOK
    <3> QED BY <2>1, <3>1, ReverseNodes, OneReverseNode
  <2> QED BY <1>1, <2>1, <2>2 DEF RegistryTypeOK
<1>6. CASE Administers(s)
  <2>1. UNCHANGED <<records, operators, addrs, names>> BY <1>6 DEF Administers
  <2>2. RegistryTypeOK' BY <1>1, <2>1 DEF RegistryTypeOK
  <2>3. trusted' \in [Resolver -> SUBSET Address] BY <1>6 DEF Administers
  <2>4. defaultResolver' \in [ReverseRegistrar -> Resolver]
    BY <1>6 DEF Administers
  <2> QED BY <2>1, <2>2, <2>3, <2>4
<1> QED BY <1>1, <1>2, <1>3, <1>4, <1>5, <1>6

\* Every step keeps the types.
LEMMA ResolverTypeStep ==
    ResolverTypeOK /\ [ResolverNext]_resolutionVars => ResolverTypeOK'
<1> SUFFICES ASSUME ResolverTypeOK, [ResolverNext]_resolutionVars
             PROVE  ResolverTypeOK'
  OBVIOUS
<1>1. ASSUME NEW s \in Account, ResolverTx(s) PROVE ResolverTypeOK'
  BY <1>1, ResolverTxType
<1>2. ASSUME NEW s \in Account, RegistryTx(s), UNCHANGED resolverVars
      PROVE  ResolverTypeOK'
  BY <1>2, RegistryTypeStep DEF RegistryNext, ResolverTypeOK, resolverVars
<1>3. CASE UNCHANGED resolutionVars
  BY <1>3 DEF resolutionVars, ResolverTypeOK, RegistryTypeOK, registryVars, resolverVars
<1> QED BY <1>1, <1>2, <1>3 DEF ResolverNext

\* Records, roles and default resolvers keep their types.
THEOREM ResolverTypeCorrect == ResolverSpec => []ResolverTypeOK
<1>1. ResolverTypeOK /\ [ResolverNext]_<<registryVars, resolverVars, sender>>
        => ResolverTypeOK'
  BY ResolverTypeStep DEF resolutionVars
<1> QED BY <1>1, ResolverInitTypeOK, PTL DEF ResolverSpec

------------------------------------------------------------------------------
(***************************************************************************)
(* Authority.                                                              *)
(***************************************************************************)
\* Forward resolution moves by authority only: the calls open to everybody
\* write reverse nodes, which are no primary names, and the registry lets
\* no outsider at a name's resolver (NoEscalation).
THEOREM ResolutionMovesByAuthorityHolds ==
    ResolverSpec => ResolutionMovesByAuthority
<1>1. ASSUME ResolverTypeOK, [ResolverNext]_resolutionVars,
             NEW n \in PrimaryName,
             sender' \in Outsiders(n), sender' \notin Trusted
      PROVE  Resolve(n)' = Resolve(n)
  <2>0. n \in Nodes /\ RegistryTypeOK /\ records \in [Nodes -> Record]
    BY <1>1, ResolverAssumption DEF ResolverTypeOK, RegistryTypeOK
  <2>1. SUFFICES /\ records'[n] = records[n]
                 /\ \A r \in Resolver : addrs'[r][n] = addrs[r][n]
    BY DEF Resolve
  <2>2. ASSUME NEW s \in Account, ResolverTx(s)
        PROVE  /\ records'[n] = records[n]
               /\ \A r \in Resolver : addrs'[r][n] = addrs[r][n]
    <3>1. /\ sender' = s
          /\ WritesAddr(s) \/ WritesName(s) \/ Reverses(s) \/ Claims(s) \/ Administers(s)
      BY <1>1, <2>2, ResolverTxEffect
    <3>2. CASE WritesAddr(s)
      <4>1. PICK r \in Resolver, m \in Nodes, a \in Owner :
              /\ MayWriteRecord(records, s, r, m)
              /\ addrs' = WithAddr(r, m, a)
              /\ records' = records
        BY <3>2 DEF WritesAddr
      <4>2. s \notin trusted[r] BY <1>1, <3>1 DEF Trusted
      <4>3. ~Authorised(s, n) BY <1>1, <2>0, <3>1, SelfAbove DEF Outsiders
      <4>4. m # n
        BY <4>1, <4>2, <4>3 DEF MayWriteRecord, AuthorisedIn, Authorised
      <4> QED BY <1>1, <4>1, <4>4 DEF WithAddr, ResolverTypeOK
    <3>3. CASE WritesName(s) BY <3>3 DEF WritesName
    <3>4. CASE Reverses(s)
      <4>1. PICK rr \in ReverseRegistrar, a \in Named :
              records' = WithReverseRecord(records, rr, a) /\ addrs' = addrs
        BY <3>4 DEF Reverses
      <4>2. ReverseNode(a) # n BY ReverseNodes
      <4> QED BY <1>1, <2>0, <4>1, <4>2, OneReverseNode
    <3>5. CASE Claims(s)
      <4>1. PICK a \in Named, o \in Owner, r \in ResolverAddr \cup {Zero} :
              records' = WithClaim(records, a, o, r) /\ addrs' = addrs
        BY <3>5 DEF Claims
      <4>2. ReverseNode(a) # n BY ReverseNodes
      <4> QED BY <1>1, <2>0, <4>1, <4>2, OneReverseNode
    <3>6. CASE Administers(s) BY <3>6 DEF Administers
    <3> QED BY <3>1, <3>2, <3>3, <3>4, <3>5, <3>6
  <2>3. ASSUME NEW s \in Account, RegistryTx(s), UNCHANGED resolverVars
        PROVE  /\ records'[n] = records[n]
               /\ \A r \in Resolver : addrs'[r][n] = addrs[r][n]
    <3>1. sender' = s BY <2>0, <2>3, TxEffect
    <3>2. records'[n] = records[n] BY <1>1, <2>0, <2>3, <3>1, OutsiderStep
    <3> QED BY <2>3, <3>2 DEF resolverVars
  <2>4. CASE UNCHANGED resolutionVars
    BY <2>4 DEF resolutionVars, registryVars, resolverVars
  <2> QED BY <1>1, <2>2, <2>3, <2>4 DEF ResolverNext
<1>2. ResolverTypeOK /\ [ResolverNext]_<<registryVars, resolverVars, sender>> =>
        [\A n \in PrimaryName : Resolve(n)' # Resolve(n) =>
            sender' \notin Outsiders(n) \/ sender' \in Trusted
        ]_<<registryVars, resolverVars, sender>>
  BY <1>1 DEF resolutionVars
<1> QED BY <1>2, ResolverTypeCorrect, PTL DEF ResolverSpec, ResolutionMovesByAuthority

\* A name record written by an open call goes to the resolver the same call
\* makes the registry point to.
THEOREM WrittenNameIsReadableHolds == ResolverSpec => WrittenNameIsReadable
<1>1. ASSUME ResolverTypeOK, [ResolverNext]_resolutionVars,
             NEW r \in Resolver, NEW a \in Named,
             names'[r][ReverseNode(a)] # names[r][ReverseNode(a)],
             sender' \notin Trusted
      PROVE  /\ records'[ReverseNode(a)].resolver = r
             /\ records'[ReverseNode(a)].owner = a
  <2>0. records \in [Nodes -> Record]
    BY <1>1 DEF ResolverTypeOK, RegistryTypeOK
  <2>1. names' # names BY <1>1
  <2>2. ASSUME NEW s \in Account, ResolverTx(s)
        PROVE  /\ records'[ReverseNode(a)].resolver = r
               /\ records'[ReverseNode(a)].owner = a
    <3>1. /\ sender' = s
          /\ WritesAddr(s) \/ WritesName(s) \/ Reverses(s) \/ Claims(s) \/ Administers(s)
      BY <1>1, <2>2, ResolverTxEffect
    <3>2. ~WritesName(s) BY <1>1, <3>1 DEF WritesName, Trusted
    <3>3. Reverses(s)
      BY <2>1, <3>1, <3>2 DEF WritesAddr, Claims, Administers
    <3>4. PICK rr \in ReverseRegistrar, b \in Named, m \in PrimaryName :
            /\ records' = WithReverseRecord(records, rr, b)
            /\ names' = WithReverseName(rr, b, m)
      BY <3>3 DEF Reverses
    <3>5. defaultResolver[rr] = r /\ ReverseNode(a) = ReverseNode(b)
      BY <1>1, <2>0, <3>4, ReverseNodes, ReverseEffect DEF WithReverseName, ResolverTypeOK
    <3>6. a = b BY <3>5, ReverseNodes
    <3>7. ReverseNode(a) \in Nodes BY ReverseNodes
    <3> QED BY <1>1, <2>0, <3>4, <3>5, <3>6, <3>7, OneReverseNode
  <2>3. ASSUME NEW s \in Account, RegistryTx(s), UNCHANGED resolverVars
        PROVE  FALSE
    BY <2>1, <2>3 DEF resolverVars
  <2>4. CASE UNCHANGED resolutionVars
    BY <2>1, <2>4 DEF resolutionVars, resolverVars
  <2> QED BY <1>1, <2>2, <2>3, <2>4 DEF ResolverNext
<1>2. ResolverTypeOK /\ [ResolverNext]_<<registryVars, resolverVars, sender>> =>
        [\A r \in Resolver, a \in Named :
            names'[r][ReverseNode(a)] # names[r][ReverseNode(a)] /\ sender' \notin Trusted
               => records'[ReverseNode(a)].resolver = r /\ records'[ReverseNode(a)].owner = a
        ]_<<registryVars, resolverVars, sender>>
  BY <1>1 DEF resolutionVars
<1> QED BY <1>2, ResolverTypeCorrect, PTL DEF ResolverSpec, WrittenNameIsReadable

\* The reverse node of an address goes to somebody else by that address, or
\* by somebody with authority over the node, only.
THEOREM ReverseNodeStaysHomeHolds == ResolverSpec => ReverseNodeStaysHome
<1>1. ASSUME ResolverTypeOK, [ResolverNext]_resolutionVars, NEW a \in Named,
             records'[ReverseNode(a)].owner # records[ReverseNode(a)].owner,
             sender' \in Outsiders(ReverseNode(a)), sender' # a
      PROVE  records'[ReverseNode(a)].owner = a
  <2> DEFINE rn == ReverseNode(a)
  <2>0. rn \in Nodes /\ RegistryTypeOK /\ records \in [Nodes -> Record]
    BY <1>1, ReverseNodes DEF ResolverTypeOK, RegistryTypeOK
  <2>1. records' # records BY <1>1
  <2>2. ASSUME NEW s \in Account, ResolverTx(s) PROVE records'[rn].owner = a
    <3>1. /\ sender' = s
          /\ WritesAddr(s) \/ WritesName(s) \/ Reverses(s) \/ Claims(s) \/ Administers(s)
      BY <1>1, <2>2, ResolverTxEffect
    <3>2. Reverses(s) \/ Claims(s)
      BY <2>1, <3>1 DEF WritesAddr, WritesName, Administers
    <3>3. CASE Reverses(s)
      <4>1. PICK rr \in ReverseRegistrar, b \in Named :
              records' = WithReverseRecord(records, rr, b)
        BY <3>3 DEF Reverses
      <4>2. ReverseNode(b) = rn BY <1>1, <2>0, <4>1, OneReverseNode
      <4>3. b = a BY <4>2, ReverseNodes
      <4> QED BY <1>1, <2>0, <4>1, <4>3, OneReverseNode
    <3>4. CASE Claims(s)
      <4>1. PICK b \in Named, o \in Owner, r \in ResolverAddr \cup {Zero} :
              /\ s = b \/ s = records[ReverseNode(b)].owner
              /\ records' = WithClaim(records, b, o, r)
        BY <3>4 DEF Claims
      <4>2. ReverseNode(b) = rn BY <1>1, <2>0, <4>1, OneReverseNode
      <4>3. s = records[rn].owner BY <1>1, <3>1, <4>1, <4>2, ReverseNodes
      <4>4. ~Authorised(s, rn) BY <1>1, <2>0, <3>1, SelfAbove DEF Outsiders
      <4> QED BY <4>3, <4>4 DEF Authorised
    <3> QED BY <3>2, <3>3, <3>4
  <2>3. ASSUME NEW s \in Account, RegistryTx(s), UNCHANGED resolverVars
        PROVE  FALSE
    <3>1. sender' = s BY <2>0, <2>3, TxEffect
    <3>2. records'[rn] = records[rn] BY <1>1, <2>0, <2>3, <3>1, OutsiderStep
    <3> QED BY <1>1, <3>2
  <2>4. CASE UNCHANGED resolutionVars
    BY <2>1, <2>4 DEF resolutionVars, registryVars
  <2> QED BY <1>1, <2>2, <2>3, <2>4 DEF ResolverNext
<1>2. ResolverTypeOK /\ [ResolverNext]_<<registryVars, resolverVars, sender>> =>
        [\A a \in Named :
            LET rn == ReverseNode(a) IN
            records'[rn].owner # records[rn].owner =>
               records'[rn].owner = a \/ sender' = a \/ sender' \notin Outsiders(rn)
        ]_<<registryVars, resolverVars, sender>>
  BY <1>1 DEF resolutionVars
<1> QED BY <1>2, ResolverTypeCorrect, PTL DEF ResolverSpec, ReverseNodeStaysHome

------------------------------------------------------------------------------
(* The sale.                                                                *)

\* A quote is an amount: no term of it is negative.
LEMMA QuoteType ==
    ASSUME now \in Nat, prices \in [Oracle -> [Tier -> Nat]],
           NEW o \in Oracle, NEW t \in Tier, NEW e \in Nat, NEW d \in Nat
    PROVE  /\ Quotes!Total(Quotes!Price(o, t, e, d)) \in Nat
           /\ Quotes!Total(Quotes!DiscountRentPrice(o, t, e, d)) \in Nat
<1>1. \A k \in Nat : (k \div YEAR) \in Nat /\ (k \div PREMIUM_DECAY_PERIOD) \in Nat
  <2>1. \A k \in Nat, j \in Nat \ {0} : (k \div j) \in Nat OBVIOUS
  <2> QED BY <2>1, ControllerAssumption
<1>2. \A j, k \in Nat : j * k \in Nat OBVIOUS
<1>3. /\ YEAR \in Nat /\ YEAR > 0 /\ PREMIUM_START \in Nat
      /\ PREMIUM_DECAY_PERIOD \in Nat
      /\ prices[o][t] \in Nat /\ EarlyAdopterAnnual[t] \in Nat
  BY ControllerAssumption
<1>4. Quotes!Premium(e) \in Nat
  <2>1. CASE e = 0 \/ e > now \/ now - e >= PREMIUM_DECAY_PERIOD
    BY <2>1 DEF Quotes!Premium
  <2>2. CASE ~(e = 0 \/ e > now \/ now - e >= PREMIUM_DECAY_PERIOD)
    <3>1. PREMIUM_DECAY_PERIOD - (now - e) \in Nat BY <1>3, <2>2
    <3>2. PREMIUM_START * (PREMIUM_DECAY_PERIOD - (now - e)) \in Nat
      BY <1>2, <1>3, <3>1
    <3> QED BY <1>1, <2>2, <3>2 DEF Quotes!Premium
  <2> QED BY <2>1, <2>2
<1>5. \A a \in Nat, k \in Nat : Quotes!ProRata(a, k) \in Nat
  BY <1>1, <1>2 DEF Quotes!ProRata
<1>6. \A a \in Nat, k \in Nat : Quotes!ProRataUp(a, k) \in Nat
  <2> TAKE a \in Nat, k \in Nat
  <2>1. a * k \in Nat BY <1>2
  <2>2. a * k + YEAR - 1 \in Nat BY <1>3, <2>1
  <2> QED BY <1>1, <2>2 DEF Quotes!ProRataUp
<1>7. Quotes!Price(o, t, e, d).base \in Nat /\ Quotes!Price(o, t, e, d).premium \in Nat
  BY <1>3, <1>4, <1>5 DEF Quotes!Price
<1>8. /\ Quotes!DiscountRentPrice(o, t, e, d).base \in Nat
      /\ Quotes!DiscountRentPrice(o, t, e, d).premium \in Nat
  <2>1. CASE d <= YEAR BY <1>3, <1>6, <1>7, <2>1 DEF Quotes!DiscountRentPrice
  <2>2. CASE ~(d <= YEAR)
    <3>1. d - YEAR \in Nat BY <1>3, <2>2
    <3>2. Quotes!ProRataUp(Quotes!ProRata(prices[o][t], YEAR), d - YEAR) \in Nat
      BY <1>3, <1>5, <1>6, <3>1
    <3> QED BY <1>3, <1>7, <2>2, <3>2 DEF Quotes!DiscountRentPrice
  <2> QED BY <2>1, <2>2
<1> QED BY <1>7, <1>8 DEF Quotes!Total

\* A name that is free for registration carries no premium: the premium has
\* decayed before the grace period is over.
LEMMA FreeWithoutPremium ==
    ASSUME now \in Nat, expires \in [Name -> Nat], NEW n \in Name, Available(n)
    PROVE  Quotes!Premium(expires[n]) = 0
<1>1. expires[n] \in Nat /\ GRACE \in Nat /\ PREMIUM_DECAY_PERIOD \in Nat
      /\ PREMIUM_DECAY_PERIOD <= GRACE
  BY RegistrarAssumption, ControllerAssumption
<1>2. now - expires[n] >= PREMIUM_DECAY_PERIOD BY <1>1 DEF Available
<1> QED BY <1>2 DEF Quotes!Premium

------------------------------------------------------------------------------
(***************************************************************************)
(* What a sale does.                                                       *)
(***************************************************************************)
\* The name and the parties of a request.
LEMMA RequestFields ==
    ASSUME NEW tld \in TLD, NEW r \in Request
    PROVE  /\ <<tld, r.label>> \in Name
           /\ r.label \in SLD /\ r.owner \in Owner /\ r.sender \in Account
           /\ r.duration \in Duration /\ r.duration \in Nat
           /\ r.resolver \in ResolverAddr \cup {Zero}
  BY RegistrarAssumption, ControllerAssumption DEF RequestType, Name

\* The node of a name is no reverse node.
LEMMA NoReverseNode ==
    ASSUME NEW n \in Name, NEW a \in Named PROVE n # ReverseNode(a)
<1>1. Len(n) = 2 BY DEF Name
<1>2. Len(ReverseNode(a)) = 3 BY ReverseNodes
<1> QED BY <1>1, <1>2

\* The calls of a registration: the name is enrolled, its node belongs to
\* the holder, and whether or not the primary name is set changes neither.
LEMMA DeliverEffect ==
    ASSUME RegistrarTypeOK, ResolverTypeOK, config \in [TLD -> Config],
           NEW tld \in TLD, NEW r \in Request, Deliver(tld, r)
    PROVE  LET n == <<tld, r.label>>
               rr == config[tld].reverse
           IN
           /\ Enroll(n, r.owner, r.duration) /\ r.owner \in Address
           /\ records' \in [Nodes -> Record]
           /\ records'[n].owner = r.owner
           /\ r.resolver = Zero => addrs' = addrs
           /\ r.resolver # Zero =>
                 /\ records'[n].resolver = r.resolver
                 /\ addrs' = WithAddr(ControllerResolver, n, r.owner)
           /\ \/ names' = names
              \/ /\ names' = WithReverseName(rr, r.owner, n)
                 /\ r.resolver # Zero
                 /\ r.owner \in Named /\ rr \in ReverseRegistrar
                 /\ records'[ReverseNode(r.owner)].owner = r.owner
                 /\ records'[ReverseNode(r.owner)].resolver = defaultResolver[rr]
<1> DEFINE n == <<tld, r.label>>
           rr == config[tld].reverse
           enrolled == IF r.resolver = Zero THEN EnrolledNode(records, n, r.owner)
                       ELSE EnrolledRecord(records, n, r.owner, r.resolver)
<1>1. /\ n \in Name /\ n[1] = tld /\ n[2] = r.label
      /\ r.owner \in Owner /\ r.resolver \in ResolverAddr \cup {Zero}
  BY RequestFields
<1>2. Enroll(n, r.owner, r.duration) /\ r.owner \in Address
  BY <1>1 DEF Deliver, Enroll, Owner
<1>3. records \in [Nodes -> Record] /\ n \in Nodes /\ rr \in ReverseRegistrar
      /\ Append(<<tld>>, r.label) = n
  BY <1>1, NodeOfName DEF RegistrarTypeOK, RegistryTypeOK, Config
<1>4. /\ enrolled \in [Nodes -> Record]
      /\ enrolled[n].owner = r.owner
      /\ r.resolver # Zero => enrolled[n].resolver = r.resolver
  <2>1. CASE r.resolver = Zero
    <3>1. enrolled = WithSubnodeOwner(records, <<tld>>, r.label, r.owner)
      BY <1>1, <2>1 DEF EnrolledNode
    <3>2. enrolled \in [Nodes -> Record] BY <1>1, <1>3, <3>1, NodeWriteType
    <3>3. enrolled[n].owner = r.owner BY <1>1, <3>1, OtherNode
    <3> QED BY <2>1, <3>2, <3>3
  <2>2. CASE r.resolver # Zero
    <3>1. enrolled = WithSubnodeRecord(records, <<tld>>, r.label, r.owner, r.resolver, 0)
      BY <1>1, <2>2 DEF EnrolledRecord
    <3> DEFINE rec == [owner |-> r.owner, resolver |-> r.resolver, ttl |-> 0]
    <3>2. enrolled = [records EXCEPT ![n] = rec]
      BY <1>3, <3>1 DEF WithSubnodeRecord, WithRecord
    <3>3. rec \in Record /\ rec.owner = r.owner /\ rec.resolver = r.resolver
      BY <1>1, RegistryAssumption DEF Record
    <3> HIDE DEF rec, enrolled
    <3> QED BY <1>3, <3>2, <3>3
  <2> QED BY <2>1, <2>2
<1>5. /\ r.resolver = Zero => addrs' = addrs
      /\ r.resolver # Zero => addrs' = WithAddr(ControllerResolver, n, r.owner)
  BY DEF Deliver
<1> DEFINE reversed == ReverseRequested(r) /\ CanSetReverse(enrolled, rr, r.owner)
<1>6. /\ records' = IF reversed THEN WithReverseRecord(enrolled, rr, r.owner)
                    ELSE enrolled
      /\ names' = IF reversed THEN WithReverseName(rr, r.owner, n) ELSE names
  BY DEF Deliver
<1>7. reversed => r.resolver # Zero /\ r.owner \in Named
  BY DEF ReverseRequested, CanSetReverse
<1> HIDE DEF enrolled, reversed
<1>8. CASE ~reversed BY <1>2, <1>4, <1>5, <1>6, <1>8
<1>9. CASE reversed
  <2>1. n # ReverseNode(r.owner) BY <1>1, <1>7, <1>9, NoReverseNode
  <2>2. /\ records' \in [Nodes -> Record]
        /\ records'[n] = enrolled[n]
        /\ records'[ReverseNode(r.owner)].owner = r.owner
        /\ records'[ReverseNode(r.owner)].resolver = defaultResolver[rr]
    BY <1>3, <1>4, <1>6, <1>7, <1>9, <2>1, OneReverseNode
  <2> QED BY <1>2, <1>3, <1>4, <1>5, <1>6, <1>7, <1>9, <2>2
<1> QED BY <1>8, <1>9

\* What a registration does, whichever way it is paid.
Sells(s, tld, r) ==
    /\ r.sender = s /\ Revealable(tld, r) /\ Spend(tld, r)
    /\ r.duration >= MIN_REGISTRATION_DURATION
    /\ Deliver(tld, r)
    /\ \/ /\ Charge(s, tld, Quotes!Total(RentPrice(tld, r.label, r.duration)))
          /\ UNCHANGED discountVars
       \/ /\ Charge(s, tld, Quotes!Total(DiscountRentPrice(tld, r.label, r.duration)))
          /\ Discounts!Consume(ControllerOf[tld], s) /\ r.owner = s
    /\ UNCHANGED <<config, prices, now>>

\* What a renewal by the controller does.
Renews(s, tld, l, d) ==
    /\ Charge(s, tld, Quotes!Total(RentPrice(tld, l, d)))
    /\ d >= MIN_REGISTRATION_DURATION
    /\ RenewName(ControllerOf[tld], <<tld, l>>, d)
    /\ UNCHANGED <<resolverVars, controllerVars, now>>

\* Both ways to register sell, and a renewal renews.
LEMMA RegisterSells ==
    ASSUME NEW tld, NEW r, NEW m, UNCHANGED now,
           Register(tld, r, m) \/ RegisterWithDiscount(tld, r, m)
    PROVE  Sells(r.sender, tld, r)
  BY DEF Register, RegisterWithDiscount, Sell, Sells

LEMMA RenewRenews ==
    ASSUME NEW s, NEW tld, NEW l, NEW d, NEW m, UNCHANGED now,
           Renew(s, tld, l, d, m)
    PROVE  Renews(s, tld, l, d)
  BY DEF Renew, Renews

\* What is sent to a controller commits, registers or renews.
LEMMA ControllerTxEffect ==
    ASSUME NEW s \in Account, ControllerTx(s)
    PROVE  /\ sender' = s /\ UNCHANGED now
           /\ \E tld \in TLD :
                 \/ \E c \in Request : Commit(tld, c)
                 \/ \E r \in Request : Sells(s, tld, r)
                 \/ \E l \in SLD, d \in Duration : Renews(s, tld, l, d)
<1>1. PICK tld \in TLD :
        \/ \E c \in Request : Commit(tld, c)
        \/ \E r \in Request, m \in Limit :
              r.sender = s /\ (Register(tld, r, m) \/ RegisterWithDiscount(tld, r, m))
        \/ \E l \in SLD, d \in Duration, m \in Limit : Renew(s, tld, l, d, m)
  BY DEF ControllerTx
<1>2. sender' = s /\ now' = now BY DEF ControllerTx
<1> QED BY <1>1, <1>2, RegisterSells, RenewRenews

------------------------------------------------------------------------------
(***************************************************************************)
(* Types.                                                                  *)
(***************************************************************************)
\* The deployed system is well typed.
LEMMA SystemInitTypeOK == SystemInit => ControllerTypeOK
<1> SUFFICES ASSUME SystemInit PROVE ControllerTypeOK OBVIOUS
<1> USE RegistryAssumption, RegistrarAssumption, ResolverAssumption, ControllerAssumption
    DEF SystemInit, TokensInit, DeployedOwner, Owner
<1>1. PICK rr \in ReverseRegistrar :
        records = [n \in Nodes |-> [NoRecord EXCEPT !.owner =
                      IF n = ADDR_REVERSE_NODE THEN rr ELSE DeployedOwner(n)]]
  OBVIOUS
<1>2. records \in [Nodes -> Record]
  <2>1. ASSUME NEW o \in Owner PROVE [NoRecord EXCEPT !.owner = o] \in Record
    BY <2>1 DEF NoRecord, Record
  <2>2. \A n \in Nodes :
           (IF n = ADDR_REVERSE_NODE THEN rr ELSE DeployedOwner(n)) \in Owner
    BY <1>1
  <2> QED BY <1>1, <2>1, <2>2
<1>3. RegistryTypeOK BY <1>2 DEF RegistryTypeOK
<1>4. expires \in [Name -> Nat] /\ nft \in [Name -> Owner] OBVIOUS
<1>5. nftOperators \in [TLD -> [Owner -> SUBSET Owner]] OBVIOUS
<1>6. approved \in [Name -> Owner] /\ controllers \in [TLD -> SUBSET ControllerAddr]
  OBVIOUS
<1>7. RegistrarTypeOK BY <1>3, <1>4, <1>5, <1>6 DEF RegistrarTypeOK
<1>8. /\ addrs \in [Resolver -> [Nodes -> Owner]]
      /\ names \in [Resolver -> [Nodes -> Nodes]]
  BY DEF Root
<1>9. trusted \in [Resolver -> SUBSET Address] OBVIOUS
<1>10. ResolverTypeOK BY <1>3, <1>8, <1>9 DEF ResolverTypeOK
<1>11. /\ commitments \in [TLD -> [Request -> Nat]]
       /\ usedCommitments \in [TLD -> SUBSET Request]
       /\ prices \in [Oracle -> [Tier -> Nat]]
  BY DEF ControllerInit, Quotes!OracleInit
<1>12. config \in [TLD -> Config]
  <2>1. ControllerResolver \in ResolverAddr OBVIOUS
  <2>2. ASSUME NEW t \in Treasury, NEW o \in Oracle, NEW rv \in ReverseRegistrar
        PROVE  [paused |-> FALSE, resolvers |-> {ControllerResolver}, treasury |-> t,
                oracle |-> o, reverse |-> rv, discount |-> FALSE] \in Config
    BY <2>1 DEF Config
  <2>3. DeployedConfig \subseteq Config BY <2>2 DEF DeployedConfig
  <2> QED BY <2>3 DEF ControllerInit
<1>13. charge \in [payer : Owner, payee : Owner, amount : Nat]
  BY DEF ControllerInit, NoCharge
<1>14. Discounts!DiscountTypeOK
  BY DEF ControllerInit, Discounts!DiscountInit, Discounts!DiscountTypeOK
<1> QED BY <1>7, <1>10, <1>11, <1>12, <1>13, <1>14 DEF ControllerTypeOK

\* Quotes the controllers compute are amounts, charges are well typed.
LEMMA ChargeType ==
    ASSUME ControllerTypeOK, NEW s \in Account, NEW tld \in TLD,
           NEW l \in SLD, NEW d \in Nat, NEW amount,
           \/ amount = Quotes!Total(RentPrice(tld, l, d))
           \/ amount = Quotes!Total(DiscountRentPrice(tld, l, d)),
           Charge(s, tld, amount)
    PROVE  charge' \in [payer : Owner, payee : Owner, amount : Nat]
<1>1. /\ now \in Nat /\ prices \in [Oracle -> [Tier -> Nat]]
      /\ config[tld].oracle \in Oracle /\ config[tld].treasury \in Address
      /\ TierOf[l] \in Tier /\ expires[<<tld, l>>] \in Nat
      /\ s \in Owner /\ config[tld].treasury \in Owner
  BY RegistryAssumption, ControllerAssumption
  DEF ControllerTypeOK, RegistrarTypeOK, Config, Name, Owner
<1>2. amount \in Nat BY <1>1, QuoteType DEF RentPrice, DiscountRentPrice
<1> QED BY <1>1, <1>2 DEF Charge

\* The controllers, prices and the discount registry, without the contracts
\* below them.
SaleTypeOK ==
    /\ commitments \in [TLD -> [Request -> Nat]]
    /\ usedCommitments \in [TLD -> SUBSET Request]
    /\ config \in [TLD -> Config]
    /\ charge \in [payer : Owner, payee : Owner, amount : Nat]
    /\ prices \in [Oracle -> [Tier -> Nat]]
    /\ Discounts!DiscountTypeOK

\* A registration keeps the types.
LEMMA SellsType ==
    ASSUME ControllerTypeOK, NEW s \in Account, sender' = s, NEW tld \in TLD,
           NEW r \in Request, Sells(s, tld, r)
    PROVE  ControllerTypeOK'
<1> DEFINE n == <<tld, r.label>>
           rr == config[tld].reverse
<1>1. /\ RegistrarTypeOK /\ ResolverTypeOK /\ SaleTypeOK
      /\ config \in [TLD -> Config]
  BY DEF ControllerTypeOK, SaleTypeOK
<1>2. /\ n \in Name /\ n \in Nodes /\ r.label \in SLD
      /\ r.duration \in Duration /\ r.duration \in Nat
      /\ s \in Owner /\ sender' \in Owner
      /\ r.owner \in Owner /\ Zero \in Owner
      /\ ControllerResolver \in Resolver
  BY RequestFields, NodeOfName, RegistryAssumption, ControllerAssumption DEF Owner
<1>3. /\ Enroll(n, r.owner, r.duration) /\ r.owner \in Address
      /\ records' \in [Nodes -> Record]
      /\ addrs' = addrs \/ addrs' = WithAddr(ControllerResolver, n, r.owner)
      /\ \/ names' = names
         \/ /\ names' = WithReverseName(rr, r.owner, n)
            /\ r.owner \in Named /\ rr \in ReverseRegistrar
  BY <1>1, DeliverEffect DEF Sells
<1>4. UNCHANGED <<operators, nftOperators, controllers, trusted, defaultResolver,
                  config, prices, now>>
  BY DEF Sells, Deliver
<1> HIDE DEF n, rr
<1>5. RegistryTypeOK'
  BY <1>1, <1>2, <1>3, <1>4 DEF RegistryTypeOK, RegistrarTypeOK
<1>6. /\ expires' \in [Name -> Nat] /\ nft' \in [Name -> Owner]
      /\ approved' \in [Name -> Owner] /\ labelled' \subseteq Name
  BY <1>1, <1>2, <1>3 DEF Enroll, MoveToken, RegistrarTypeOK
<1>7. RegistrarTypeOK' BY <1>1, <1>4, <1>5, <1>6 DEF RegistrarTypeOK
<1>8. addrs' \in [Resolver -> [Nodes -> Owner]]
  <2>1. addrs \in [Resolver -> [Nodes -> Owner]] BY <1>1 DEF ResolverTypeOK
  <2> QED BY <1>2, <1>3, <2>1 DEF WithAddr
<1>9. names' \in [Resolver -> [Nodes -> Nodes]]
  <2>1. CASE names' = names BY <1>1, <2>1 DEF ResolverTypeOK
  <2>2. CASE names' = WithReverseName(rr, r.owner, n) /\ r.owner \in Named
             /\ rr \in ReverseRegistrar
    BY <1>1, <1>2, <2>2, ReverseNodes DEF WithReverseName, ResolverTypeOK
  <2> QED BY <1>3, <2>1, <2>2
<1>10. ResolverTypeOK' BY <1>1, <1>4, <1>5, <1>8, <1>9 DEF ResolverTypeOK
<1>11. charge' \in [payer : Owner, payee : Owner, amount : Nat]
  BY <1>1, <1>2, ChargeType DEF Sells
<1>12. commitments' \in [TLD -> [Request -> Nat]] /\ usedCommitments' \in [TLD -> SUBSET Request]
  BY <1>1 DEF Sells, Spend, SaleTypeOK
<1>13. (Discounts!DiscountTypeOK)'
  BY <1>1 DEF SaleTypeOK, Sells, discountVars, Discounts!DiscountTypeOK, Discounts!Consume
<1> QED BY <1>1, <1>4, <1>7, <1>10, <1>11, <1>12, <1>13
        DEF ControllerTypeOK, SaleTypeOK

\* A renewal keeps the types.
LEMMA RenewsType ==
    ASSUME ControllerTypeOK, NEW s \in Account, sender' = s, NEW tld \in TLD,
           NEW l \in SLD, NEW d \in Duration, Renews(s, tld, l, d)
    PROVE  ControllerTypeOK'
<1>1. /\ RegistrarTypeOK /\ ResolverTypeOK /\ SaleTypeOK
      /\ d \in Nat /\ <<tld, l>> \in Name /\ sender' \in Owner
  BY RegistryAssumption, RegistrarAssumption
  DEF ControllerTypeOK, SaleTypeOK, Name, Owner
<1>2. charge' \in [payer : Owner, payee : Owner, amount : Nat]
  BY <1>1, ChargeType DEF Renews
<1>3. RegistryTypeOK'
  BY <1>1 DEF Renews, RenewName, RegistryTypeOK, RegistrarTypeOK, registryVars
<1>4. RegistrarTypeOK'
  BY <1>1, <1>3 DEF Renews, RenewName, Extend, RegistrarTypeOK
<1>5. ResolverTypeOK' BY <1>1, <1>3 DEF Renews, ResolverTypeOK, resolverVars
<1> QED BY <1>1, <1>2, <1>4, <1>5
        DEF ControllerTypeOK, SaleTypeOK, Renews, controllerVars, commitVars,
            discountVars, Discounts!DiscountTypeOK

\* So does what a tenant sends to the other contracts.
LEMMA TenantType ==
    ASSUME ControllerTypeOK, NEW s \in Account, TenantTx(s)
    PROVE  ControllerTypeOK'
<1>1. RegistrarTypeOK /\ ResolverTypeOK /\ SaleTypeOK /\ RegistryTypeOK
  BY DEF ControllerTypeOK, SaleTypeOK, RegistrarTypeOK
<1>2. SaleTypeOK'
  BY <1>1, RegistryAssumption
  DEF TenantTx, SaleTypeOK, controllerVars, commitVars, discountVars,
      Discounts!DiscountTypeOK, NoCharge, Owner
<1>3. CASE RegistrarTx(s) /\ UNCHANGED resolverVars
  <2>1. RegistrarTypeOK' BY <1>1, <1>3, RegistrarTypeStep DEF RegistrarNext
  <2>2. ResolverTypeOK'
    BY <1>1, <1>3, <2>1 DEF ResolverTypeOK, RegistrarTypeOK, resolverVars
  <2> QED BY <1>2, <2>1, <2>2 DEF ControllerTypeOK, SaleTypeOK
<1>4. CASE ResolverTx(s) /\ UNCHANGED <<registrarVars, now>>
  <2>1. ResolverTypeOK' BY <1>1, <1>4, ResolverTxType
  <2>2. RegistrarTypeOK'
    BY <1>1, <1>4, <2>1 DEF ResolverTypeOK, RegistrarTypeOK, registrarVars, tokenVars
  <2> QED BY <1>2, <2>1, <2>2 DEF ControllerTypeOK, SaleTypeOK
<1>5. CASE RegistryTx(s) /\ UNCHANGED <<registrarVars, resolverVars, now>>
  <2>1. RegistryTypeOK' BY <1>1, <1>5, RegistryTypeStep DEF RegistryNext
  <2>2. RegistrarTypeOK' /\ ResolverTypeOK'
    BY <1>1, <1>5, <2>1
    DEF ResolverTypeOK, RegistrarTypeOK, registrarVars, tokenVars, resolverVars
  <2> QED BY <1>2, <2>2 DEF ControllerTypeOK, SaleTypeOK
<1> QED BY <1>3, <1>4, <1>5 DEF TenantTx

\* What the administrator changes is what it may set.
LEMMA AdminType ==
    ASSUME ControllerTypeOK, AdminTx
    PROVE  ControllerTypeOK'
<1>1. RegistrarTypeOK /\ ResolverTypeOK /\ SaleTypeOK /\ RegistryTypeOK
  BY DEF ControllerTypeOK, SaleTypeOK, RegistrarTypeOK
<1>2. RegistryTypeOK'
  BY <1>1, RegistrarAssumption DEF AdminTx, RegistryTypeOK, registryVars, Owner
<1>3. RegistrarTypeOK' /\ ResolverTypeOK'
  BY <1>1, <1>2
  DEF AdminTx, RegistrarTypeOK, ResolverTypeOK, registrarVars, tokenVars, resolverVars
<1>4. charge' \in [payer : Owner, payee : Owner, amount : Nat]
  BY DEF AdminTx, NoCharge, Owner
<1>5. ASSUME NEW tld \in TLD, ConfigTx(tld)
      PROVE  /\ UNCHANGED <<commitVars, prices, discountVars>>
             /\ config' \in [TLD -> Config]
  <2>1. config[tld] \in Config /\ config \in [TLD -> Config] BY <1>1 DEF SaleTypeOK
  <2>2. ASSUME NEW cfg \in Config, Configure(tld, cfg)
        PROVE  /\ UNCHANGED <<commitVars, prices, discountVars>>
               /\ config' \in [TLD -> Config]
    BY <2>1, <2>2 DEF Configure
  <2>3. /\ \A b \in BOOLEAN : [config[tld] EXCEPT !.paused = b] \in Config
        /\ \A t \in Treasury : [config[tld] EXCEPT !.treasury = t] \in Config
        /\ \A o \in Oracle : [config[tld] EXCEPT !.oracle = o] \in Config
        /\ \A rr \in ReverseRegistrar : [config[tld] EXCEPT !.reverse = rr] \in Config
        /\ \A b \in BOOLEAN : [config[tld] EXCEPT !.discount = b] \in Config
        /\ \A rs \in SUBSET ResolverAddr : [config[tld] EXCEPT !.resolvers = rs] \in Config
    BY <2>1 DEF Config
  <2>4. ASSUME NEW r \in ResolverAddr, NEW ok \in BOOLEAN,
               SetApprovedResolver(tld, r, ok)
        PROVE  \E cfg \in Config : Configure(tld, cfg)
    <3> DEFINE rs == IF ok THEN config[tld].resolvers \cup {r}
                           ELSE config[tld].resolvers \ {r}
    <3>1. rs \in SUBSET ResolverAddr BY <2>1 DEF Config
    <3>2. Configure(tld, [config[tld] EXCEPT !.resolvers = rs])
      BY <2>4 DEF SetApprovedResolver
    <3> HIDE DEF rs
    <3> QED BY <2>3, <3>1, <3>2
  <2>5. \E cfg \in Config : Configure(tld, cfg)
    BY <1>5, <2>3, <2>4
    DEF ConfigTx, SetPaused, SetTreasury, SetPriceOracle, SetReverseRegistrar,
        SetDiscountRegistry
  <2> QED BY <2>2, <2>5
<1>6. ASSUME PricesTx
      PROVE  UNCHANGED <<commitVars, config, discountVars>>
             /\ prices' \in [Oracle -> [Tier -> Nat]]
  BY <1>1, <1>6, ControllerAssumption DEF PricesTx, Quotes!SetPrices, SaleTypeOK
<1>7. ASSUME CampaignTx
      PROVE  UNCHANGED <<commitVars, config, prices>> /\ (Discounts!DiscountTypeOK)'
  BY <1>1, <1>7
  DEF CampaignTx, SaleTypeOK, Discounts!DiscountTypeOK, Discounts!DiscountOwnerTx,
      Discounts!SetMerkleRoot, Discounts!FreezeRoot, Discounts!SetDiscountActive,
      Discounts!SetControllerAuthorization
<1>8. SaleTypeOK'
  BY <1>1, <1>4, <1>5, <1>6, <1>7
  DEF AdminTx, SaleTypeOK, commitVars, discountVars, Discounts!DiscountTypeOK
<1> QED BY <1>3, <1>8 DEF ControllerTypeOK, SaleTypeOK

\* Every step keeps the types.
LEMMA ControllerTypeStep ==
    ControllerTypeOK /\ [SystemNext]_allVars => ControllerTypeOK'
<1> SUFFICES ASSUME ControllerTypeOK, [SystemNext]_allVars PROVE ControllerTypeOK'
  OBVIOUS
<1>1. RegistrarTypeOK /\ ResolverTypeOK /\ SaleTypeOK /\ RegistryTypeOK
  BY DEF ControllerTypeOK, SaleTypeOK, RegistrarTypeOK
<1>2. ASSUME NEW s \in Account, ControllerTx(s) PROVE ControllerTypeOK'
  <2>1. sender' = s /\ sender' \in Owner /\ UNCHANGED now
    BY <1>2, RegistryAssumption DEF ControllerTx, Owner
  <2>2. ASSUME NEW tld \in TLD, NEW c \in Request, Commit(tld, c)
        PROVE  ControllerTypeOK'
    <3>1. RegistryTypeOK' BY <1>1, <2>1, <2>2 DEF Commit, RegistryTypeOK, registryVars
    <3>2. RegistrarTypeOK' /\ ResolverTypeOK'
      BY <1>1, <2>1, <2>2, <3>1
      DEF Commit, RegistrarTypeOK, ResolverTypeOK, registrarVars, tokenVars, resolverVars
    <3>3. SaleTypeOK'
      BY <1>1, <2>2, RegistryAssumption
      DEF Commit, SaleTypeOK, RegistrarTypeOK, NoCharge, Owner, discountVars,
          Discounts!DiscountTypeOK
    <3> QED BY <3>2, <3>3 DEF ControllerTypeOK, SaleTypeOK
  <2> QED BY <1>2, <2>1, <2>2, ControllerTxEffect, SellsType, RenewsType
<1>3. ASSUME NEW s \in Account, TenantTx(s) PROVE ControllerTypeOK'
  BY <1>3, TenantType
<1>4. CASE AdminTx BY <1>4, AdminType
<1>5. CASE Tick /\ charge' = NoCharge /\ UNCHANGED <<resolverVars, controllerVars>>
  <2>1. RegistrarTypeOK' BY <1>1, <1>5, RegistrarTypeStep DEF RegistrarNext
  <2>2. ResolverTypeOK'
    BY <1>1, <1>5, <2>1 DEF ResolverTypeOK, RegistrarTypeOK, resolverVars
  <2>3. SaleTypeOK'
    BY <1>1, <1>5, RegistryAssumption
    DEF SaleTypeOK, controllerVars, commitVars, discountVars,
        Discounts!DiscountTypeOK, NoCharge, Owner
  <2> QED BY <2>1, <2>2, <2>3 DEF ControllerTypeOK, SaleTypeOK
<1>6. CASE UNCHANGED allVars
  <2>1. RegistrarTypeOK'
    BY <1>1, <1>6, RegistrarTypeStep DEF allVars, arcnsVars, systemVars
  <2>2. ResolverTypeOK'
    BY <1>1, <1>6, <2>1
    DEF allVars, arcnsVars, ResolverTypeOK, RegistrarTypeOK, resolverVars
  <2>3. SaleTypeOK'
    BY <1>1, <1>6
    DEF allVars, arcnsVars, SaleTypeOK, controllerVars, commitVars, discountVars,
        Discounts!DiscountTypeOK
  <2> QED BY <2>1, <2>2, <2>3 DEF ControllerTypeOK, SaleTypeOK
<1> QED BY <1>2, <1>3, <1>4, <1>5, <1>6, ControllerAssumption DEF SystemNext

\* Every variable of the whole system keeps its type.
THEOREM ControllerTypeCorrect == SystemSpec => []ControllerTypeOK
BY SystemInitTypeOK, ControllerTypeStep, PTL DEF SystemSpec

------------------------------------------------------------------------------
(***************************************************************************)
(* What is paid and what is delivered.                                     *)
(***************************************************************************)
\* The steps in which nothing is sold.
Idle == expires' = expires /\ used' = used /\ charge' = NoCharge

\* Every step sells one registration, sells one renewal, or is idle.
LEMMA SystemEffect ==
    ASSUME SystemNext
    PROVE  \/ Idle
           \/ \E s \in Account, tld \in TLD, r \in Request :
                 sender' = s /\ Sells(s, tld, r)
           \/ \E s \in Account, tld \in TLD, l \in SLD, d \in Duration :
                 sender' = s /\ Renews(s, tld, l, d)
<1>1. ASSUME NEW s \in Account, ControllerTx(s)
      PROVE  \/ Idle
             \/ \E tld \in TLD, r \in Request : sender' = s /\ Sells(s, tld, r)
             \/ \E tld \in TLD, l \in SLD, d \in Duration :
                   sender' = s /\ Renews(s, tld, l, d)
  <2>1. ASSUME NEW tld \in TLD, NEW c \in Request, Commit(tld, c) PROVE Idle
    BY <2>1 DEF Commit, Idle, registrarVars, tokenVars, discountVars
  <2> QED BY <1>1, <2>1, ControllerTxEffect
<1>2. ASSUME NEW s \in Account, TenantTx(s) PROVE Idle
  <2>1. expires' = expires
    BY <1>2
    DEF TenantTx, RegistrarTx, Reclaim, TransferFrom, Approve, SetTokenOperator,
        AddController, RemoveController, registrarVars, tokenVars
  <2> QED BY <1>2, <2>1 DEF TenantTx, Idle, controllerVars, discountVars
<1>3. CASE AdminTx
  BY <1>3
  DEF AdminTx, PricesTx, CampaignTx, ConfigTx, Configure, SetPaused, SetTreasury,
      SetPriceOracle, SetReverseRegistrar, SetDiscountRegistry, SetApprovedResolver,
      Idle, registrarVars, tokenVars, discountVars, Discounts!DiscountOwnerTx,
      Discounts!SetMerkleRoot, Discounts!FreezeRoot, Discounts!SetDiscountActive,
      Discounts!SetControllerAuthorization
<1>4. CASE Tick /\ charge' = NoCharge /\ UNCHANGED <<resolverVars, controllerVars>>
  BY <1>4 DEF Tick, Idle, registrarVars, tokenVars, controllerVars, discountVars
<1> QED BY <1>1, <1>2, <1>3, <1>4, ControllerAssumption DEF SystemNext

\* A registration serves its name alone, for the duration requested.
LEMMA RegistrationServes ==
    ASSUME ControllerTypeOK, NEW s \in Account, NEW tld \in TLD, NEW r \in Request,
           Sells(s, tld, r)
    PROVE  LET n == <<tld, r.label>> IN
           /\ n \in Name /\ n[1] = tld /\ n[2] = r.label
           /\ Available(n) /\ Served = {n}
           /\ expires'[n] = now + r.duration /\ Bought(n) = r.duration
           /\ nft'[n] = r.owner
<1> DEFINE n == <<tld, r.label>>
<1>1. /\ n \in Name /\ n[1] = tld /\ n[2] = r.label /\ r.duration \in Nat
      /\ expires \in [Name -> Nat] /\ nft \in [Name -> Owner] /\ now \in Nat
  BY RequestFields DEF ControllerTypeOK, RegistrarTypeOK
<1>2. Enroll(n, r.owner, r.duration) BY DEF Sells, Deliver
<1> HIDE DEF n
<1>3. expires' = [expires EXCEPT ![n] = now + r.duration] /\ nft'[n] = r.owner
  BY <1>1, <1>2 DEF Enroll, MoveToken
<1>4. Available(n) BY <1>2 DEF Enroll
<1>5. now + r.duration # expires[n]
  BY <1>1, <1>4, RegistrarAssumption DEF Available
<1>6. Served = {n} BY <1>1, <1>3, <1>5 DEF Served
<1>7. expires'[n] = now + r.duration BY <1>1, <1>3
<1>8. Bought(n) = r.duration BY <1>1, <1>4, <1>7 DEF Bought
<1> QED BY <1>1, <1>3, <1>4, <1>6, <1>7, <1>8 DEF n

\* A renewal serves its name alone, a name that is not free.
LEMMA RenewalServes ==
    ASSUME ControllerTypeOK, NEW s \in Account, NEW tld \in TLD, NEW l \in SLD,
           NEW d \in Duration, Renews(s, tld, l, d)
    PROVE  LET n == <<tld, l>> IN
           /\ n \in Name /\ n[1] = tld /\ n[2] = l
           /\ ~Available(n) /\ Served = {n} /\ Bought(n) = d
           /\ used' = used
<1> DEFINE n == <<tld, l>>
<1>1. /\ n \in Name /\ n[1] = tld /\ n[2] = l /\ d \in Nat /\ d > 0
      /\ expires \in [Name -> Nat] /\ now \in Nat
  BY RegistrarAssumption, ControllerAssumption
  DEF ControllerTypeOK, RegistrarTypeOK, Name, Renews
<1>2. Extend(n, d) BY DEF Renews, RenewName
<1>3. used' = used BY DEF Renews, controllerVars, discountVars
<1> HIDE DEF n
<1>4. expires' = [expires EXCEPT ![n] = expires[n] + d] BY <1>2 DEF Extend
<1>5. ~Available(n) BY <1>1, <1>2, RegistrarAssumption DEF Extend, Available
<1>6. expires'[n] = expires[n] + d /\ expires[n] + d # expires[n] BY <1>1, <1>4
<1>7. Served = {n} BY <1>1, <1>4, <1>6 DEF Served
<1>8. Bought(n) = d BY <1>1, <1>5, <1>6 DEF Bought
<1> QED BY <1>1, <1>3, <1>5, <1>7, <1>8 DEF n

\* Money moves with a lease only, from the sender to the treasury, and it is
\* the price of the time the lease gains.
THEOREM PaidExactlyForTheLeaseHolds == SystemSpec => PaidExactlyForTheLease
<1> DEFINE Paid ==
      /\ charge' # NoCharge <=> Served # {}
      /\ \A n \in Served :
            /\ Served = {n}
            /\ charge'.payer = sender' /\ charge'.payee = config[n[1]].treasury
            /\ \/ charge'.amount = FullPrice(n, Bought(n)) /\ used' = used
               \/ /\ charge'.amount = EarlyPrice(n, Bought(n)) /\ Available(n)
                  /\ used' = used \cup {sender'} /\ sender' \notin used
<1>1. ASSUME ControllerTypeOK, SystemNext PROVE Paid
  <2>0. Zero \notin Account BY RegistryAssumption
  <2>1. CASE Idle BY <2>1 DEF Idle, Served
  <2>2. ASSUME NEW s \in Account, NEW tld \in TLD, NEW amount, Charge(s, tld, amount)
        PROVE  /\ charge' # NoCharge /\ charge'.payer = s
               /\ charge'.payee = config[tld].treasury /\ charge'.amount = amount
    BY <2>0, <2>2 DEF Charge, NoCharge
  <2>3. ASSUME NEW s \in Account, NEW tld \in TLD, NEW r \in Request,
               sender' = s, Sells(s, tld, r)
        PROVE  Paid
    <3> DEFINE n == <<tld, r.label>>
    <3>1. /\ n \in Name /\ n[1] = tld /\ n[2] = r.label
          /\ Available(n) /\ Served = {n} /\ Bought(n) = r.duration
      BY <1>1, <2>3, RegistrationServes
    <3> HIDE DEF n
    <3>2. CASE /\ Charge(s, tld, Quotes!Total(RentPrice(tld, r.label, r.duration)))
               /\ UNCHANGED discountVars
      BY <2>2, <2>3, <3>1, <3>2 DEF FullPrice, discountVars
    <3>3. CASE /\ Charge(s, tld, Quotes!Total(DiscountRentPrice(tld, r.label, r.duration)))
               /\ Discounts!Consume(ControllerOf[tld], s)
      BY <2>2, <2>3, <3>1, <3>3 DEF EarlyPrice, Discounts!Consume
    <3> QED BY <2>3, <3>2, <3>3 DEF Sells
  <2>4. ASSUME NEW s \in Account, NEW tld \in TLD, NEW l \in SLD, NEW d \in Duration,
               sender' = s, Renews(s, tld, l, d)
        PROVE  Paid
    <3> DEFINE n == <<tld, l>>
    <3>1. /\ n \in Name /\ n[1] = tld /\ n[2] = l
          /\ Served = {n} /\ Bought(n) = d /\ used' = used
      BY <1>1, <2>4, RenewalServes
    <3> HIDE DEF n
    <3>2. Charge(s, tld, Quotes!Total(RentPrice(tld, l, d))) BY <2>4 DEF Renews
    <3> QED BY <2>2, <2>4, <3>1, <3>2 DEF FullPrice
  <2> QED BY <1>1, <2>1, <2>3, <2>4, SystemEffect
<1>2. ControllerTypeOK /\ [SystemNext]_allVars => [Paid]_allVars BY <1>1
<1> QED BY <1>2, ControllerTypeCorrect, PTL DEF SystemSpec, PaidExactlyForTheLease

\* A registration is never charged the premium for lapsed names: the premium
\* has decayed before the name is free.
THEOREM NoPremiumOnRegistrationHolds == SystemSpec => NoPremiumOnRegistration
<1>1. ASSUME ControllerTypeOK, NEW n \in Served, Available(n)
      PROVE  Quotes!Premium(expires[n]) = 0
  BY <1>1, FreeWithoutPremium DEF Served, ControllerTypeOK, RegistrarTypeOK
<1>2. ControllerTypeOK /\ [SystemNext]_allVars =>
        [\A n \in Served : Available(n) => Quotes!Premium(expires[n]) = 0]_allVars
  BY <1>1
<1> QED BY <1>2, ControllerTypeCorrect, PTL DEF SystemSpec, NoPremiumOnRegistration

\* A wallet is marked by the registration it is the holder of, and by
\* nothing else.
THEOREM DiscountGoesWithNameHolds == SystemSpec => DiscountGoesWithName
<1> DEFINE Marked == /\ used \subseteq used'
                     /\ \A a \in used' \ used :
                           \E n \in Served : Available(n) /\ nft'[n] = a
<1>1. ASSUME ControllerTypeOK, SystemNext PROVE Marked
  <2>1. CASE Idle BY <2>1 DEF Idle
  <2>2. ASSUME NEW s \in Account, NEW tld \in TLD, NEW r \in Request,
               Sells(s, tld, r)
        PROVE  Marked
    <3> DEFINE n == <<tld, r.label>>
    <3>1. Available(n) /\ Served = {n} /\ nft'[n] = r.owner
      BY <1>1, <2>2, RegistrationServes
    <3> HIDE DEF n
    <3>2. used' = used \/ (used' = used \cup {s} /\ r.owner = s)
      BY <2>2 DEF Sells, discountVars, Discounts!Consume
    <3> QED BY <3>1, <3>2
  <2>3. ASSUME NEW s \in Account, NEW tld \in TLD, NEW l \in SLD, NEW d \in Duration,
               Renews(s, tld, l, d)
        PROVE  Marked
    BY <1>1, <2>3, RenewalServes
  <2> QED BY <1>1, <2>1, <2>2, <2>3, SystemEffect
<1>2. ControllerTypeOK /\ [SystemNext]_allVars => [Marked]_allVars BY <1>1
<1> QED BY <1>2, ControllerTypeCorrect, PTL DEF SystemSpec, DiscountGoesWithName

\* Once a wallet has used its discount the root is frozen, and it is the root
\* that all of them are in: the guards of setMerkleRoot and consumeDiscount
\* together make it inductive.
THEOREM UsedWereInSnapshotHolds == SystemSpec => []UsedWereInSnapshot
<1> USE DEF UsedWereInSnapshot, Discounts!UsedWereInSnapshot
<1>1. SystemInit => UsedWereInSnapshot
  BY DEF SystemInit, ControllerInit, Discounts!DiscountInit
<1>2. ASSUME ControllerTypeOK, UsedWereInSnapshot, [SystemNext]_allVars
      PROVE  UsedWereInSnapshot'
  <2>1. CASE UNCHANGED discountVars BY <1>2, <2>1 DEF discountVars
  <2>2. ASSUME NEW c, NEW s, Discounts!Consume(c, s) PROVE UsedWereInSnapshot'
    BY <1>2, <2>2
    DEF ControllerTypeOK, Discounts!DiscountTypeOK, Discounts!Consume
  <2>3. ASSUME CampaignTx PROVE UsedWereInSnapshot'
    BY <1>2, <2>3
    DEF CampaignTx, Discounts!DiscountOwnerTx, Discounts!SetMerkleRoot,
        Discounts!FreezeRoot, Discounts!SetDiscountActive,
        Discounts!SetControllerAuthorization, ControllerTypeOK,
        Discounts!DiscountTypeOK
  <2>4. ASSUME NEW s \in Account, ControllerTx(s) PROVE UsedWereInSnapshot'
    <3>1. PICK tld \in TLD :
            \/ \E c \in Request : Commit(tld, c)
            \/ \E r \in Request : Sells(s, tld, r)
            \/ \E l \in SLD, d \in Duration : Renews(s, tld, l, d)
      BY <2>4, ControllerTxEffect
    <3>2. UNCHANGED discountVars \/ \E c : Discounts!Consume(c, s)
      BY <3>1 DEF Commit, Sells, Renews, controllerVars
    <3> QED BY <2>1, <2>2, <3>2
  <2>5. CASE AdminTx
    BY <2>1, <2>3, <2>5
    DEF AdminTx, PricesTx, ConfigTx, Configure, SetPaused, SetTreasury,
        SetPriceOracle, SetReverseRegistrar, SetDiscountRegistry, SetApprovedResolver
  <2>6. ASSUME NEW s \in Tenant, TenantTx(s) PROVE UsedWereInSnapshot'
    BY <2>1, <2>6 DEF TenantTx, controllerVars
  <2>7. CASE Tick /\ charge' = NoCharge /\ UNCHANGED <<resolverVars, controllerVars>>
    BY <2>1, <2>7 DEF controllerVars
  <2>8. CASE UNCHANGED allVars
    BY <2>1, <2>8 DEF allVars, arcnsVars, controllerVars
  <2> QED BY <1>2, <2>4, <2>5, <2>6, <2>7, <2>8 DEF SystemNext
<1> QED BY <1>1, <1>2, ControllerTypeCorrect, PTL DEF SystemSpec

\* A registration is the reveal of a commitment in its window, and delivers
\* token, node, term and resolution as the commitment has them.
THEOREM RevealDeliversHolds == SystemSpec => RevealDelivers
<1> DEFINE Delivered(n) ==
      \E r \in usedCommitments'[n[1]] \ usedCommitments[n[1]] :
         /\ r.label = n[2] /\ r.sender = sender'
         /\ commitments[n[1]][r] # 0
         /\ now - commitments[n[1]][r] \in MIN_COMMITMENT_AGE..MAX_COMMITMENT_AGE
         /\ nft'[n] = r.owner /\ records'[n].owner = r.owner
         /\ expires'[n] = now + r.duration
         /\ r.resolver = ControllerResolver => Resolve(n)' = r.owner
<1>1. ASSUME ControllerTypeOK, SystemNext, NEW n \in Name, Available(n), n \in Served
      PROVE  Delivered(n)
  <2>1. ASSUME NEW s \in Account, NEW tld \in TLD, NEW r \in Request,
               sender' = s, Sells(s, tld, r)
        PROVE  Delivered(n)
    <3>1. /\ n = <<tld, r.label>> /\ n[1] = tld /\ n[2] = r.label
          /\ expires'[n] = now + r.duration /\ nft'[n] = r.owner
      <4> DEFINE m == <<tld, r.label>>
      <4>1. /\ m[1] = tld /\ m[2] = r.label /\ Served = {m}
            /\ expires'[m] = now + r.duration /\ nft'[m] = r.owner
        BY <1>1, <2>1, RegistrationServes
      <4> HIDE DEF m
      <4>2. n = m BY <1>1, <4>1
      <4> QED BY <4>1, <4>2 DEF m
    <3>2. /\ r \in usedCommitments'[tld] /\ r \notin usedCommitments[tld]
          /\ commitments[tld][r] # 0 /\ r.sender = s
      BY <1>1, <2>1 DEF Sells, Spend, Revealable, ControllerTypeOK
    <3>3. now - commitments[tld][r] \in MIN_COMMITMENT_AGE..MAX_COMMITMENT_AGE
      <4>1. /\ commitments[tld][r] \in Nat /\ now \in Nat
            /\ MIN_COMMITMENT_AGE \in Nat /\ MAX_COMMITMENT_AGE \in Nat
        BY <1>1, ControllerAssumption DEF ControllerTypeOK, RegistrarTypeOK
      <4> QED BY <2>1, <4>1 DEF Sells, Revealable
    <3>4. /\ records'[n].owner = r.owner
          /\ r.resolver # Zero =>
                /\ records'[n].resolver = r.resolver
                /\ addrs' = WithAddr(ControllerResolver, n, r.owner)
      BY <1>1, <2>1, <3>1, DeliverEffect DEF Sells, ControllerTypeOK
    <3>5. ASSUME r.resolver = ControllerResolver PROVE Resolve(n)' = r.owner
      <4>1. /\ ControllerResolver \in Resolver /\ ControllerResolver # Zero
        BY RegistryAssumption, ResolverAssumption, ControllerAssumption
      <4>2. addrs \in [Resolver -> [Nodes -> Owner]] /\ n \in Nodes
        BY <1>1, NodeOfName DEF ControllerTypeOK, ResolverTypeOK
      <4>3. addrs'[ControllerResolver][n] = r.owner
        BY <3>4, <3>5, <4>1, <4>2 DEF WithAddr
      <4> QED BY <3>4, <3>5, <4>1, <4>3 DEF Resolve
    <3> QED BY <2>1, <3>1, <3>2, <3>3, <3>4, <3>5
  <2>2. ASSUME NEW s \in Account, NEW tld \in TLD, NEW l \in SLD, NEW d \in Duration,
               Renews(s, tld, l, d)
        PROVE  FALSE
    <3>1. ~Available(<<tld, l>>) /\ Served = {<<tld, l>>}
      BY <1>1, <2>2, RenewalServes
    <3> QED BY <1>1, <3>1
  <2>3. ~Idle BY <1>1 DEF Idle, Served
  <2> QED BY <1>1, <2>1, <2>2, <2>3, SystemEffect
<1>2. ControllerTypeOK /\ [SystemNext]_allVars =>
        [\A n \in Name : Available(n) /\ n \in Served => Delivered(n)]_allVars
  BY <1>1
<1> QED BY <1>2, ControllerTypeCorrect, PTL DEF SystemSpec, RevealDelivers

\* The primary name a registration sets: the reverse node belongs to the
\* holder and reads from the resolver written to, and the name resolves back.
THEOREM PrimaryNameConfirmedHolds == SystemSpec => PrimaryNameConfirmed
<1> DEFINE Confirmed(r, a, n) ==
      LET rn == ReverseNode(a) IN
      /\ records'[rn].resolver = r /\ records'[rn].owner = a
      /\ nft'[n] = a
      /\ records'[n].resolver = ControllerResolver => Resolve(n)' = a
<1>1. ASSUME ControllerTypeOK, SystemNext,
             NEW r \in Resolver, NEW a \in Named, NEW n \in Name,
             names[r][ReverseNode(a)] # n, names'[r][ReverseNode(a)] = n, n \in Served
      PROVE  Confirmed(r, a, n)
  <2>1. ASSUME NEW s \in Account, NEW tld \in TLD, NEW q \in Request,
               sender' = s, Sells(s, tld, q)
        PROVE  Confirmed(r, a, n)
    <3>1. n = <<tld, q.label>> /\ nft'[n] = q.owner
      <4> DEFINE m == <<tld, q.label>>
      <4>1. Served = {m} /\ nft'[m] = q.owner BY <1>1, <2>1, RegistrationServes
      <4> HIDE DEF m
      <4>2. n = m BY <1>1, <4>1
      <4> QED BY <4>1, <4>2 DEF m
    <3> DEFINE rr == config[tld].reverse
    <3>2. /\ q.resolver # Zero =>
                /\ records'[n].resolver = q.resolver
                /\ addrs' = WithAddr(ControllerResolver, n, q.owner)
          /\ \/ names' = names
             \/ /\ names' = WithReverseName(rr, q.owner, n)
                /\ q.resolver # Zero
                /\ q.owner \in Named /\ rr \in ReverseRegistrar
                /\ records'[ReverseNode(q.owner)].owner = q.owner
                /\ records'[ReverseNode(q.owner)].resolver = defaultResolver[rr]
      BY <1>1, <2>1, <3>1, DeliverEffect DEF Sells, ControllerTypeOK
    <3> HIDE DEF rr
    <3>3. /\ names' = WithReverseName(rr, q.owner, n)
          /\ q.resolver # Zero /\ q.owner \in Named /\ rr \in ReverseRegistrar
      BY <1>1, <3>2
    <3>4. /\ names \in [Resolver -> [Nodes -> Nodes]]
          /\ defaultResolver[rr] \in Resolver
          /\ ReverseNode(q.owner) \in Nodes /\ ReverseNode(a) \in Nodes
      BY <1>1, <3>3, ReverseNodes DEF ControllerTypeOK, ResolverTypeOK
    <3>5. r = defaultResolver[rr] /\ ReverseNode(a) = ReverseNode(q.owner)
      BY <1>1, <3>3, <3>4 DEF WithReverseName
    <3>6. a = q.owner BY <3>3, <3>5, ReverseNodes
    <3>7. /\ ControllerResolver \in Resolver /\ n \in Nodes
          /\ addrs \in [Resolver -> [Nodes -> Owner]]
      BY <1>1, ControllerAssumption, NodeOfName DEF ControllerTypeOK, ResolverTypeOK
    <3>8. addrs'[ControllerResolver][n] = a BY <3>2, <3>3, <3>6, <3>7 DEF WithAddr
    <3>9. records'[n].resolver = ControllerResolver => Resolve(n)' = a
      BY <3>7, <3>8 DEF Resolve
    <3>10. /\ records'[ReverseNode(a)].owner = a
           /\ records'[ReverseNode(a)].resolver = r
      BY <1>1, <3>2, <3>5, <3>6
    <3> QED BY <3>1, <3>6, <3>9, <3>10
  <2>2. ASSUME NEW s \in Account, NEW tld \in TLD, NEW l \in SLD, NEW d \in Duration,
               Renews(s, tld, l, d)
        PROVE  FALSE
    BY <1>1, <2>2 DEF Renews, resolverVars
  <2>3. ~Idle BY <1>1 DEF Idle, Served
  <2> QED BY <1>1, <2>1, <2>2, <2>3, SystemEffect
<1>2. ControllerTypeOK /\ [SystemNext]_allVars =>
        [\A r \in Resolver, a \in Named, n \in Name :
           names[r][ReverseNode(a)] # n /\ names'[r][ReverseNode(a)] = n /\ n \in Served
             => Confirmed(r, a, n)]_allVars
  BY <1>1
<1> QED BY <1>2, ControllerTypeCorrect, PTL DEF SystemSpec, PrimaryNameConfirmed

------------------------------------------------------------------------------
(***************************************************************************)
(* The whole system implements the abstract lease.                         *)
(***************************************************************************)
\* Whatever is sold, given away or administered, and through whichever
\* contract, a name is leased, extended and passed on as NameLease says.
THEOREM SystemImplementsLease == SystemSpec => ImplementsLease
<1>1. SystemInit => AbstractLease!LeaseInit
  BY SystemInitTypeOK, LeaseStarts DEF SystemInit, ControllerTypeOK
<1>2. ASSUME ControllerTypeOK, [SystemNext]_allVars
      PROVE  [AbstractLease!LeaseNext]_AbstractLease!leaseVars
  <2> DEFINE Goal == \/ UNCHANGED <<tokenVars, now>>
                     \/ now' > now /\ UNCHANGED tokenVars
                     \/ \E n \in Name : TokenStep(n)
  <2>0. RegistrarTypeOK BY <1>2 DEF ControllerTypeOK
  <2>1. ASSUME NEW s \in Account, ControllerTx(s) PROVE Goal
    <3>1. PICK tld \in TLD :
            \/ \E c \in Request : Commit(tld, c)
            \/ \E r \in Request : Sells(s, tld, r)
            \/ \E l \in SLD, d \in Duration : Renews(s, tld, l, d)
      BY <2>1, ControllerTxEffect
    <3>2. now' = now BY <2>1 DEF ControllerTx
    <3>3. ASSUME NEW c \in Request, Commit(tld, c) PROVE Goal
      BY <3>2, <3>3 DEF Commit, registrarVars
    <3>4. ASSUME NEW r \in Request, Sells(s, tld, r) PROVE Goal
      <4>1. <<tld, r.label>> \in Name /\ r.duration \in Duration BY RequestFields
      <4>2. r.owner \in Address /\ Enroll(<<tld, r.label>>, r.owner, r.duration)
        BY <1>2, <3>4, DeliverEffect DEF Sells, ControllerTypeOK
      <4> QED BY <3>2, <4>1, <4>2 DEF TokenStep
    <3>5. ASSUME NEW l \in SLD, NEW d \in Duration, Renews(s, tld, l, d) PROVE Goal
      BY <3>2, <3>5 DEF Renews, RenewName, TokenStep, Name
    <3> QED BY <3>1, <3>3, <3>4, <3>5
  <2>2. ASSUME NEW s \in Account, TenantTx(s) PROVE Goal
    <3>1. CASE RegistrarTx(s)
      <4>1. [RegistrarNext]_systemVars BY <3>1 DEF RegistrarNext
      <4> QED BY <2>0, <4>1, StepEffect
    <3> QED BY <2>2, <3>1 DEF TenantTx, registrarVars
  <2>3. ASSUME AdminTx PROVE Goal BY <2>3 DEF AdminTx, registrarVars
  <2>4. ASSUME Tick PROVE Goal BY <2>0, <2>4 DEF Tick, registrarVars, RegistrarTypeOK
  <2>5. ASSUME UNCHANGED allVars PROVE Goal
    BY <2>5 DEF allVars, arcnsVars, registrarVars
  <2>6. Goal
    BY <1>2, <2>1, <2>2, <2>3, <2>4, <2>5, ControllerAssumption DEF SystemNext
  <2> QED BY <2>0, <2>6, TokenStepsLease
<1> QED BY <1>1, <1>2, ControllerTypeCorrect, PTL
        DEF SystemSpec, ImplementsLease, AbstractLease!LeaseSpec

==============================================================================
