-------------------------- MODULE Operations_proofs --------------------------
(***************************************************************************)
(* The operator's procedures: the replacement of the reverse registrar, the *)
(* handover of the authority, the switch of the registrars.                *)
(***************************************************************************)
EXTENDS ReverseMigration, AdminMigration, MetadataCutover, FiniteSetTheorems,
        SequenceTheorems, WellFoundedInduction, TLAPS

------------------------------------------------------------------------------
(***************************************************************************)
(* The reverse registrar: only the current one is trusted, and what was    *)
(* left behind by runs that were stopped.                                  *)
(***************************************************************************)

\* What migrateReverseRegistrar has still to do, up to its attempt to take the node.
Rest6 == <<"setOwner", "grant", "revoke", "confirm">>
Rest5 == <<"pointCircle", "setOwner", "grant", "revoke", "confirm">>
Rest4 == <<"pointArc", "pointCircle", "setOwner", "grant", "revoke", "confirm">>
Rest3 == <<"upgradeCircle", "pointArc", "pointCircle", "setOwner", "grant", "revoke",
           "confirm">>
Rest2 == <<"upgradeArc", "upgradeCircle", "pointArc", "pointCircle", "setOwner", "grant",
           "revoke", "confirm">>
Rest1 == <<"deploy", "upgradeArc", "upgradeCircle", "pointArc", "pointCircle", "setOwner",
           "grant", "revoke", "confirm">>
OtherPlan == job.todo \in {Rest1, Rest2, Rest3, Rest4, Rest5, Rest6}

\* The security migration takes the role from the registrar in the file; the other
\* script never gets past its attempt to take the node.
JobIsKnown ==
    /\ job = [script |-> job.script, new |-> job.new, old |-> job.old,
              oldTrusted |-> job.oldTrusted, todo |-> job.todo]
    /\ \/ Quiet
       \/ job.script = "migrateSecurityFixes" /\ job.old = record.current
       \/ job.script = "migrateReverseRegistrar" /\ OtherPlan

\* What is trusted besides the current registrar and the one being put in its
\* place was left behind by a run that was stopped.
ReverseInv ==
    /\ IsFiniteSet(trusted) /\ interrupts \in Nat
    /\ Cardinality(trusted \ {record.current, job.new}) <= interrupts
    /\ OnlyCurrentTrusted
    /\ JobIsKnown

\* Finite sets in which one is contained in the other, or exceeds it by one element.
LEMMA NoMoreThan ==
    ASSUME NEW S, NEW T, IsFiniteSet(T), S \subseteq T
    PROVE  /\ Cardinality(S) \in Nat /\ Cardinality(T) \in Nat
           /\ Cardinality(S) <= Cardinality(T)
  BY FS_Subset, FS_CardinalityType

LEMMA OneMoreThan ==
    ASSUME NEW S, NEW T, NEW x, IsFiniteSet(T), S \subseteq T \cup {x}
    PROVE  /\ Cardinality(S) \in Nat /\ Cardinality(T) \in Nat
           /\ Cardinality(S) <= Cardinality(T) + 1
  <1>1. /\ IsFiniteSet(T \cup {x})
        /\ Cardinality(T \cup {x}) = IF x \in T THEN Cardinality(T) ELSE Cardinality(T) + 1
    BY FS_AddElement
  <1>2. Cardinality(T) \in Nat
    BY FS_CardinalityType
  <1>3. Cardinality(S) \in Nat /\ Cardinality(S) <= Cardinality(T \cup {x})
    BY <1>1, NoMoreThan
  <1> QED
    BY <1>1, <1>2, <1>3

LEMMA ReverseInitially == ReverseInit => ReverseInv
  <1> SUFFICES ASSUME ReverseInit PROVE ReverseInv
    OBVIOUS
  <1>1. IsFiniteSet(trusted) /\ interrupts = 0 /\ job = NoJob
    BY FS_Singleton DEF ReverseInit
  <1>2. trusted \ {record.current, job.new} = {} /\ trusted \ {record.current} = {}
    BY DEF ReverseInit
  <1>3. Cardinality({}) = 0
    BY FS_EmptySet
  <1>4. JobIsKnown
    BY <1>1 DEF JobIsKnown, Quiet, NoJob
  <1> QED
    BY <1>1, <1>2, <1>3, <1>4 DEF ReverseInv, OnlyCurrentTrusted

\* A run that is stopped leaves one more behind, if it had come to trust it.
LEMMA InterruptKeeps ==
    ASSUME ReverseInv, Interrupt, UNCHANGED <<trusted, record>>
    PROVE  ReverseInv'
  <1> DEFINE left == trusted \ {record.current, job.new}
  <1> HIDE DEF left
  <1>1. job' = NoJob /\ interrupts' = interrupts + 1 /\ trusted' = trusted /\ record' = record
    BY DEF Interrupt
  <1>2. IsFiniteSet(left) /\ Cardinality(left) <= interrupts /\ interrupts \in Nat
    BY FS_Difference DEF ReverseInv, left
  <1>3. Cardinality(trusted \ {record.current}) <= interrupts + 1
    <2>1. trusted \ {record.current} \subseteq left \cup {job.new}
      BY DEF left
    <2>2. Cardinality(trusted \ {record.current}) \in Nat /\ Cardinality(left) \in Nat
          /\ Cardinality(trusted \ {record.current}) <= Cardinality(left) + 1
      BY <2>1, <1>2, OneMoreThan, Zenon
    <2> QED
      BY <2>2, <1>2
  <1>4. Cardinality(trusted \ {record.current, NoJob.new}) <= interrupts + 1
    <2>1. trusted \ {record.current, NoJob.new} \subseteq left \cup {job.new}
      BY DEF left
    <2>2. /\ Cardinality(trusted \ {record.current, NoJob.new}) \in Nat
          /\ Cardinality(left) \in Nat
          /\ Cardinality(trusted \ {record.current, NoJob.new}) <= Cardinality(left) + 1
      BY <2>1, <1>2, OneMoreThan, Zenon
    <2> QED
      BY <2>2, <1>2
  <1> QED
    BY <1>1, <1>2, <1>3, <1>4 DEF ReverseInv, OnlyCurrentTrusted, JobIsKnown, Quiet, NoJob

LEMMA RestsAre ==
    /\ Head(Rest6) = "setOwner"
    /\ Head(Rest5) = "pointCircle" /\ Tail(Rest5) = Rest6
    /\ Head(Rest4) = "pointArc" /\ Tail(Rest4) = Rest5
    /\ Head(Rest3) = "upgradeCircle" /\ Tail(Rest3) = Rest4
    /\ Head(Rest2) = "upgradeArc" /\ Tail(Rest2) = Rest3
    /\ Head(Rest1) = "deploy" /\ Tail(Rest1) = Rest2
  <1>6. Head(Rest6) = "setOwner"
    BY DEF Rest6
  <1>5. Head(Rest5) = "pointCircle" /\ Tail(Rest5) = Rest6
    BY DEF Rest5, Rest6
  <1>4. Head(Rest4) = "pointArc" /\ Tail(Rest4) = Rest5
    BY DEF Rest4, Rest5
  <1>3. Head(Rest3) = "upgradeCircle" /\ Tail(Rest3) = Rest4
    BY DEF Rest3, Rest4
  <1>2. Head(Rest2) = "upgradeArc" /\ Tail(Rest2) = Rest3
    BY DEF Rest2, Rest3
  <1>1. Head(Rest1) = "deploy" /\ Tail(Rest1) = Rest2
    BY DEF Rest1, Rest2
  <1> QED
    BY <1>1, <1>2, <1>3, <1>4, <1>5, <1>6

\* The steps of the other script come in the order of its plan.
LEMMA OtherPlanSteps ==
    ASSUME OtherPlan
    PROVE  /\ Head(job.todo) \in {"deploy", "upgradeArc", "upgradeCircle",
                                  "pointArc", "pointCircle", "setOwner"}
           /\ Head(job.todo) # "setOwner" =>
                 Tail(job.todo) \in {Rest1, Rest2, Rest3, Rest4, Rest5, Rest6}
  <1>1. job.todo \in {Rest1, Rest2, Rest3, Rest4, Rest5, Rest6}
    BY DEF OtherPlan
  <1> QED
    BY <1>1, RestsAre, Zenon

LEMMA JobAdvances ==
    ASSUME JobIsKnown, ~Quiet, Done, record' = record, Head(job.todo) # "setOwner"
    PROVE  /\ job'.new = job.new /\ interrupts' = interrupts
           /\ JobIsKnown' /\ ~Quiet'
  <1>1. job' = [job EXCEPT !.todo = Tail(@)] /\ interrupts' = interrupts
    BY DEF Done
  <1>2. /\ job'.script = job.script /\ job'.new = job.new /\ job'.old = job.old
        /\ job'.oldTrusted = job.oldTrusted /\ job'.todo = Tail(job.todo)
        /\ job' = [script |-> job'.script, new |-> job'.new, old |-> job'.old,
                   oldTrusted |-> job'.oldTrusted, todo |-> job'.todo]
    BY <1>1 DEF JobIsKnown
  <1>3. JobIsKnown'
    <2>1. CASE job.script = "migrateSecurityFixes" /\ job.old = record.current
      BY <1>2, <2>1 DEF JobIsKnown
    <2>2. CASE job.script = "migrateReverseRegistrar" /\ OtherPlan
      BY <1>2, <2>2, OtherPlanSteps DEF JobIsKnown, OtherPlan
    <2> QED
      BY <2>1, <2>2 DEF JobIsKnown
  <1>4. job.script # "none" /\ job'.script # "none" /\ ~Quiet'
    <2>1. NoJob.script = "none"
      BY DEF NoJob
    <2>2. job.script # "none"
      BY DEF JobIsKnown
    <2> QED
      BY <2>1, <2>2, <1>2 DEF Quiet
  <1> QED
    BY <1>1, <1>2, <1>3, <1>4

LEMMA BeginKeeps ==
    ASSUME NEW script, NEW was, NEW todo, ReverseInv, Begin(script, was, todo),
           \/ script = "migrateSecurityFixes" /\ was = record.current
           \/ script = "migrateReverseRegistrar"
              /\ todo \in {Rest1, Rest2, Rest3, Rest4, Rest5, Rest6}
    PROVE  ReverseInv'
  <1>1. /\ job' = [script |-> script, new |-> Fresh, old |-> was,
                   oldTrusted |-> was \in trusted, todo |-> todo]
        /\ trusted' = trusted /\ record' = record /\ interrupts' = interrupts
    BY DEF Begin, wiring
  <1>2. Cardinality(trusted \ {record.current}) <= interrupts
        /\ IsFiniteSet(trusted \ {record.current}) /\ interrupts \in Nat
    BY FS_Difference DEF Begin, ReverseInv, OnlyCurrentTrusted
  <1>3. Cardinality(trusted \ {record.current, Fresh}) <= interrupts
    <2>1. trusted \ {record.current, Fresh} \subseteq trusted \ {record.current}
      OBVIOUS
    <2>2. /\ Cardinality(trusted \ {record.current, Fresh}) \in Nat
          /\ Cardinality(trusted \ {record.current}) \in Nat
          /\ Cardinality(trusted \ {record.current, Fresh})
                <= Cardinality(trusted \ {record.current})
      BY <1>2, <2>1, NoMoreThan, Zenon
    <2> QED
      BY <1>2, <2>2
  <1>4. job'.script = script /\ job'.new = Fresh /\ job'.old = was /\ job'.todo = todo
    BY <1>1
  <1>5. JobIsKnown'
    BY <1>1, <1>4 DEF JobIsKnown, OtherPlan
  <1>6. ~Quiet'
    BY <1>4 DEF Quiet, NoJob
  <1> QED
    BY <1>1, <1>2, <1>3, <1>4, <1>5, <1>6 DEF ReverseInv, OnlyCurrentTrusted

\* A step of a script may grant the role to the registrar it puts in place.
LEMMA JobStepKeeps ==
    ASSUME ReverseInv, ~Quiet, Done, record' = record, Head(job.todo) # "setOwner",
           trusted' \subseteq trusted \cup {job.new}
    PROVE  ReverseInv'
  <1>1. IsFiniteSet(trusted \cup {job.new})
    BY FS_AddElement DEF ReverseInv
  <1>2. IsFiniteSet(trusted') /\ IsFiniteSet(trusted \ {record.current, job.new})
    BY <1>1, FS_Subset, FS_Difference DEF ReverseInv
  <1>3. job'.new = job.new /\ interrupts' = interrupts /\ JobIsKnown' /\ ~Quiet'
    BY JobAdvances DEF ReverseInv
  <1>4. trusted' \ {record.current, job.new} \subseteq trusted \ {record.current, job.new}
    OBVIOUS
  <1>5. /\ Cardinality(trusted' \ {record.current, job.new}) \in Nat
        /\ Cardinality(trusted \ {record.current, job.new}) \in Nat
        /\ Cardinality(trusted' \ {record.current, job.new})
              <= Cardinality(trusted \ {record.current, job.new})
    BY <1>2, <1>4, NoMoreThan, Zenon
  <1>6. Cardinality(trusted' \ {record'.current, job'.new}) <= interrupts'
    BY <1>3, <1>5 DEF ReverseInv
  <1> QED
    BY <1>2, <1>3, <1>6 DEF ReverseInv, OnlyCurrentTrusted

\* What a run that gets to its end leaves trusted is what was left over before it:
\* the registrar it replaces is confirmed to have lost the role.
LEMMA ConfirmKeeps == ASSUME ReverseInv, ~Quiet, Confirm PROVE ReverseInv'
  <1>1. Head(job.todo) = "confirm" /\ trusted' = trusted
    BY DEF Confirm, Now, wiring
  <1>2. CASE ~Confirmed
    BY <1>1, <1>2, InterruptKeeps DEF Confirm
  <1>3. CASE Confirmed
    <2>1. /\ record' = [current |-> job.new, old |-> record.current, code |-> code]
          /\ job' = NoJob /\ interrupts' = interrupts
      BY <1>3 DEF Confirm
    <2>2. job.old = record.current
      BY <1>1, OtherPlanSteps DEF ReverseInv, JobIsKnown
    <2>3. record.current \notin trusted
      BY <2>2, <1>3 DEF Confirmed
    <2>4. /\ record'.current = job.new
          /\ trusted' \ {record'.current} = trusted \ {record.current, job.new}
      BY <1>1, <2>1, <2>3
    <2>5. IsFiniteSet(trusted \ {record.current, job.new})
      BY FS_Difference DEF ReverseInv
    <2>6. trusted' \ {record'.current, job'.new} \subseteq trusted \ {record.current, job.new}
      BY <2>4
    <2>7. /\ Cardinality(trusted' \ {record'.current, job'.new}) \in Nat
          /\ Cardinality(trusted \ {record.current, job.new}) \in Nat
          /\ Cardinality(trusted' \ {record'.current, job'.new})
                <= Cardinality(trusted \ {record.current, job.new})
      BY <2>5, <2>6, NoMoreThan, Zenon
    <2>8. Cardinality(trusted' \ {record'.current, job'.new}) <= interrupts'
      BY <2>1, <2>7 DEF ReverseInv
    <2>9. Cardinality(trusted' \ {record'.current}) <= interrupts'
      BY <2>1, <2>4 DEF ReverseInv
    <2>10. JobIsKnown'
      BY <2>1 DEF JobIsKnown, Quiet, NoJob
    <2> QED
      BY <1>1, <2>1, <2>8, <2>9, <2>10 DEF ReverseInv, OnlyCurrentTrusted
  <1> QED
    BY <1>2, <1>3

LEMMA ReverseStep == ReverseInv /\ [ReverseNext]_reverseVars => ReverseInv'
  <1> SUFFICES ASSUME ReverseInv, [ReverseNext]_reverseVars PROVE ReverseInv'
    OBVIOUS
  <1>1. CASE SecurityFixes
    BY <1>1, BeginKeeps DEF SecurityFixes
  <1>2. CASE ReverseRegistrarOnly
    BY <1>2, BeginKeeps DEF ReverseRegistrarOnly, Rest1
  <1>3. ASSUME NEW step, Now(step) PROVE ~Quiet /\ Head(job.todo) = step
    BY <1>3 DEF Now, Quiet, NoJob
  <1>4. CASE Deploy \/ MoveNode \/ \E c \in Controllers : Upgrade(c) \/ Point(c)
    <2>1. UNCHANGED <<trusted, record>> /\ Done
      BY <1>4 DEF Deploy, MoveNode, Upgrade, Point, wiring
    <2>2. \/ Now("deploy") \/ Now("node") \/ Now("upgradeArc")
          \/ Now("upgradeCircle") \/ Now("pointArc")
          \/ Now("pointCircle")
      BY <1>4, Zenon DEF Deploy, MoveNode, Upgrade, Point
    <2>3. /\ ~Quiet
          /\ Head(job.todo) \in {"deploy", "node", "upgradeArc",
                "upgradeCircle", "pointArc", "pointCircle"}
      BY <1>3, <2>2, Zenon
    <2> QED
      BY <2>1, <2>3, JobStepKeeps
  <1>5. CASE SetNodeOwner
    BY <1>5, InterruptKeeps DEF SetNodeOwner, wiring
  <1>6. CASE GrantController
    BY <1>6, <1>3, JobStepKeeps DEF GrantController
  <1>7. CASE RevokeOld
    <2>1. trusted' \subseteq trusted \cup {job.new}
      BY <1>7 DEF RevokeOld
    <2> QED
      BY <1>7, <1>3, <2>1, JobStepKeeps DEF RevokeOld
  <1>8. CASE Confirm
    BY <1>8, <1>3, ConfirmKeeps DEF Confirm
  <1>9. CASE Stop
    BY <1>9, InterruptKeeps DEF Stop, wiring
  <1>10. CASE ValidateMigration \/ UNCHANGED reverseVars
    <2>1. UNCHANGED <<trusted, record, job, interrupts>>
      BY <1>10 DEF ValidateMigration, reverseVars, wiring
    <2> QED
      BY <2>1 DEF ReverseInv, OnlyCurrentTrusted, JobIsKnown, OtherPlan, Quiet
  <1> QED
    BY <1>1, <1>2, <1>4, <1>5, <1>6, <1>7, <1>8, <1>9, <1>10 DEF ReverseNext, JobStep

\* Whatever the scripts are stopped at, and in whatever order they are run again,
\* the number of reverse registrars that can still write the resolver's records
\* beside the current one never exceeds the number of runs that were stopped.
THEOREM OnlyCurrentTrustedHolds == ReverseSpec => []OnlyCurrentTrusted
  <1>1. ReverseInv => OnlyCurrentTrusted
    BY DEF ReverseInv
  <1> QED
    BY <1>1, ReverseInitially, ReverseStep, PTL DEF ReverseSpec

------------------------------------------------------------------------------
(***************************************************************************)
(* The handover.  The scripts' order of grants and revocations is said of  *)
(* the plans: every step is one the scripts may plan (PermittedSteps), and *)
(* every plan is careful (Careful): either each revocation of a vital role *)
(* names an heir that has to hold the role, or the plan takes roles from   *)
(* the deployer alone, and only such that somebody else holds or is given  *)
(* before.  A step leaves a careful plan, and so nobody takes the last     *)
(* holder of a role away, wherever a run is stopped.                       *)
(***************************************************************************)

\* A set of naturals has a smallest one.
LEMMA SmallestNat ==
    ASSUME NEW T, T \subseteq Nat, T # {}
    PROVE  \E x \in T : \A y \in T : ~(y < x)
<1> DEFINE R == {ss \in Nat \X Nat : ss[1] < ss[2]}
<1>1. IsWellFoundedOn(R, Nat)
  BY NatLessThanWellFounded, Zenon DEF OpToRel
<1>2. PICK x \in T : \A y \in T : ~(<<y, x>> \in R)
  <2> HIDE DEF R
  <2> QED
    BY <1>1, WFMin
<1> QED
  BY <1>2

\* What is kept of the first i elements.
KeepNext(q, S, f, i) ==
    IF i = 0 THEN <<>>
    ELSE IF q[i] \in S THEN Append(f[i - 1], q[i]) ELSE f[i - 1]

LEMMA KeptExists ==
    ASSUME NEW q, NEW S, NEW n \in Nat
    PROVE  \E f : f = [i \in 0..n |-> KeepNext(q, S, f, i)]
<1> DEFINE Missing == {m \in Nat : ~\E f : f = [i \in 0..m |-> KeepNext(q, S, f, i)]}
<1> SUFFICES ASSUME Missing # {} PROVE FALSE
  OBVIOUS
<1>1. PICK m \in Missing : \A k \in Missing : ~(k < m)
  <2> Missing \subseteq Nat
    OBVIOUS
  <2> HIDE DEF Missing
  <2> QED
    BY SmallestNat
<1>2. m \in Nat /\ ~\E f : f = [i \in 0..m |-> KeepNext(q, S, f, i)]
  OBVIOUS
<1>3. CASE m = 0
  <2> DEFINE f == [i \in 0..m |-> <<>>]
  <2>1. f = [i \in 0..m |-> KeepNext(q, S, f, i)]
    BY <1>3 DEF KeepNext
  <2> QED
    BY <1>2, <2>1
<1>4. CASE m # 0
  <2>1. m - 1 \in Nat /\ m - 1 < m /\ m - 1 \notin Missing
    BY <1>1, <1>2, <1>4
  <2>2. PICK g : g = [i \in 0..(m - 1) |-> KeepNext(q, S, g, i)]
    BY <2>1
  <2> DEFINE f == [i \in 0..m |-> IF i = m THEN KeepNext(q, S, g, m) ELSE g[i]]
  <2>3. ASSUME NEW i \in 0..m PROVE f[i] = KeepNext(q, S, f, i)
    <3>1. CASE i = 0
      <4>1. f[i] = g[0] /\ g[0] = KeepNext(q, S, g, 0)
        BY <1>2, <1>4, <2>2, <3>1
      <4> QED
        BY <3>1, <4>1 DEF KeepNext
    <3>2. CASE i # 0 /\ i # m
      <4>1. i \in 0..(m - 1) /\ i - 1 \in 0..m /\ i - 1 # m
        BY <1>2, <3>2
      <4>2. f[i] = g[i] /\ g[i] = KeepNext(q, S, g, i) /\ f[i - 1] = g[i - 1]
        BY <2>2, <3>2, <4>1
      <4> HIDE DEF f
      <4> QED
        BY <3>2, <4>2 DEF KeepNext
    <3>3. CASE i # 0 /\ i = m
      <4>1. i - 1 \in 0..m /\ i - 1 # m
        BY <1>2, <3>3
      <4>2. f[i] = KeepNext(q, S, g, i) /\ f[i - 1] = g[i - 1]
        BY <3>3, <4>1
      <4> HIDE DEF f
      <4> QED
        BY <3>3, <4>2 DEF KeepNext
    <3> QED
      BY <3>1, <3>2, <3>3
  <2>4. f = [i \in 0..m |-> KeepNext(q, S, f, i)]
    BY <2>3
  <2> QED
    BY <1>2, <2>4
<1> QED
  BY <1>3, <1>4

\* Only keeps elements of q that are in S, and all of them.
AllKept(q, S, kept) ==
    \A k \in 1..Len(q) : q[k] \in S => \E j \in 1..Len(kept) : kept[j] = q[k]

LEMMA OnlyKeeps ==
    ASSUME NEW X, NEW q \in Seq(X), NEW S
    PROVE  /\ Only(q, S) \in Seq(X \cap S)
           /\ AllKept(q, S, Only(q, S))
<1> DEFINE n == Len(q)
           K(f) == [i \in 0..n |-> KeepNext(q, S, f, i)]
           F == CHOOSE f : f = [i \in 0..Len(q) |->
                                   IF i = 0 THEN <<>>
                                   ELSE IF q[i] \in S THEN Append(f[i - 1], q[i]) ELSE f[i - 1]]
<1>1. n \in Nat /\ \A i \in 1..n : q[i] \in X
  BY LenProperties
<1>2. Only(q, S) = F[n]
  BY Zenon DEF Only
<1>3. F = K(F)
  <2>1. \E f : f = K(f)
    BY <1>1, KeptExists
  <2> QED
    BY <2>1, Zenon DEF KeepNext
<1> HIDE DEF F
<1> DEFINE Kept(i) == /\ F[i] \in Seq(X \cap S)
                      /\ \A k \in 1..i : q[k] \in S => \E j \in 1..Len(F[i]) : F[i][j] = q[k]
           Lost == {i \in 0..n : ~Kept(i)}
<1>4. Lost = {}
  <2> SUFFICES ASSUME Lost # {} PROVE FALSE
    OBVIOUS
  <2>1. PICK i \in Lost : \A k \in Lost : ~(k < i)
    <3> Lost \subseteq Nat
      BY <1>1
    <3> HIDE DEF Lost
    <3> QED
      BY SmallestNat
  <2>2. i \in 0..n /\ ~Kept(i)
    OBVIOUS
  <2>3. F[i] = KeepNext(q, S, F, i)
    BY <1>3, <2>2
  <2>4. CASE i = 0
    <3>1. F[i] = <<>>
      BY <2>3, <2>4 DEF KeepNext
    <3>2. F[i] \in Seq(X \cap S)
      BY <3>1, EmptySeq
    <3> QED
      BY <2>2, <2>4, <3>2
  <2>5. CASE i # 0
    <3>1. i - 1 \in 0..n /\ i - 1 < i /\ i \in 1..n
      BY <1>1, <2>2, <2>5
    <3>2. Kept(i - 1)
      BY <2>1, <3>1
    <3>3. CASE q[i] \in S
      <4>1. F[i] = Append(F[i - 1], q[i])
        BY <2>3, <2>5, <3>3 DEF KeepNext
      <4>2. q[i] \in X \cap S
        BY <1>1, <3>1, <3>3
      <4>3. /\ F[i] \in Seq(X \cap S) /\ Len(F[i]) = Len(F[i - 1]) + 1
            /\ \A j \in 1..Len(F[i - 1]) : F[i][j] = F[i - 1][j]
            /\ F[i][Len(F[i - 1]) + 1] = q[i] /\ Len(F[i - 1]) \in Nat
        BY <3>2, <4>1, <4>2, AppendProperties, LenProperties
      <4>4. ASSUME NEW k \in 1..i, q[k] \in S
            PROVE  \E j \in 1..Len(F[i]) : F[i][j] = q[k]
        <5>1. CASE k = i
          <6>1. Len(F[i - 1]) + 1 \in 1..Len(F[i])
            BY <4>3
          <6> QED
            BY <4>3, <5>1, <6>1
        <5>2. CASE k # i
          <6>1. k \in 1..(i - 1)
            BY <3>1, <5>2
          <6>2. PICK j \in 1..Len(F[i - 1]) : F[i - 1][j] = q[k]
            BY <3>2, <4>4, <6>1
          <6>3. j \in 1..Len(F[i])
            BY <4>3
          <6> QED
            BY <4>3, <6>2, <6>3
        <5> QED
          BY <5>1, <5>2
      <4> QED
        BY <2>2, <4>3, <4>4
    <3>4. CASE q[i] \notin S
      <4>1. F[i] = F[i - 1]
        BY <2>3, <2>5, <3>4 DEF KeepNext
      <4>2. ASSUME NEW k \in 1..i, q[k] \in S PROVE k \in 1..(i - 1)
        BY <3>1, <3>4, <4>2
      <4> QED
        BY <2>2, <3>2, <4>1, <4>2
    <3> QED
      BY <3>3, <3>4
  <2> QED
    BY <2>4, <2>5
<1>5. Kept(n)
  BY <1>1, <1>4
<1> QED
  BY <1>2, <1>5 DEF AllKept

------------------------------------------------------------------------------
\* A step as the plans have them.
Steps ==
    [do : {"grant", "revoke", "transfer", "create", "timelock", "deploy",
           "pause", "unpause", "finish"},
     on : Surface \cup Ownable \cup {"file"}, role : Role \cup {"owner", "none"},
     by : Party, who : Party \cup {NoParty}, heir : Party \cup {NoParty}]

\* What the scripts never plan: to give a role to the deployer, to take one from a
\* Safe but that of upgrades, to give a contract to any but the Safe of the file, to
\* create the Safe of the file, or any once the migration is recorded, and, on the
\* mainnet, to record a timelock or hand a contract over before the Safe has been
\* looked at.
Permitted(st) ==
    /\ st.do \in {"grant", "revoke"} => st.on \in Surface /\ st.role \in Role
    /\ st.do = "grant" => st.who \in Safe \cup {Timelock}
    /\ st.do = "revoke" => st.who = Deployer \/ (st.who \in Safe /\ st.role = "UPGRADER")
    /\ st.do = "transfer" => /\ st.who = file.safe /\ st.who \in Safe /\ st.on \in Ownable
                             /\ network = "mainnet" => file.timelock
    /\ st.do = "create" => /\ st.who \in Safe /\ st.who # file.safe
                           /\ ~file.complete /\ network = "testnet"
    /\ st.do = "timelock" => (network = "mainnet" => threshold[file.safe] = 2)
PermittedSteps == {st \in Steps : Permitted(st)}

\* Whom a revocation would leave the role to: its heir, or somebody but the deployer
\* who has it, or is to be given it before.
RevokesVital(st) == st.do = "revoke" /\ st.on \in Surface /\ st.role \in Vital(st.on)
HeirsNamed(q) ==
    \A i \in 1..Len(q) : RevokesVital(q[i]) => q[i].heir \notin {NoParty, Deployer, q[i].who}
OthersHold(s, r) == \E p \in holders[s][r] : p # Deployer
Grants(st, s, r) == st.do = "grant" /\ st.on = s /\ st.role = r
GrantedBefore(q, i) == \E j \in 1..(i - 1) : Grants(q[j], q[i].on, q[i].role)
OnlyDeployerLoses(q) == \A i \in 1..Len(q) : q[i].do = "revoke" => q[i].who = Deployer
Preceded(q) ==
    /\ OnlyDeployerLoses(q)
    /\ \A i \in 1..Len(q) : RevokesVital(q[i]) =>
          OthersHold(q[i].on, q[i].role) \/ GrantedBefore(q, i)
Careful(q) == HeirsNamed(q) \/ Preceded(q)

AdminShape ==
    /\ network \in {"testnet", "mainnet"}
    /\ holders \in [Surface -> [Role -> SUBSET Party]]
    /\ owner \in [Ownable -> Party]
    /\ threshold \in [Safe -> 0..3]
    /\ file = [safe |-> file.safe, timelock |-> file.timelock, moved |-> file.moved,
               complete |-> file.complete, deferred |-> file.deferred]
    /\ file.safe \in Safe \cup {NoParty} /\ file.complete \in BOOLEAN
    /\ file.deferred \subseteq Slot /\ run.deferred \subseteq Slot
    /\ run = [script |-> run.script, safe |-> run.safe, todo |-> run.todo,
              deferred |-> run.deferred]

\* All scripts but deployMultisig are run for the Safe of the file; deployMultisig
\* creates its Safe first when it is not there.
RunIsForSafe ==
    ~Idle =>
       /\ run.safe \in Safe
       /\ run.script = "deployMultisig" \/ run.safe = file.safe
       /\ run.script \in {"deployMultisig", "migrateFullOwnership"} => network = "testnet"
       /\ run.script = "migrateFullOwnership" => threshold[run.safe] >= 2
       /\ \/ threshold[run.safe] > 0
          \/ run.script = "deployMultisig" /\ Step.do = "create" /\ Step.who = run.safe
SafeExists == file.safe \in Safe => threshold[file.safe] > 0

\* What the record leaves to the Safe is not only the deployer's.
DeferredIsShared ==
    \A s \in Surface : \A r \in Vital(s) : <<s, r>> \in file.deferred => OthersHold(s, r)

SafeWasLookedAt ==
    network = "mainnet" =>
       /\ file.safe \in Safe
       /\ file.timelock => threshold[file.safe] = 2
       /\ owner["root"] # Deployer => file.timelock

AdminInv ==
    /\ AdminShape
    /\ run.todo \in Seq(PermittedSteps) /\ Careful(run.todo)
    /\ RunIsForSafe /\ SafeExists /\ SafeWasLookedAt /\ DeferredIsShared
    /\ file.complete => file.safe \in Safe
    /\ Governed /\ RecordIsHonest

------------------------------------------------------------------------------
USE AdminAssumption

LEMMA Parties ==
    /\ Deployer \in Party /\ Timelock \in Party /\ Safe \subseteq Party
    /\ NoParty \notin Party /\ Deployer \notin Safe /\ Timelock # Deployer
    /\ Timelock \notin Safe
  BY DEF Party

LEMMA Tables ==
    /\ Surface = {"arcController", "circleController", "resolver"}
    /\ Role = {"DEFAULT_ADMIN", "ADMIN", "UPGRADER", "PAUSER", "ORACLE"}
    /\ Ownable = {"arcRegistrar", "circleRegistrar", "reverseRegistrar",
                  "priceOracle", "discountRegistry", "root"}
  <1>1. Surface = {"arcController", "circleController", "resolver"}
    BY DEF Surface, SurfaceOrder
  <1>2. Role = {"DEFAULT_ADMIN", "ADMIN", "UPGRADER", "PAUSER", "ORACLE"}
    BY DEF Role, RoleOrder
  <1>3. Ownable = {"arcRegistrar", "circleRegistrar", "reverseRegistrar",
                  "priceOracle", "discountRegistry", "root"}
    BY DEF Ownable, OwnableOrder
  <1> QED
    BY <1>1, <1>2, <1>3

LEMMA RolesAre == ASSUME NEW s PROVE RolesOf(s) \subseteq Role
  BY DEF RolesOf

LEMMA GrantAllowed ==
    ASSUME NEW s \in Surface, NEW r \in Role, NEW by \in Party, NEW to \in Safe \cup {Timelock}
    PROVE  Grant(s, r, by, to) \in PermittedSteps
  <1>1. Grant(s, r, by, to) \in Steps
    BY Parties DEF Grant, Steps
  <1>2. /\ Grant(s, r, by, to).do = "grant" /\ Grant(s, r, by, to).who = to
        /\ Grant(s, r, by, to).on = s /\ Grant(s, r, by, to).role = r
    BY DEF Grant
  <1> QED
    BY <1>1, <1>2 DEF PermittedSteps, Permitted

LEMMA RevokeAllowed ==
    ASSUME NEW s \in Surface, NEW r \in Role, NEW by \in Party, NEW from \in Party,
           NEW heir \in Party \cup {NoParty},
           from = Deployer \/ (from \in Safe /\ r = "UPGRADER")
    PROVE  Revoke(s, r, by, from, heir) \in PermittedSteps
  <1>1. Revoke(s, r, by, from, heir) \in Steps
    BY Parties DEF Revoke, Steps
  <1>2. /\ Revoke(s, r, by, from, heir).do = "revoke" /\ Revoke(s, r, by, from, heir).who = from
        /\ Revoke(s, r, by, from, heir).role = r /\ Revoke(s, r, by, from, heir).on = s
    BY DEF Revoke
  <1> QED
    BY <1>1, <1>2 DEF PermittedSteps, Permitted

LEMMA ConveyAllowed ==
    ASSUME NEW o \in Ownable, file.safe \in Safe, network = "mainnet" => file.timelock
    PROVE  Conveyance(o, file.safe) \in PermittedSteps
  <1>1. Conveyance(o, file.safe) \in Steps
    BY Parties DEF Conveyance, Steps
  <1>2. /\ Conveyance(o, file.safe).do = "transfer" /\ Conveyance(o, file.safe).who = file.safe
        /\ Conveyance(o, file.safe).on = o
    BY DEF Conveyance
  <1> QED
    BY <1>1, <1>2 DEF PermittedSteps, Permitted

LEMMA OtherAllowed ==
    ASSUME NEW what \in {"deploy", "pause", "unpause", "finish", "create", "timelock"},
           NEW who \in Party \cup {NoParty},
           what = "create" => /\ who \in Safe /\ who # file.safe
                              /\ ~file.complete /\ network = "testnet",
           what = "timelock" => (network = "mainnet" => threshold[file.safe] = 2)
    PROVE  Other(what, who) \in PermittedSteps
  <1>1. Other(what, who) \in Steps
    BY Parties DEF Other, Steps
  <1>2. Other(what, who).do = what /\ Other(what, who).who = who
    BY DEF Other
  <1> QED
    BY <1>1, <1>2 DEF PermittedSteps, Permitted

LEMMA FinishAllowed ==
    Finish \in Seq(PermittedSteps) /\ Len(Finish) = 1 /\ Finish[1].do = "finish"
  <1>1. Other("finish", NoParty) \in PermittedSteps
    BY OtherAllowed
  <1>2. Other("finish", NoParty).do = "finish"
    BY DEF Other
  <1> QED
    BY <1>1, <1>2 DEF Finish

LEMMA IsSequence ==
    ASSUME NEW X, NEW n \in Nat, NEW f \in [1..n -> X]
    PROVE  f \in Seq(X) /\ Len(f) = n
  OBVIOUS

\* Two sequences in a row.
LEMMA InARow ==
    ASSUME NEW X, NEW p \in Seq(X), NEW q \in Seq(X)
    PROVE  /\ p \o q \in Seq(X) /\ Len(p \o q) = Len(p) + Len(q)
           /\ Len(p) \in Nat /\ Len(q) \in Nat
           /\ \A i \in 1..Len(p) : (p \o q)[i] = p[i]
           /\ \A i \in 1..(Len(p) + Len(q)) : i \notin 1..Len(p) =>
                 i - Len(p) \in 1..Len(q) /\ (p \o q)[i] = q[i - Len(p)]
  <1>1. Len(p) \in Nat /\ Len(q) \in Nat /\ p \o q \in Seq(X) /\ Len(p \o q) = Len(p) + Len(q)
    BY ConcatProperties, LenProperties
  <1>2. \A i \in 1..(Len(p) + Len(q)) :
           (p \o q)[i] = IF i <= Len(p) THEN p[i] ELSE q[i - Len(p)]
    BY ConcatProperties
  <1> QED
    BY <1>1, <1>2

------------------------------------------------------------------------------
(* The order of plans.                                                       *)

\* The plan itself gives away each role before it takes it from the deployer.
Ordered(q) ==
    /\ OnlyDeployerLoses(q)
    /\ \A i \in 1..Len(q) : RevokesVital(q[i]) => GrantedBefore(q, i)
NothingRevoked(q) == \A i \in 1..Len(q) : q[i].do # "revoke"

LEMMA OrderedIsCareful == ASSUME NEW q, Ordered(q) PROVE Careful(q)
  BY DEF Ordered, Careful, Preceded

LEMMA NothingRevokedIsOrdered == ASSUME NEW q, NothingRevoked(q) PROVE Ordered(q)
  BY DEF NothingRevoked, Ordered, OnlyDeployerLoses, RevokesVital

LEMMA OrderedInARow ==
    ASSUME NEW X, NEW p \in Seq(X), NEW q \in Seq(X), Ordered(p), OnlyDeployerLoses(q),
           \A i \in 1..Len(q) : RevokesVital(q[i]) =>
              \/ GrantedBefore(q, i)
              \/ \E j \in 1..Len(p) : Grants(p[j], q[i].on, q[i].role)
    PROVE  Ordered(p \o q)
  <1> DEFINE c == p \o q
             m == Len(p)
             n == Len(q)
  <1>1. /\ m \in Nat /\ n \in Nat /\ Len(c) = m + n
        /\ \A i \in 1..m : c[i] = p[i]
        /\ \A i \in 1..(m + n) : i \notin 1..m => i - m \in 1..n /\ c[i] = q[i - m]
    BY InARow
  <1> HIDE DEF c
  <1>2. OnlyDeployerLoses(c)
    BY <1>1 DEF Ordered, OnlyDeployerLoses
  <1>3. ASSUME NEW i \in 1..(m + n), RevokesVital(c[i]) PROVE GrantedBefore(c, i)
    <2>1. CASE i \in 1..m
      <3>1. c[i] = p[i]
        BY <1>1, <2>1
      <3>2. PICK j \in 1..(i - 1) : Grants(p[j], p[i].on, p[i].role)
        BY <1>3, <2>1, <3>1 DEF Ordered, GrantedBefore
      <3>3. c[j] = p[j]
        BY <1>1, <2>1
      <3> QED
        BY <3>1, <3>2, <3>3 DEF GrantedBefore
    <2>2. CASE i \notin 1..m
      <3>1. i - m \in 1..n /\ c[i] = q[i - m]
        BY <1>1, <2>2
      <3>2. CASE GrantedBefore(q, i - m)
        <4>1. PICK j \in 1..((i - m) - 1) : Grants(q[j], q[i - m].on, q[i - m].role)
          BY <3>2 DEF GrantedBefore
        <4>2. /\ j + m \in 1..(i - 1) /\ j + m \in 1..(m + n) /\ j + m \notin 1..m
              /\ (j + m) - m = j
          BY <1>1, <3>1
        <4>3. c[j + m] = q[j]
          BY <1>1, <4>2
        <4> QED
          BY <3>1, <4>1, <4>2, <4>3 DEF GrantedBefore
      <3>3. CASE \E j \in 1..m : Grants(p[j], q[i - m].on, q[i - m].role)
        <4>1. PICK j \in 1..m : Grants(p[j], q[i - m].on, q[i - m].role)
          BY <3>3
        <4>2. j \in 1..(i - 1)
          BY <1>1, <2>2
        <4>3. c[j] = p[j]
          BY <1>1
        <4> QED
          BY <3>1, <4>1, <4>2, <4>3 DEF GrantedBefore
      <3> QED
        BY <1>3, <3>1, <3>2, <3>3
    <2> QED
      BY <2>1, <2>2
  <1> QED
    BY <1>1, <1>2, <1>3 DEF Ordered, c

LEMMA NothingRevokedInARow ==
    ASSUME NEW X, NEW p \in Seq(X), NEW q \in Seq(X), NothingRevoked(p), NothingRevoked(q)
    PROVE  NothingRevoked(p \o q)
  BY InARow DEF NothingRevoked

LEMMA HeirsInARow ==
    ASSUME NEW X, NEW p \in Seq(X), NEW q \in Seq(X), HeirsNamed(p), HeirsNamed(q)
    PROVE  HeirsNamed(p \o q)
  BY InARow DEF HeirsNamed

LEMMA NothingRevokedHasHeirs == ASSUME NEW q, NothingRevoked(q) PROVE HeirsNamed(q)
  BY DEF NothingRevoked, HeirsNamed, RevokesVital

LEMMA FinishRevokesNothing == NothingRevoked(Finish)
  BY FinishAllowed DEF NothingRevoked

------------------------------------------------------------------------------
(* The plans.                                                                *)

LEMMA SlotsAre == AllSlots \in Seq(Slot)
  <1> DEFINE all == [i \in 1..15 |-> <<SurfaceOrder[((i - 1) \div 5) + 1],
                                      RoleOrder[((i - 1) % 5) + 1]>>]
  <1>1. Len(SurfaceOrder) = 3 /\ Len(RoleOrder) = 5
        /\ DOMAIN SurfaceOrder = 1..3 /\ DOMAIN RoleOrder = 1..5
    BY DEF SurfaceOrder, RoleOrder
  <1>2. ASSUME NEW i \in 1..15 PROVE ((i - 1) \div 5) + 1 \in 1..3 /\ ((i - 1) % 5) + 1 \in 1..5
    OBVIOUS
  <1>3. ASSUME NEW i \in 1..15
        PROVE  <<SurfaceOrder[((i - 1) \div 5) + 1], RoleOrder[((i - 1) % 5) + 1]>> \in Slot
    <2> DEFINE a == ((i - 1) \div 5) + 1
               b == ((i - 1) % 5) + 1
    <2>1. a \in DOMAIN SurfaceOrder /\ b \in DOMAIN RoleOrder
      BY <1>1, <1>2
    <2> HIDE DEF a, b
    <2>2. SurfaceOrder[a] \in Surface
      BY <2>1 DEF Surface
    <2>3. RoleOrder[b] \in Role
      BY <2>1 DEF Role
    <2>4. <<SurfaceOrder[a], RoleOrder[b]>> \in Slot
      BY <2>2, <2>3 DEF Slot
    <2> QED
      BY <2>4 DEF a, b
  <1>4. all \in Seq(Slot)
    <2>1. all \in [1..15 -> Slot]
      BY <1>3
    <2> HIDE DEF all
    <2> QED
      BY <2>1, IsSequence
  <1>5. AllSlots = Only(all, {slot \in Slot : slot[2] \in RolesOf(slot[1])})
    BY <1>1, 3 * 5 = 15 DEF AllSlots, Slots
  <1> HIDE DEF all
  <1>6. Only(all, {slot \in Slot : slot[2] \in RolesOf(slot[1])}) \in
           Seq(Slot \cap {slot \in Slot : slot[2] \in RolesOf(slot[1])})
    BY <1>4, OnlyKeeps
  <1>7. Slot \cap {slot \in Slot : slot[2] \in RolesOf(slot[1])} \subseteq Slot
    OBVIOUS
  <1> QED
    BY <1>5, <1>6, <1>7

LEMMA SlotsOnly == ASSUME NEW S PROVE Only(AllSlots, S) \in Seq(Slot)
  <1>1. Only(AllSlots, S) \in Seq(Slot \cap S)
    BY SlotsAre, OnlyKeeps
  <1> QED
    BY <1>1

\* A grant, or a revocation, for each slot.
GrantsFor(q, to)    == Each(q, LAMBDA p : Grant(p[1], p[2], Deployer, to))
RevokesFor(q, heir) == Each(q, LAMBDA p : Revoke(p[1], p[2], Deployer, Deployer, heir))
Conveyances(q, to)  == Each(q, LAMBDA o : Conveyance(o, to))

LEMMA GrantEach ==
    ASSUME NEW q \in Seq(Slot), NEW to \in Safe \cup {Timelock}
    PROVE  LET p == GrantsFor(q, to)
           IN  /\ p \in Seq(PermittedSteps) /\ Len(p) = Len(q) /\ NothingRevoked(p)
               /\ \A i \in 1..Len(q) : Grants(p[i], q[i][1], q[i][2])
  <1> DEFINE p == [i \in 1..Len(q) |-> Grant(q[i][1], q[i][2], Deployer, to)]
  <1>1. DOMAIN q = 1..Len(q) /\ Len(q) \in Nat
    OBVIOUS
  <1>2. p = GrantsFor(q, to)
    BY <1>1 DEF Each, GrantsFor
  <1>3. ASSUME NEW i \in 1..Len(q) PROVE q[i][1] \in Surface /\ q[i][2] \in Role
    BY DEF Slot
  <1>4. ASSUME NEW i \in 1..Len(q)
        PROVE  Grant(q[i][1], q[i][2], Deployer, to) \in PermittedSteps
    BY <1>3, Parties, GrantAllowed
  <1>5. p \in Seq(PermittedSteps) /\ Len(p) = Len(q)
    <2>1. p \in [1..Len(q) -> PermittedSteps]
      BY <1>4
    <2> HIDE DEF p
    <2> QED
      BY <1>1, <2>1, IsSequence
  <1>6. ASSUME NEW i \in 1..Len(q) PROVE Grants(p[i], q[i][1], q[i][2]) /\ p[i].do # "revoke"
    BY DEF Grants, Grant
  <1> QED
    BY <1>2, <1>5, <1>6 DEF NothingRevoked

LEMMA RevokeEach ==
    ASSUME NEW q \in Seq(Slot), NEW heir \in Safe \cup {NoParty}
    PROVE  LET p == RevokesFor(q, heir)
           IN  /\ p \in Seq(PermittedSteps) /\ Len(p) = Len(q) /\ OnlyDeployerLoses(p)
               /\ heir # NoParty => HeirsNamed(p)
               /\ \A i \in 1..Len(q) : p[i].on = q[i][1] /\ p[i].role = q[i][2]
  <1> DEFINE p == [i \in 1..Len(q) |-> Revoke(q[i][1], q[i][2], Deployer, Deployer, heir)]
  <1>1. DOMAIN q = 1..Len(q) /\ Len(q) \in Nat
    OBVIOUS
  <1>2. p = RevokesFor(q, heir)
    BY <1>1 DEF Each, RevokesFor
  <1>3. ASSUME NEW i \in 1..Len(q) PROVE q[i][1] \in Surface /\ q[i][2] \in Role
    BY DEF Slot
  <1>4. ASSUME NEW i \in 1..Len(q)
        PROVE  Revoke(q[i][1], q[i][2], Deployer, Deployer, heir) \in PermittedSteps
    BY <1>3, Parties, RevokeAllowed
  <1>5. p \in Seq(PermittedSteps) /\ Len(p) = Len(q)
    <2>1. p \in [1..Len(q) -> PermittedSteps]
      BY <1>4
    <2> HIDE DEF p
    <2> QED
      BY <1>1, <2>1, IsSequence
  <1>6. ASSUME NEW i \in 1..Len(q)
        PROVE  /\ p[i].on = q[i][1] /\ p[i].role = q[i][2] /\ p[i].who = Deployer
               /\ p[i].heir = heir
    BY DEF Revoke
  <1> HIDE DEF p
  <1>7. OnlyDeployerLoses(p) /\ (heir # NoParty => HeirsNamed(p))
    BY <1>5, <1>6, Parties DEF OnlyDeployerLoses, HeirsNamed
  <1> QED
    BY <1>2, <1>5, <1>6, <1>7

LEMMA ConveyEach ==
    ASSUME NEW q \in Seq(Ownable), file.safe \in Safe, network = "mainnet" => file.timelock
    PROVE  LET p == Conveyances(q, file.safe)
           IN  p \in Seq(PermittedSteps) /\ NothingRevoked(p)
  <1> DEFINE p == [i \in 1..Len(q) |-> Conveyance(q[i], file.safe)]
  <1>1. DOMAIN q = 1..Len(q) /\ Len(q) \in Nat
    OBVIOUS
  <1>2. p = Conveyances(q, file.safe)
    BY <1>1 DEF Each, Conveyances
  <1>3. ASSUME NEW i \in 1..Len(q) PROVE Conveyance(q[i], file.safe) \in PermittedSteps
    BY ConveyAllowed
  <1>4. p \in Seq(PermittedSteps) /\ Len(p) = Len(q)
    <2>1. p \in [1..Len(q) -> PermittedSteps]
      BY <1>3
    <2> HIDE DEF p
    <2> QED
      BY <1>1, <2>1, IsSequence
  <1>5. ASSUME NEW i \in 1..Len(q) PROVE p[i].do # "revoke"
    BY DEF Conveyance
  <1> QED
    BY <1>2, <1>4, <1>5 DEF NothingRevoked

Plan(q) == q \in Seq(PermittedSteps) /\ Careful(q)

LEMMA FinishPlan ==
    ASSUME NEW p \in Seq(PermittedSteps), Ordered(p) \/ HeirsNamed(p)
    PROVE  Plan(p \o Finish)
  <1>1. p \o Finish \in Seq(PermittedSteps)
    BY FinishAllowed, InARow
  <1>2. ASSUME Ordered(p) PROVE Careful(p \o Finish)
    <2>1. Ordered(Finish)
      BY FinishRevokesNothing, NothingRevokedIsOrdered
    <2>2. Ordered(p \o Finish)
      BY <1>2, <2>1, FinishAllowed, OrderedInARow DEF Ordered
    <2> QED
      BY <2>2, OrderedIsCareful
  <1>3. ASSUME HeirsNamed(p) PROVE Careful(p \o Finish)
    <2>1. HeirsNamed(Finish)
      BY FinishRevokesNothing, NothingRevokedHasHeirs
    <2>2. HeirsNamed(p \o Finish)
      BY <1>3, <2>1, FinishAllowed, HeirsInARow
    <2> QED
      BY <2>2 DEF Careful
  <1> QED
    BY <1>1, <1>2, <1>3 DEF Plan

LEMMA Alone ==
    ASSUME NEW X, NEW st \in X
    PROVE  <<st>> \in Seq(X) /\ Len(<<st>>) = 1 /\ <<st>>[1] = st
  OBVIOUS

LEMMA SecondInARow ==
    ASSUME NEW X, NEW p \in Seq(X), NEW q \in Seq(X)
    PROVE  \A i \in 1..Len(q) : Len(p) + i \in 1..Len(p \o q) /\ (p \o q)[Len(p) + i] = q[i]
  <1> TAKE i \in 1..Len(q)
  <1> DEFINE j == Len(p) + i
  <1>1. Len(p) \in Nat /\ Len(q) \in Nat /\ Len(p \o q) = Len(p) + Len(q)
    BY InARow
  <1>2. j \in 1..(Len(p) + Len(q)) /\ j \notin 1..Len(p) /\ j - Len(p) = i
    BY <1>1
  <1>3. (p \o q)[j] = q[j - Len(p)]
    BY <1>2, InARow
  <1> QED
    BY <1>1, <1>2, <1>3

LEMMA GrantedBySecond ==
    ASSUME NEW X, NEW p \in Seq(X), NEW q \in Seq(X), NEW i \in 1..Len(q), NEW s, NEW r,
           Grants(q[i], s, r)
    PROVE  \E j \in 1..Len(p \o q) : Grants((p \o q)[j], s, r)
  BY SecondInARow

LEMMA EmptyPlan == <<>> \in Seq(PermittedSteps) /\ NothingRevoked(<<>>)
  BY DEF NothingRevoked

LEMMA OtherAlone ==
    ASSUME NEW what \in {"deploy", "pause", "unpause", "finish", "create", "timelock"},
           NEW who \in Party \cup {NoParty}, Other(what, who) \in PermittedSteps
    PROVE  <<Other(what, who)>> \in Seq(PermittedSteps) /\ NothingRevoked(<<Other(what, who)>>)
  <1>1. Other(what, who).do = what
    BY DEF Other
  <1> DEFINE st == Other(what, who)
  <1>2. st \in PermittedSteps /\ st.do # "revoke"
    BY <1>1
  <1> HIDE DEF st
  <1>3. <<st>> \in Seq(PermittedSteps) /\ Len(<<st>>) = 1 /\ <<st>>[1] = st
    BY <1>2, Alone
  <1>4. NothingRevoked(<<st>>)
    BY <1>2, <1>3 DEF NothingRevoked
  <1> QED
    BY <1>3, <1>4 DEF st

LEMMA MultisigSlotsAre == MultisigSlots \in Seq(Slot) /\ Len(MultisigSlots) = 6
  <1> DEFINE roles == <<"ADMIN", "UPGRADER", "PAUSER">>
             m == [i \in 1..6 |-> <<SurfaceOrder[((i - 1) % 2) + 1], roles[((i - 1) \div 2) + 1]>>]
  <1>1. MultisigSlots = m
    BY DEF MultisigSlots
  <1>2. ASSUME NEW i \in 1..6
        PROVE  <<SurfaceOrder[((i - 1) % 2) + 1], roles[((i - 1) \div 2) + 1]>> \in Slot
    <2> DEFINE a == ((i - 1) % 2) + 1
               b == ((i - 1) \div 2) + 1
    <2>1. a \in 1..3 /\ b \in 1..3
      OBVIOUS
    <2> HIDE DEF a, b
    <2>2. DOMAIN SurfaceOrder = 1..3
      BY DEF SurfaceOrder
    <2>3. SurfaceOrder[a] \in Surface
      BY <2>1, <2>2 DEF Surface
    <2>4. roles[b] \in Role
      BY <2>1, Tables
    <2>5. <<SurfaceOrder[a], roles[b]>> \in Slot
      BY <2>3, <2>4 DEF Slot
    <2> QED
      BY <2>5 DEF a, b
  <1>3. m \in [1..6 -> Slot]
    BY <1>2
  <1> HIDE DEF m
  <1> QED
    BY <1>1, <1>3, IsSequence

LEMMA DeployMultisigIsCareful ==
    ASSUME NEW safe \in Safe, NEW grant \in BOOLEAN, NEW revoke \in BOOLEAN,
           network = "testnet", threshold[safe] = 0 => ~file.complete /\ safe # file.safe
    PROVE  Plan(DeployMultisigPlan(safe, grant, revoke))
  <1> DEFINE C == IF threshold[safe] = 0 THEN <<Other("create", safe)>> ELSE <<>>
             Gs == GrantsFor(MultisigSlots, safe)
             Rs == RevokesFor(MultisigSlots, NoParty)
             G == IF grant THEN Gs ELSE <<>>
             R == IF grant /\ revoke THEN Rs ELSE <<>>
  <1>1. DeployMultisigPlan(safe, grant, revoke) = ((C \o G) \o R) \o Finish
    BY DEF DeployMultisigPlan, GrantsFor, RevokesFor
  <1>2. C \in Seq(PermittedSteps) /\ NothingRevoked(C)
    <2>1. CASE threshold[safe] = 0
      <3>1. Other("create", safe) \in PermittedSteps
        BY <2>1, OtherAllowed, Parties
      <3>2. /\ <<Other("create", safe)>> \in Seq(PermittedSteps)
            /\ NothingRevoked(<<Other("create", safe)>>)
        BY <3>1, OtherAlone, Parties
      <3> QED
        BY <2>1, <3>2
    <2>2. CASE threshold[safe] # 0
      BY <2>2, EmptyPlan
    <2> QED
      BY <2>1, <2>2
  <1>3. /\ Gs \in Seq(PermittedSteps) /\ Len(Gs) = 6 /\ NothingRevoked(Gs)
        /\ \A i \in 1..6 : Grants(Gs[i], MultisigSlots[i][1], MultisigSlots[i][2])
    BY MultisigSlotsAre, GrantEach
  <1>4. /\ Rs \in Seq(PermittedSteps) /\ Len(Rs) = 6 /\ OnlyDeployerLoses(Rs)
        /\ \A i \in 1..6 : Rs[i].on = MultisigSlots[i][1] /\ Rs[i].role = MultisigSlots[i][2]
    <2> DEFINE q == MultisigSlots
    <2>1. q \in Seq(Slot) /\ Len(q) = 6 /\ NoParty \in Safe \cup {NoParty}
      BY MultisigSlotsAre
    <2> HIDE DEF q
    <2>2. /\ RevokesFor(q, NoParty) \in Seq(PermittedSteps)
          /\ Len(RevokesFor(q, NoParty)) = Len(q) /\ OnlyDeployerLoses(RevokesFor(q, NoParty))
           /\ \A i \in 1..Len(q) : /\ RevokesFor(q, NoParty)[i].on = q[i][1]
                                 /\ RevokesFor(q, NoParty)[i].role = q[i][2]
      BY <2>1, RevokeEach
    <2> QED
      BY <2>1, <2>2 DEF q
  <1> HIDE DEF C, Gs, Rs
  <1>5. G \in Seq(PermittedSteps) /\ NothingRevoked(G)
    BY <1>3, EmptyPlan
  <1>6. C \o G \in Seq(PermittedSteps) /\ NothingRevoked(C \o G)
    BY <1>2, <1>5, InARow, NothingRevokedInARow
  <1>7. ASSUME grant /\ revoke
        PROVE  (C \o G) \o R \in Seq(PermittedSteps) /\ Ordered((C \o G) \o R)
    <2>1. G = Gs /\ R = Rs
      BY <1>7
    <2>2. ASSUME NEW i \in 1..6
          PROVE  \E j \in 1..Len(C \o Gs) : Grants((C \o Gs)[j], Rs[i].on, Rs[i].role)
      <3>1. Gs \in Seq(PermittedSteps) /\ C \in Seq(PermittedSteps) /\ i \in 1..Len(Gs)
        BY <1>2, <1>3
      <3>2. Grants(Gs[i], Rs[i].on, Rs[i].role)
        BY <1>3, <1>4
      <3> QED
        BY <3>1, <3>2, GrantedBySecond
    <2>3. Ordered(C \o Gs)
      BY <1>6, <2>1, NothingRevokedIsOrdered
    <2>4. Ordered((C \o Gs) \o Rs)
      <3> DEFINE p == C \o Gs
      <3>1. p \in Seq(PermittedSteps)
        BY <1>6, <2>1
      <3>2. \A i \in 1..Len(Rs) : RevokesVital(Rs[i]) =>
              \/ GrantedBefore(Rs, i)
              \/ \E j \in 1..Len(p) : Grants(p[j], Rs[i].on, Rs[i].role)
        BY <1>4, <2>2
      <3>3. Ordered(p)
        BY <2>3
      <3> HIDE DEF p
      <3>4. Ordered(p \o Rs)
        BY <1>4, <3>1, <3>2, <3>3, OrderedInARow
      <3> QED
        BY <3>4 DEF p
    <2>5. (C \o Gs) \o Rs \in Seq(PermittedSteps)
      BY <1>4, <1>6, <2>1, InARow
    <2> QED
      BY <2>1, <2>4, <2>5
  <1>8. ASSUME ~(grant /\ revoke)
        PROVE  (C \o G) \o R \in Seq(PermittedSteps) /\ Ordered((C \o G) \o R)
    <2>1. R = <<>>
      BY <1>8
    <2> HIDE DEF G, R
    <2>2. (C \o G) \o R \in Seq(PermittedSteps) /\ NothingRevoked((C \o G) \o R)
      BY <1>6, <2>1, EmptyPlan, InARow, NothingRevokedInARow
    <2> QED
      BY <2>2, NothingRevokedIsOrdered
  <1> HIDE DEF G, R
  <1>9. (C \o G) \o R \in Seq(PermittedSteps) /\ Ordered((C \o G) \o R)
    BY <1>7, <1>8
  <1> QED
    BY <1>1, <1>9, FinishPlan

LEMMA RevokeDeployerIsCareful ==
    ASSUME NEW safe \in Safe PROVE Plan(RevokeDeployerPlan(safe))
  <1> DEFINE q == Only(AllSlots, HeldBy(Deployer) \cap HeldBy(safe))
  <1>1. q \in Seq(Slot)
    BY SlotsOnly
  <1> HIDE DEF q
  <1> DEFINE p == RevokesFor(q, safe)
  <1>2. p \in Seq(PermittedSteps) /\ HeirsNamed(p)
    BY <1>1, RevokeEach
  <1>3. RevokeDeployerPlan(safe) = p \o Finish
    BY DEF RevokeDeployerPlan, RevokesFor, q
  <1> HIDE DEF p
  <1> QED
    BY <1>2, <1>3, FinishPlan

LEMMA MigrateFullIsCareful ==
    ASSUME file.safe \in Safe, network = "testnet" PROVE Plan(MigrateFullPlan(file.safe))
  <1> DEFINE safe == file.safe
             gs == Only(AllSlots, HeldBy(Deployer) \ HeldBy(safe))
             rs == RevokeOrder(HeldBy(Deployer))
             os == Only(SubSeq(OwnableOrder, 1, 4), {o \in Ownable : owner[o] = Deployer})
             G == GrantsFor(gs, safe)
             R == RevokesFor(rs, safe)
             O == Conveyances(os \o <<"root">>, safe)
  <1>1. MigrateFullPlan(safe) = ((G \o R) \o O) \o Finish
    BY DEF MigrateFullPlan, GrantsFor, RevokesFor, Conveyances
  <1>2. G \in Seq(PermittedSteps) /\ HeirsNamed(G)
    <2>1. gs \in Seq(Slot)
      BY SlotsOnly
    <2> HIDE DEF gs
    <2>2. G \in Seq(PermittedSteps) /\ NothingRevoked(G)
      BY <2>1, GrantEach
    <2> QED
      BY <2>2, NothingRevokedHasHeirs
  <1>3. R \in Seq(PermittedSteps) /\ HeirsNamed(R)
    <2>1. rs \in Seq(Slot)
      BY SlotsOnly, InARow DEF RevokeOrder
    <2> HIDE DEF rs
    <2> QED
      BY <2>1, RevokeEach
  <1>4. O \in Seq(PermittedSteps) /\ HeirsNamed(O)
    <2>1. os \in Seq(Ownable)
      <3>1. OwnableOrder \in Seq(Ownable) /\ Len(OwnableOrder) = 6
        BY Tables DEF OwnableOrder
      <3>2. SubSeq(OwnableOrder, 1, 4) \in Seq(Ownable)
        <4> DEFINE oo == OwnableOrder
        <4>1. oo \in Seq(Ownable) /\ Len(oo) = 6
          BY <3>1
        <4> HIDE DEF oo
        <4>2. ASSUME NEW i \in 1..4 PROVE oo[i] \in Ownable
          <5>1. i \in 1..Len(oo)
            BY <4>1
          <5> QED
            BY <4>1, <5>1, ElementOfSeq
        <4>3. SubSeq(oo, 1, 4) \in Seq(Ownable)
          <5>1. 1 \in Int /\ 4 \in Int
            OBVIOUS
          <5> QED
            BY Zenon, <4>2, <5>1, SubSeqProperties
        <4> QED
          BY <4>3 DEF oo
      <3> DEFINE f == SubSeq(OwnableOrder, 1, 4)
                 S == {o \in Ownable : owner[o] = Deployer}
      <3>3. f \in Seq(Ownable)
        BY <3>2
      <3> HIDE DEF f
      <3>4. Only(f, S) \in Seq(Ownable \cap S)
        BY <3>3, OnlyKeeps
      <3>5. Only(f, S) \in Seq(Ownable)
        BY <3>4
      <3> QED
        BY <3>5 DEF f
    <2> HIDE DEF os
    <2>2. <<"root">> \in Seq(Ownable)
      BY Tables
    <2>3. os \o <<"root">> \in Seq(Ownable)
      BY <2>1, <2>2, InARow
    <2> DEFINE oq == os \o <<"root">>
    <2>4. oq \in Seq(Ownable)
      BY <2>3
    <2> HIDE DEF oq
    <2>5. Conveyances(oq, file.safe) \in Seq(PermittedSteps)
          /\ NothingRevoked(Conveyances(oq, file.safe))
      BY <2>4, ConveyEach
    <2> QED
      BY <2>5, NothingRevokedHasHeirs DEF oq
  <1> HIDE DEF G, R, O
  <1>5. (G \o R) \o O \in Seq(PermittedSteps)
    BY <1>2, <1>3, <1>4, InARow
  <1>6. HeirsNamed(G \o R)
    BY <1>2, <1>3, HeirsInARow
  <1>7. G \o R \in Seq(PermittedSteps)
    BY <1>2, <1>3, InARow
  <1>8. HeirsNamed((G \o R) \o O)
    BY <1>4, <1>6, <1>7, HeirsInARow
  <1> QED
    BY <1>1, <1>5, <1>8, FinishPlan

LEMMA RevokeOracleIsCareful ==
    ASSUME NEW safe \in Safe PROVE Plan(RevokeOraclePlan(safe))
  <1> DEFINE st == Revoke("arcController", "ORACLE", safe, Deployer, NoParty)
             p == IF Held("arcController", "ORACLE", Deployer) THEN <<st>> ELSE <<>>
  <1>1. RevokeOraclePlan(safe) = p \o Finish
    BY DEF RevokeOraclePlan
  <1>2. st \in PermittedSteps
    BY RevokeAllowed, Tables, Parties
  <1>3. st.role = "ORACLE"
    BY DEF Revoke
  <1>4. ~RevokesVital(st)
    BY <1>3 DEF RevokesVital, Vital
  <1> HIDE DEF st
  <1>5. <<st>> \in Seq(PermittedSteps) /\ Len(<<st>>) = 1 /\ <<st>>[1] = st
    BY <1>2, Alone
  <1>6. HeirsNamed(<<st>>)
    BY <1>4, <1>5 DEF HeirsNamed
  <1>7. HeirsNamed(<<>>)
    BY EmptyPlan, NothingRevokedHasHeirs
  <1>8. p \in Seq(PermittedSteps) /\ HeirsNamed(p)
    BY <1>5, <1>6, <1>7, EmptyPlan
  <1> HIDE DEF p
  <1> QED
    BY <1>1, <1>8, FinishPlan

\* The role of upgrades, from the Safe to the timelock.
UpgraderGrants(safe)  == Each(SurfaceOrder, LAMBDA s : Grant(s, "UPGRADER", safe, Timelock))
UpgraderRevokes(safe) ==
    Each(SurfaceOrder, LAMBDA s : Revoke(s, "UPGRADER", safe, safe, Timelock))

LEMMA UpgradersChange ==
    ASSUME NEW safe \in Safe
    PROVE  /\ UpgraderGrants(safe) \in Seq(PermittedSteps) /\ HeirsNamed(UpgraderGrants(safe))
           /\ UpgraderRevokes(safe) \in Seq(PermittedSteps) /\ HeirsNamed(UpgraderRevokes(safe))
  <1> DEFINE G == [i \in 1..3 |-> Grant(SurfaceOrder[i], "UPGRADER", safe, Timelock)]
             R == [i \in 1..3 |-> Revoke(SurfaceOrder[i], "UPGRADER", safe, safe, Timelock)]
  <1>1. DOMAIN SurfaceOrder = 1..3
    BY DEF SurfaceOrder
  <1>2. UpgraderGrants(safe) = G /\ UpgraderRevokes(safe) = R
    BY <1>1 DEF UpgraderGrants, UpgraderRevokes, Each
  <1>3. ASSUME NEW i \in 1..3 PROVE SurfaceOrder[i] \in Surface
    BY <1>1 DEF Surface
  <1>4. "UPGRADER" \in Role /\ safe \in Party /\ Timelock \in Party
    BY Tables, Parties
  <1>5. ASSUME NEW i \in 1..3
        PROVE  Grant(SurfaceOrder[i], "UPGRADER", safe, Timelock) \in PermittedSteps
    BY <1>3, <1>4, GrantAllowed
  <1>6. ASSUME NEW i \in 1..3
        PROVE  Revoke(SurfaceOrder[i], "UPGRADER", safe, safe, Timelock) \in PermittedSteps
    BY <1>3, <1>4, RevokeAllowed
  <1>7. G \in [1..3 -> PermittedSteps] /\ R \in [1..3 -> PermittedSteps]
    BY <1>5, <1>6
  <1>8. ASSUME NEW i \in 1..3
        PROVE  G[i].do # "revoke" /\ R[i].heir = Timelock /\ R[i].who = safe
    BY DEF Grant, Revoke
  <1> HIDE DEF G, R
  <1>9. G \in Seq(PermittedSteps) /\ Len(G) = 3
    BY <1>7, IsSequence
  <1>10. R \in Seq(PermittedSteps) /\ Len(R) = 3
    BY <1>7, IsSequence
  <1>11. HeirsNamed(G)
    BY <1>8, <1>9, NothingRevokedHasHeirs DEF NothingRevoked
  <1>12. HeirsNamed(R)
    BY <1>8, <1>10, Parties DEF HeirsNamed
  <1> QED
    BY <1>2, <1>9, <1>10, <1>11, <1>12

LEMMA DeployTimelockIsCareful ==
    ASSUME NEW safe \in Safe, NEW migrate \in BOOLEAN, network = "testnet"
    PROVE  Plan(DeployTimelockPlan(safe, migrate))
  <1> DEFINE T == <<Other("timelock", Timelock)>>
             G == UpgraderGrants(safe)
             R == UpgraderRevokes(safe)
             M == IF migrate THEN (G \o R) \o Finish ELSE <<>>
  <1>1. DeployTimelockPlan(safe, migrate) = T \o M
    BY DEF DeployTimelockPlan, UpgraderGrants, UpgraderRevokes
  <1>2. T \in Seq(PermittedSteps) /\ HeirsNamed(T)
    <2>1. Other("timelock", Timelock) \in PermittedSteps
      BY OtherAllowed, Parties
    <2> QED
      BY <2>1, OtherAlone, Parties, NothingRevokedHasHeirs
  <1>3. G \o R \in Seq(PermittedSteps) /\ HeirsNamed(G \o R)
    <2>1. /\ G \in Seq(PermittedSteps) /\ HeirsNamed(G)
          /\ R \in Seq(PermittedSteps) /\ HeirsNamed(R)
      BY UpgradersChange
    <2> HIDE DEF G, R
    <2> QED
      BY <2>1, InARow, HeirsInARow
  <1> HIDE DEF T, G, R
  <1>4. (G \o R) \o Finish \in Seq(PermittedSteps) /\ HeirsNamed((G \o R) \o Finish)
    <2> DEFINE p == G \o R
    <2>1. p \in Seq(PermittedSteps) /\ HeirsNamed(p)
      BY <1>3
    <2> HIDE DEF p
    <2>2. HeirsNamed(Finish)
      BY FinishRevokesNothing, NothingRevokedHasHeirs
    <2>3. p \o Finish \in Seq(PermittedSteps)
      BY <2>1, FinishAllowed, InARow
    <2>4. HeirsNamed(p \o Finish)
      BY <2>1, <2>2, FinishAllowed, HeirsInARow
    <2> QED
      BY <2>3, <2>4 DEF p
  <1>5. M \in Seq(PermittedSteps) /\ HeirsNamed(M)
    BY <1>4, EmptyPlan, NothingRevokedHasHeirs
  <1> HIDE DEF M
  <1>6. T \o M \in Seq(PermittedSteps)
    BY <1>2, <1>5, InARow
  <1>7. HeirsNamed(T \o M)
    BY <1>2, <1>5, HeirsInARow
  <1> QED
    BY <1>1, <1>6, <1>7 DEF Plan, Careful

LEMMA TwoSteps ==
    ASSUME NEW what \in {"deploy", "pause"}, NEW then \in {"timelock", "unpause"},
           NEW a \in Party, NEW b \in Party,
           then = "timelock" => (network = "mainnet" => threshold[file.safe] = 2)
    PROVE  /\ Plan(<<Other(what, a), Other(then, b)>>)
           /\ Plan(<<Other(then, b)>>)
  <1> DEFINE s == Other(what, a)
             t == Other(then, b)
  <1>1. s \in PermittedSteps
    BY OtherAllowed
  <1>2. t \in PermittedSteps
    BY OtherAllowed
  <1>3. s.do # "revoke" /\ t.do # "revoke"
    BY DEF Other
  <1> HIDE DEF s, t
  <1> DEFINE p == <<s, t>>
             q == <<t>>
  <1>4. p \in Seq(PermittedSteps) /\ q \in Seq(PermittedSteps)
    BY <1>1, <1>2
  <1>5. NothingRevoked(p) /\ NothingRevoked(q)
    BY <1>3 DEF NothingRevoked
  <1> HIDE DEF p, q
  <1>6. Plan(p) /\ Plan(q)
    BY <1>4, <1>5, NothingRevokedHasHeirs DEF Plan, Careful
  <1> QED
    BY <1>6 DEF p, q, s, t

LEMMA MainnetTimelockIsCareful ==
    ASSUME threshold[file.safe] = 2 PROVE Plan(MainnetTimelockPlan)
  BY TwoSteps, Parties DEF MainnetTimelockPlan

LEMMA SafeTestIsCareful == ASSUME NEW safe \in Safe PROVE Plan(SafeTestPlan(safe))
  <1> DEFINE p == IF halted THEN <<>> ELSE <<Other("pause", safe)>>
             q == <<Other("unpause", safe)>>
  <1>1. SafeTestPlan(safe) = p \o q
    BY DEF SafeTestPlan
  <1>2. p \in Seq(PermittedSteps) /\ NothingRevoked(p)
    <2>1. Other("pause", safe) \in PermittedSteps
      BY OtherAllowed, Parties
    <2> QED
      BY <2>1, OtherAlone, EmptyPlan, Parties
  <1>3. q \in Seq(PermittedSteps) /\ NothingRevoked(q)
    <2>1. Other("unpause", safe) \in PermittedSteps
      BY OtherAllowed, Parties
    <2> QED
      BY <2>1, OtherAlone, Parties
  <1> HIDE DEF p, q
  <1>4. p \o q \in Seq(PermittedSteps) /\ NothingRevoked(p \o q)
    BY <1>2, <1>3, InARow, NothingRevokedInARow
  <1> QED
    BY <1>1, <1>4, NothingRevokedHasHeirs DEF Plan, Careful

------------------------------------------------------------------------------
(* handoff-admin.js.                                                         *)

Given(s, q, to) == Each(q, LAMBDA r : Grant(s, r, Deployer, to))
Taken(s, q)     == Each(q, LAMBDA r : Revoke(s, r, Deployer, Deployer, NoParty))

LEMMA GivenAndTaken ==
    ASSUME NEW s \in Surface, NEW q \in Seq(Role), NEW to \in Safe
    PROVE  /\ Given(s, q, to) \in Seq(PermittedSteps) /\ Len(Given(s, q, to)) = Len(q)
           /\ NothingRevoked(Given(s, q, to))
           /\ \A i \in 1..Len(q) : Grants(Given(s, q, to)[i], s, q[i])
           /\ Taken(s, q) \in Seq(PermittedSteps) /\ Len(Taken(s, q)) = Len(q)
           /\ OnlyDeployerLoses(Taken(s, q))
           /\ \A i \in 1..Len(q) : Taken(s, q)[i].on = s /\ Taken(s, q)[i].role = q[i]
  <1> DEFINE G == [i \in 1..Len(q) |-> Grant(s, q[i], Deployer, to)]
             R == [i \in 1..Len(q) |-> Revoke(s, q[i], Deployer, Deployer, NoParty)]
  <1>1. DOMAIN q = 1..Len(q) /\ Len(q) \in Nat
    OBVIOUS
  <1>2. Given(s, q, to) = G /\ Taken(s, q) = R
    BY <1>1 DEF Given, Taken, Each
  <1>3. ASSUME NEW i \in 1..Len(q) PROVE q[i] \in Role
    OBVIOUS
  <1>4. ASSUME NEW i \in 1..Len(q) PROVE Grant(s, q[i], Deployer, to) \in PermittedSteps
    BY <1>3, GrantAllowed, Parties
  <1>5. ASSUME NEW i \in 1..Len(q)
        PROVE  Revoke(s, q[i], Deployer, Deployer, NoParty) \in PermittedSteps
    BY <1>3, RevokeAllowed, Parties
  <1>6. G \in [1..Len(q) -> PermittedSteps] /\ R \in [1..Len(q) -> PermittedSteps]
    BY <1>4, <1>5
  <1>7. ASSUME NEW i \in 1..Len(q)
        PROVE  /\ Grants(G[i], s, q[i]) /\ G[i].do # "revoke"
               /\ R[i].who = Deployer /\ R[i].on = s /\ R[i].role = q[i]
    BY DEF Grant, Revoke, Grants
  <1> HIDE DEF G, R
  <1>8. G \in Seq(PermittedSteps) /\ Len(G) = Len(q)
    BY <1>1, <1>6, IsSequence
  <1>9. R \in Seq(PermittedSteps) /\ Len(R) = Len(q)
    BY <1>1, <1>6, IsSequence
  <1>10. NothingRevoked(G) /\ OnlyDeployerLoses(R)
    BY <1>7, <1>8, <1>9 DEF NothingRevoked, OnlyDeployerLoses
  <1> QED
    BY <1>2, <1>7, <1>8, <1>9, <1>10

LEMMA OnlyMisses ==
    ASSUME NEW X, NEW q \in Seq(X), NEW S, NEW k \in 1..Len(q), q[k] \in S
    PROVE  \E j \in 1..Len(Only(q, S)) : Only(q, S)[j] = q[k]
  <1>1. AllKept(q, S, Only(q, S))
    BY OnlyKeeps
  <1> QED
    BY <1>1 DEF AllKept

LEMMA HandoffOfIsCareful ==
    ASSUME NEW s \in Surface, NEW safe \in Safe
    PROVE  HandoffOf(s, safe) \in Seq(PermittedSteps) /\ Ordered(HandoffOf(s, safe))
  <1> DEFINE first  == <<"DEFAULT_ADMIN", "ADMIN", "PAUSER", "ORACLE">>
             last   == <<"ADMIN", "PAUSER", "ORACLE", "UPGRADER", "DEFAULT_ADMIN">>
             toSafe == Only(first, RolesOf(s))
             away   == Only(last, RolesOf(s))
             U == <<Grant(s, "UPGRADER", Deployer, Timelock)>>
             G == Given(s, toSafe, safe)
             R == Taken(s, away)
  <1>1. HandoffOf(s, safe) = (G \o U) \o R
    BY DEF HandoffOf, Given, Taken
  <1>2. first \in Seq(Role) /\ last \in Seq(Role)
    BY Tables
  <1>3. /\ 1 \in 1..Len(first) /\ first[1] = "DEFAULT_ADMIN"
        /\ 2 \in 1..Len(first) /\ first[2] = "ADMIN"
        /\ 3 \in 1..Len(first) /\ first[3] = "PAUSER"
    OBVIOUS
  <1> HIDE DEF first, last
  <1>4. toSafe \in Seq(Role) /\ away \in Seq(Role)
    <2>1. toSafe \in Seq(Role \cap RolesOf(s)) /\ away \in Seq(Role \cap RolesOf(s))
      BY <1>2, OnlyKeeps
    <2> QED
      BY <2>1
  <1>5. \A k \in 1..Len(first) : first[k] \in RolesOf(s) =>
           \E j \in 1..Len(toSafe) : toSafe[j] = first[k]
    BY <1>2, OnlyMisses
  <1>6. ASSUME NEW r \in {"DEFAULT_ADMIN", "ADMIN", "PAUSER"}, r \in RolesOf(s)
        PROVE  \E j \in 1..Len(toSafe) : toSafe[j] = r
    <2>1. CASE r = "DEFAULT_ADMIN"
      BY <1>3, <1>5, <1>6, <2>1
    <2>2. CASE r = "ADMIN"
      BY <1>3, <1>5, <1>6, <2>2
    <2>3. CASE r = "PAUSER"
      BY <1>3, <1>5, <1>6, <2>3
    <2> QED
      BY <2>1, <2>2, <2>3
  <1> HIDE DEF toSafe, away
  <1>7. /\ G \in Seq(PermittedSteps) /\ Len(G) = Len(toSafe) /\ NothingRevoked(G)
        /\ \A i \in 1..Len(toSafe) : Grants(G[i], s, toSafe[i])
    BY <1>4, GivenAndTaken
  <1>8. /\ R \in Seq(PermittedSteps) /\ OnlyDeployerLoses(R)
        /\ \A i \in 1..Len(R) : R[i].on = s
    BY <1>4, GivenAndTaken
  <1>9. U \in Seq(PermittedSteps) /\ NothingRevoked(U) /\ Len(U) = 1
        /\ Grants(U[1], s, "UPGRADER")
    <2> DEFINE u == Grant(s, "UPGRADER", Deployer, Timelock)
    <2>1. u \in PermittedSteps
      BY GrantAllowed, Tables, Parties
    <2>2. u.do # "revoke" /\ Grants(u, s, "UPGRADER")
      BY DEF Grant, Grants
    <2> HIDE DEF u
    <2>3. <<u>> \in Seq(PermittedSteps) /\ Len(<<u>>) = 1 /\ <<u>>[1] = u
      BY <2>1, Alone
    <2>4. NothingRevoked(<<u>>)
      BY <2>2, <2>3 DEF NothingRevoked
    <2> QED
      BY <2>2, <2>3, <2>4 DEF u
  <1> HIDE DEF U, G, R
  <1> DEFINE p == G \o U
  <1>10. p \in Seq(PermittedSteps) /\ Ordered(p)
    <2>1. NothingRevoked(p) /\ p \in Seq(PermittedSteps)
      BY <1>7, <1>9, InARow, NothingRevokedInARow
    <2> QED
      BY <2>1, NothingRevokedIsOrdered
  <1>11. ASSUME NEW r \in {"DEFAULT_ADMIN", "ADMIN", "PAUSER", "UPGRADER"}, r \in RolesOf(s)
         PROVE  \E j \in 1..Len(p) : Grants(p[j], s, r)
    <2>1. CASE r = "UPGRADER"
      <3>1. 1 \in 1..Len(U) /\ Grants(U[1], s, r)
        BY <1>9, <2>1
      <3> QED
        BY <1>7, <1>9, <3>1, GrantedBySecond
    <2>2. CASE r \in {"DEFAULT_ADMIN", "ADMIN", "PAUSER"}
      <3>1. PICK j \in 1..Len(toSafe) : toSafe[j] = r
        BY <1>6, <1>11, <2>2
      <3>2. j \in 1..Len(G) /\ Grants(G[j], s, r)
        BY <1>7, <3>1
      <3>3. j \in 1..Len(p) /\ p[j] = G[j]
        BY <1>7, <1>9, <3>2, InARow
      <3> QED
        BY <3>2, <3>3
    <2> QED
      BY <2>1, <2>2
  <1> HIDE DEF p
  <1>12. ASSUME NEW i \in 1..Len(R), RevokesVital(R[i])
         PROVE  \E j \in 1..Len(p) : Grants(p[j], R[i].on, R[i].role)
    <2>1. R[i].on = s
      BY <1>8
    <2>2. R[i].role \in RolesOf(s) /\ R[i].role # "ORACLE"
      BY <1>12, <2>1 DEF RevokesVital, Vital
    <2>3. R[i].role \in {"DEFAULT_ADMIN", "ADMIN", "PAUSER", "UPGRADER"}
      BY <2>2, RolesAre, Tables
    <2> QED
      BY <1>11, <2>1, <2>2, <2>3
  <1>13. Ordered(p \o R)
    BY <1>8, <1>10, <1>12, OrderedInARow
  <1>14. p \o R \in Seq(PermittedSteps)
    BY <1>8, <1>10, InARow
  <1> QED
    BY <1>1, <1>13, <1>14 DEF p

LEMMA OrderedBoth ==
    ASSUME NEW X, NEW p \in Seq(X), NEW q \in Seq(X), Ordered(p), Ordered(q)
    PROVE  p \o q \in Seq(X) /\ Ordered(p \o q)
  <1>1. p \o q \in Seq(X)
    BY InARow
  <1>2. Ordered(p \o q)
    BY OrderedInARow DEF Ordered
  <1> QED
    BY <1>1, <1>2

LEMMA HandoffIsCareful ==
    ASSUME file.safe \in Safe, network = "mainnet" => file.timelock
    PROVE  Plan(HandoffPlan(file.safe))
  <1> DEFINE safe == file.safe
             A == HandoffOf("arcController", safe)
             B == HandoffOf("circleController", safe)
             C == HandoffOf("resolver", safe)
             O == Conveyances(OwnableOrder, safe)
  <1>1. HandoffPlan(safe) = ((A \o B) \o C) \o O
    BY DEF HandoffPlan, Conveyances
  <1>2. A \in Seq(PermittedSteps) /\ Ordered(A)
    BY HandoffOfIsCareful, Tables
  <1>3. B \in Seq(PermittedSteps) /\ Ordered(B)
    BY HandoffOfIsCareful, Tables
  <1>4. C \in Seq(PermittedSteps) /\ Ordered(C)
    BY HandoffOfIsCareful, Tables
  <1>5. O \in Seq(PermittedSteps) /\ Ordered(O)
    <2>1. OwnableOrder \in Seq(Ownable)
      BY Tables DEF OwnableOrder
    <2> QED
      BY <2>1, ConveyEach, NothingRevokedIsOrdered
  <1> HIDE DEF A, B, C, O
  <1>6. A \o B \in Seq(PermittedSteps) /\ Ordered(A \o B)
    BY <1>2, <1>3, OrderedBoth
  <1>7. (A \o B) \o C \in Seq(PermittedSteps) /\ Ordered((A \o B) \o C)
    BY <1>4, <1>6, OrderedBoth
  <1>8. ((A \o B) \o C) \o O \in Seq(PermittedSteps) /\ Ordered(((A \o B) \o C) \o O)
    BY <1>5, <1>7, OrderedBoth
  <1> QED
    BY <1>1, <1>8, OrderedIsCareful DEF Plan

------------------------------------------------------------------------------
(* What a step leaves of the plan.                                           *)

\* What of the state the steps that are still to come rely on.
Steady ==
    /\ network' = network /\ file'.safe = file.safe
    /\ file.timelock => file'.timelock
    /\ ~file.complete => ~file'.complete
    /\ network = "mainnet" => threshold' = threshold
OthersStay ==
    \A s \in Surface : \A r \in Role :
        (\E p \in holders[s][r] : p # Deployer) => (\E p \in holders'[s][r] : p # Deployer)

LEMMA StepsStay == ASSUME Steady, NEW st \in PermittedSteps PROVE st \in PermittedSteps'
  <1>1. st \in Steps /\ Permitted(st)
    BY DEF PermittedSteps
  <1>2. Permitted(st)'
    BY <1>1 DEF Permitted, Steady
  <1> QED
    BY <1>1, <1>2 DEF PermittedSteps, Steps

LEMMA SequencesStay ==
    ASSUME Steady, NEW q \in Seq(PermittedSteps) PROVE q \in Seq(PermittedSteps')
  <1> DEFINE P == PermittedSteps
             R == PermittedSteps'
  <1>1. P \subseteq R
    BY StepsStay
  <1>2. q \in Seq(P)
    OBVIOUS
  <1> HIDE DEF P, R
  <1>3. q \in Seq(R)
    BY <1>1, <1>2
  <1> QED
    BY <1>3 DEF R

LEMMA Vitals == ASSUME NEW st, RevokesVital(st) PROVE st.on \in Surface /\ st.role \in Role
  BY RolesAre DEF RevokesVital, Vital

LEMMA TailOf ==
    ASSUME NEW X, NEW q \in Seq(X), q # <<>>
    PROVE  /\ Tail(q) \in Seq(X) /\ Head(q) = q[1] /\ Head(q) \in X
           /\ Len(Tail(q)) = Len(q) - 1 /\ Len(q) \in Nat /\ Len(q) >= 1
           /\ \A i \in 1..Len(Tail(q)) : Tail(q)[i] = q[i + 1]
             <1>1. Head(q) \in X /\ Tail(q) \in Seq(X) /\ Len(Tail(q)) = Len(q) - 1
    BY HeadTailProperties
  <1>2. \A i \in 1..Len(Tail(q)) : Tail(q)[i] = q[i + 1]
    BY HeadTailProperties
  <1>3. Len(q) \in Nat /\ Len(q) >= 1
    OBVIOUS
  <1>4. Head(q) = q[1]
    OBVIOUS
  <1> QED
    BY <1>1, <1>2, <1>3, <1>4

LEMMA HeirsOfTail ==
    ASSUME NEW X, NEW q \in Seq(X), q # <<>>, HeirsNamed(q) PROVE HeirsNamed(Tail(q))
  <1>1. ASSUME NEW i \in 1..Len(Tail(q))
        PROVE  i + 1 \in 1..Len(q) /\ Tail(q)[i] = q[i + 1]
    BY TailOf
  <1> QED
    BY <1>1 DEF HeirsNamed

LEMMA PrecededTail ==
    ASSUME NEW X, NEW q \in Seq(X), q # <<>>, Preceded(q), OthersStay,
           Head(q).do = "grant" =>
              \E p \in holders'[Head(q).on][Head(q).role] : p # Deployer
    PROVE  Preceded(Tail(q))'
  <1> DEFINE t == Tail(q)
  <1>1. /\ Head(q) = q[1] /\ Len(t) = Len(q) - 1 /\ Len(q) \in Nat
        /\ \A i \in 1..Len(t) : t[i] = q[i + 1]
    BY TailOf
  <1>2. ASSUME NEW i \in 1..Len(t)
        PROVE  i + 1 \in 1..Len(q) /\ t[i] = q[i + 1]
    BY <1>1
  <1> HIDE DEF t
  <1>3. OnlyDeployerLoses(t)
    BY <1>2 DEF Preceded, OnlyDeployerLoses
  <1>4. ASSUME NEW i \in 1..Len(t), RevokesVital(t[i])
        PROVE  \/ \E p \in holders'[t[i].on][t[i].role] : p # Deployer
               \/ \E j \in 1..(i - 1) : Grants(t[j], t[i].on, t[i].role)
    <2> DEFINE s == t[i].on
               r == t[i].role
    <2>1. s \in Surface /\ r \in Role
      BY <1>4, Vitals
    <2>2. OthersHold(s, r) \/ \E j \in 1..((i + 1) - 1) : Grants(q[j], s, r)
      BY <1>2, <1>4 DEF Preceded, GrantedBefore
    <2>3. CASE OthersHold(s, r)
      BY <2>1, <2>3 DEF OthersHold, OthersStay
    <2>4. CASE \E j \in 1..((i + 1) - 1) : Grants(q[j], s, r)
      <3>1. PICK j \in 1..i : Grants(q[j], s, r)
        BY <2>4
      <3>2. CASE j = 1
        BY <1>1, <3>1, <3>2 DEF Grants
      <3>3. CASE j # 1
        <4>1. j - 1 \in 1..(i - 1) /\ j - 1 \in 1..Len(t) /\ (j - 1) + 1 = j
          BY <1>1, <3>3
        <4>2. t[j - 1] = q[j]
          BY <1>1, <4>1
        <4> QED
          BY <3>1, <4>1, <4>2
      <3> QED
        BY <3>2, <3>3
    <2> QED
      BY <2>2, <2>3, <2>4
  <1>5. OnlyDeployerLoses(t)'
    BY <1>3 DEF OnlyDeployerLoses
  <1>6. ASSUME NEW i \in 1..Len(t), RevokesVital(t[i])
        PROVE OthersHold(t[i].on, t[i].role)' \/ GrantedBefore(t, i)
    BY <1>4, <1>6 DEF OthersHold, GrantedBefore
  <1>7. Preceded(t)'
    BY <1>5, <1>6 DEF Preceded, RevokesVital, GrantedBefore, Grants, Vital, RolesOf
  <1> QED
    BY <1>7 DEF t

LEMMA HeirsStay == ASSUME NEW q, HeirsNamed(q) PROVE HeirsNamed(q)'
  BY DEF HeirsNamed, RevokesVital, Vital, RolesOf

\* The plan of the next state is what is left of this one's, or nothing.
Goes ==
    \/ run' = NoRun
    \/ /\ run'.todo = Tail(run.todo)
       /\ run'.script = run.script /\ run'.safe = run.safe

LEMMA AdvanceGoes ==
    ASSUME AdminShape, run.todo \in Seq(PermittedSteps), ~Idle, Advance
    PROVE  /\ Goes
           /\ run' = [script |-> run'.script, safe |-> run'.safe, todo |-> run'.todo,
                      deferred |-> run'.deferred]
           /\ run'.deferred \subseteq Slot
  <1>1. CASE Len(run.todo) = 1
    BY <1>1 DEF Advance, Abort, Goes, NoRun
  <1>2. CASE Len(run.todo) # 1
    <2> DEFINE a == run.script
               b == run.safe
               c == run.todo
               d == run.deferred
    <2>1. run = [script |-> a, safe |-> b, todo |-> c, deferred |-> d]
      BY DEF AdminShape
    <2>2. run' = [run EXCEPT !.todo = Tail(@)]
      BY <1>2 DEF Advance
    <2>3. d \subseteq Slot
      BY DEF AdminShape
    <2> HIDE DEF a, b, c, d
    <2>4. run' = [script |-> a, safe |-> b, todo |-> Tail(c), deferred |-> d]
      BY <2>1, <2>2
    <2> QED
      BY <2>1, <2>3, <2>4 DEF Goes
  <1> QED
    BY <1>1, <1>2

LEMMA NothingToDo ==
    ASSUME run'.todo = <<>>
    PROVE  run'.todo \in Seq(PermittedSteps') /\ Careful(run.todo)' /\ RunIsForSafe'
  <1>1. run'.todo \in Seq(PermittedSteps')
    OBVIOUS
  <1>2. HeirsNamed(run.todo)'
    BY DEF HeirsNamed
  <1>3. Careful(run.todo)'
    BY <1>2 DEF Careful
  <1>4. RunIsForSafe'
    BY DEF RunIsForSafe, Idle
  <1> QED
    BY <1>1, <1>3, <1>4

LEMMA PlanKeeps ==
    ASSUME AdminInv, ~Idle, Goes, Steady, OthersStay,
           threshold'[run.safe] > 0,
           run.script = "migrateFullOwnership" => threshold'[run.safe] >= 2,
           Step.do = "grant" =>
              run' = NoRun \/ \E p \in holders'[Step.on][Step.role] : p # Deployer
    PROVE  run'.todo \in Seq(PermittedSteps') /\ Careful(run.todo)' /\ RunIsForSafe'
  <1>1. CASE run' = NoRun
    BY <1>1, NothingToDo DEF NoRun
  <1>2. CASE run' # NoRun
    <2>0. PICK q : q = run.todo
      OBVIOUS
    <2>1. q \in Seq(PermittedSteps) /\ q # <<>> /\ Careful(q)
      BY <2>0 DEF AdminInv, Idle
    <2>t. PICK t : t = Tail(q)
      OBVIOUS
    <2>2. run'.todo = t /\ run'.script = run.script /\ run'.safe = run.safe
      BY <1>2, <2>0, <2>t DEF Goes
    <2>3. run'.todo \in Seq(PermittedSteps')
      BY <2>1, <2>2, <2>t, TailOf, SequencesStay
    <2>4. Careful(t)'
      <3>1. CASE HeirsNamed(q)
        <4>1. HeirsNamed(t)
          BY <2>1, <2>t, <3>1, HeirsOfTail
        <4> QED
          BY <4>1, HeirsStay DEF Careful
      <3>2. CASE Preceded(q)
        <4>1. Head(q).do = "grant" =>
                 \E p \in holders'[Head(q).on][Head(q).role] : p # Deployer
          BY <1>2, <2>0 DEF Step
        <4>2. Preceded(t)'
          BY <2>1, <2>t, <3>2, <4>1, PrecededTail
        <4> QED
          BY <4>2 DEF Careful
      <3> QED
        BY <2>1, <3>1, <3>2 DEF Careful
    <2>5. Careful(run.todo)'
      BY <2>2, <2>4 DEF Careful, HeirsNamed, Preceded, OnlyDeployerLoses, RevokesVital,
                        Vital, RolesOf, OthersHold, GrantedBefore, Grants
    <2>6. RunIsForSafe'
      <3>1. /\ run.safe \in Safe
            /\ run.script = "deployMultisig" \/ run.safe = file.safe
            /\ run.script \in {"deployMultisig", "migrateFullOwnership"} => network = "testnet"
        BY DEF AdminInv, RunIsForSafe
      <3> QED
        BY <2>2, <3>1 DEF RunIsForSafe, Steady
    <2> QED
      BY <2>3, <2>5, <2>6
  <1> QED
    BY <1>1, <1>2

------------------------------------------------------------------------------
(* The steps.                                                                *)

Shape(r) == r = [script |-> r.script, safe |-> r.safe, todo |-> r.todo, deferred |-> r.deferred]
RunGoes == Goes /\ Shape(run') /\ run'.deferred \subseteq Slot

LEMMA Stops == ASSUME run' = NoRun PROVE RunGoes
  BY DEF NoRun, RunGoes, Goes, Shape

LEMMA Advances == ASSUME AdminInv, ~Idle, Advance PROVE RunGoes
  <1>1. AdminShape /\ run.todo \in Seq(PermittedSteps)
    BY DEF AdminInv
  <1> QED
    BY <1>1, AdvanceGoes DEF RunGoes, Shape

LEMMA TheStep ==
    ASSUME AdminInv, ~Idle
    PROVE  /\ Step \in Steps /\ Permitted(Step) /\ run.safe \in Safe
           /\ run.script = "deployMultisig" \/ run.safe = file.safe
           /\ run.script \in {"deployMultisig", "migrateFullOwnership"} => network = "testnet"
           /\ run.script = "migrateFullOwnership" => threshold[run.safe] >= 2
           /\ \/ threshold[run.safe] > 0
              \/ run.script = "deployMultisig" /\ Step.do = "create" /\ Step.who = run.safe
  <1>1. run.todo \in Seq(PermittedSteps) /\ run.todo # <<>> /\ RunIsForSafe
    BY DEF AdminInv, Idle
  <1>2. Step \in PermittedSteps
    BY <1>1, TailOf DEF Step
  <1> QED
    BY <1>1, <1>2 DEF PermittedSteps, RunIsForSafe

\* Steps that change nothing the invariant speaks of but the run.
LEMMA OnlyRunMoves ==
    ASSUME AdminInv, ~Idle, RunGoes, UNCHANGED <<network, holders, owner, threshold, file>>,
           Step.do # "create",
           Step.do = "grant" => run' = NoRun \/ OthersHold(Step.on, Step.role)
    PROVE  AdminInv'
  <1>1. Steady /\ OthersStay
    BY DEF Steady, OthersStay
  <1>2. threshold'[run.safe] > 0 /\ (run.script = "migrateFullOwnership" => threshold'[run.safe] >= 2)
    BY TheStep
  <1>3. run'.todo \in Seq(PermittedSteps') /\ Careful(run.todo)' /\ RunIsForSafe'
    BY <1>1, <1>2, PlanKeeps DEF RunGoes, OthersHold
  <1>4. AdminShape'
    BY DEF AdminInv, AdminShape, RunGoes, Shape
  <1>5. SafeExists' /\ SafeWasLookedAt'
    BY DEF AdminInv, SafeExists, SafeWasLookedAt
  <1>6. DeferredIsShared' /\ Governed'
    BY DEF AdminInv, DeferredIsShared, Governed, OthersHold
  <1>7. (file.complete => file.safe \in Safe)' /\ RecordIsHonest'
    BY DEF AdminInv, RecordIsHonest, Held, Admin
  <1> QED
    BY <1>3, <1>4, <1>5, <1>6, <1>7 DEF AdminInv

LEMMA DeployTimelockKeeps == ASSUME AdminInv, DeployTimelock PROVE AdminInv'
  <1>1. ~Idle /\ Step.do = "deploy"
    BY DEF DeployTimelock, Doing, Step
  <1>2. RunGoes
    BY <1>1, Advances DEF DeployTimelock
  <1> QED
    BY <1>1, <1>2, OnlyRunMoves DEF DeployTimelock, chain

LEMMA SetPausedKeeps == ASSUME AdminInv, SetPaused PROVE AdminInv'
  <1>1. ~Idle /\ Step.do \in {"pause", "unpause"}
    BY DEF SetPaused, Doing, Step
  <1>2. RunGoes
    BY <1>1, Advances, Stops DEF SetPaused, Abort
  <1> QED
    BY <1>1, <1>2, OnlyRunMoves DEF SetPaused

LEMMA CreateTimelockKeeps == ASSUME AdminInv, CreateTimelock PROVE AdminInv'
  <1>1. ~Idle /\ Step.do = "timelock"
    BY DEF CreateTimelock, Doing, Step
  <1>2. RunGoes /\ UNCHANGED <<network, holders, owner, threshold>>
    BY <1>1, Advances DEF CreateTimelock, chain
  <1>3. /\ file' = [file EXCEPT !.timelock = TRUE]
        /\ file = [safe |-> file.safe, timelock |-> file.timelock, moved |-> file.moved,
                   complete |-> file.complete, deferred |-> file.deferred]
    BY DEF CreateTimelock, AdminInv, AdminShape
  <1>4. /\ file'.safe = file.safe /\ file'.timelock = TRUE /\ file'.moved = file.moved
        /\ file'.complete = file.complete /\ file'.deferred = file.deferred
        /\ file' = [safe |-> file'.safe, timelock |-> file'.timelock, moved |-> file'.moved,
                    complete |-> file'.complete, deferred |-> file'.deferred]
    BY <1>3
  <1>5. Steady /\ OthersStay
    BY <1>2, <1>4 DEF Steady, OthersStay
  <1>6. threshold'[run.safe] > 0 /\ (run.script = "migrateFullOwnership" => threshold'[run.safe] >= 2)
    BY <1>1, <1>2, TheStep
  <1>7. run'.todo \in Seq(PermittedSteps') /\ Careful(run.todo)' /\ RunIsForSafe'
    BY <1>1, <1>2, <1>5, <1>6, PlanKeeps DEF RunGoes
  <1>8. AdminShape'
    BY <1>2, <1>4 DEF AdminInv, AdminShape, RunGoes, Shape
  <1>9. SafeExists' /\ SafeWasLookedAt'
    <2>1. network = "mainnet" => threshold[file.safe] = 2
      BY <1>1, TheStep DEF Permitted
    <2> QED
      BY <1>2, <1>4, <2>1 DEF AdminInv, SafeExists, SafeWasLookedAt
  <1>10. DeferredIsShared' /\ Governed'
    BY <1>2, <1>4 DEF AdminInv, DeferredIsShared, Governed, OthersHold
  <1>11. (file.complete => file.safe \in Safe)' /\ RecordIsHonest'
    BY <1>2, <1>4 DEF AdminInv, RecordIsHonest, Held, Admin
  <1> QED
    BY <1>7, <1>8, <1>9, <1>10, <1>11 DEF AdminInv

LEMMA CreateSafeKeeps == ASSUME AdminInv, CreateSafe PROVE AdminInv'
  <1>1. ~Idle /\ Step.do = "create"
    BY DEF CreateSafe, Doing, Step
  <1>2. RunGoes /\ UNCHANGED <<network, holders, owner, file>>
    BY <1>1, Advances DEF CreateSafe
  <1>3. PICK k \in 1..3 : threshold' = [threshold EXCEPT ![Step.who] = k]
    BY DEF CreateSafe
  <1>4. Step.who \in Safe /\ Step.who # file.safe /\ ~file.complete /\ network = "testnet"
    BY <1>1, TheStep DEF Permitted
  <1>5. threshold \in [Safe -> 0..3]
    BY DEF AdminInv, AdminShape
  <1>6. /\ threshold' \in [Safe -> 0..3]
        /\ \A n \in Safe : threshold'[n] = IF n = Step.who THEN k ELSE threshold[n]
    BY <1>3, <1>4, <1>5
  <1>7. Steady /\ OthersStay
    BY <1>2, <1>4 DEF Steady, OthersStay
  <1>8. threshold'[run.safe] > 0
    BY <1>3, <1>6, TheStep, <1>1
  <1>9. run.script = "migrateFullOwnership" => threshold'[run.safe] >= 2
    BY <1>1, <1>4, <1>6, TheStep
  <1>10. run'.todo \in Seq(PermittedSteps') /\ Careful(run.todo)' /\ RunIsForSafe'
    BY <1>1, <1>2, <1>7, <1>8, <1>9, PlanKeeps DEF RunGoes
  <1>11. AdminShape'
    BY <1>2, <1>6 DEF AdminInv, AdminShape, RunGoes, Shape
  <1>12. SafeExists' /\ SafeWasLookedAt'
    BY <1>2, <1>4, <1>6 DEF AdminInv, SafeExists, SafeWasLookedAt
  <1>13. DeferredIsShared' /\ Governed'
    BY <1>2 DEF AdminInv, DeferredIsShared, Governed, OthersHold
  <1>14. (file.complete => file.safe \in Safe)' /\ RecordIsHonest'
    BY <1>2, <1>4 DEF RecordIsHonest
  <1> QED
    BY <1>10, <1>11, <1>12, <1>13, <1>14 DEF AdminInv

LEMMA TransferOwnableKeeps == ASSUME AdminInv, TransferOwnable PROVE AdminInv'
  <1>1. ~Idle /\ Step.do = "transfer" /\ UNCHANGED <<network, holders, threshold, file>>
    BY DEF TransferOwnable, Doing, Step
  <1>2. RunGoes
    BY <1>1, Advances, Stops DEF TransferOwnable, Abort
  <1>3. CASE UNCHANGED owner
    BY <1>1, <1>2, <1>3, OnlyRunMoves
  <1>4. CASE owner' = [owner EXCEPT ![Step.on] = Step.who]
    <2>1. /\ Step.who = file.safe /\ Step.who \in Safe /\ Step.on \in Ownable
          /\ network = "mainnet" => file.timelock
      BY <1>1, TheStep DEF Permitted
    <2>2. file.safe \in Safe
      BY <2>1
    <2>3. /\ owner' \in [Ownable -> Party]
          /\ \A o \in Ownable : owner'[o] = owner[o] \/ owner'[o] = file.safe
      BY <1>4, <2>1, <2>2, Parties DEF AdminInv, AdminShape
    <2>4. Steady /\ OthersStay
      BY <1>1 DEF Steady, OthersStay
    <2>5. threshold'[run.safe] > 0 /\ (run.script = "migrateFullOwnership" => threshold'[run.safe] >= 2)
      BY <1>1, TheStep
    <2>6. run'.todo \in Seq(PermittedSteps') /\ Careful(run.todo)' /\ RunIsForSafe'
      BY <1>1, <1>2, <2>4, <2>5, PlanKeeps DEF RunGoes
    <2>7. AdminShape'
      BY <1>1, <1>2, <2>3 DEF AdminInv, AdminShape, RunGoes, Shape
    <2>8. SafeExists' /\ SafeWasLookedAt'
      BY <1>1, <2>1 DEF AdminInv, SafeExists, SafeWasLookedAt
    <2>9. DeferredIsShared' /\ Governed'
      BY <1>1 DEF AdminInv, DeferredIsShared, Governed, OthersHold
    <2>10. (file.complete => file.safe \in Safe)' /\ RecordIsHonest'
      BY <1>1, <2>3 DEF AdminInv, RecordIsHonest, Held, Admin
    <2> QED
      BY <2>6, <2>7, <2>8, <2>9, <2>10 DEF AdminInv
  <1> QED
    BY <1>3, <1>4 DEF TransferOwnable

LEMMA CrashKeeps == ASSUME AdminInv, Crash PROVE AdminInv'
  <1>1. ~Idle /\ run' = NoRun /\ UNCHANGED <<network, holders, owner, threshold, file>>
    BY DEF Crash, Abort, chain
  <1>2. Steady /\ OthersStay
    BY <1>1 DEF Steady, OthersStay
  <1>3. run'.todo \in Seq(PermittedSteps') /\ Careful(run.todo)' /\ RunIsForSafe'
    BY <1>1, NothingToDo DEF NoRun
  <1>4. AdminShape'
    BY <1>1, Stops DEF AdminInv, AdminShape, RunGoes, Shape
  <1>5. SafeExists' /\ SafeWasLookedAt'
    BY <1>1 DEF AdminInv, SafeExists, SafeWasLookedAt
  <1>6. DeferredIsShared' /\ Governed'
    BY <1>1 DEF AdminInv, DeferredIsShared, Governed, OthersHold
  <1>7. (file.complete => file.safe \in Safe)' /\ RecordIsHonest'
    BY <1>1 DEF AdminInv, RecordIsHonest, Held, Admin
  <1> QED
    BY <1>3, <1>4, <1>5, <1>6, <1>7 DEF AdminInv

------------------------------------------------------------------------------
(* Roles given and taken.                                                    *)

HeldNow(s, r, S) ==
    /\ holders' \in [Surface -> [Role -> SUBSET Party]]
    /\ holders'[s][r] = S
    /\ \A a \in Surface : \A b \in Role : a # s \/ b # r => holders'[a][b] = holders[a][b]

LEMMA HoldersChange ==
    ASSUME AdminShape, NEW s \in Surface, NEW r \in Role, NEW S, S \subseteq Party,
           holders' = [holders EXCEPT ![s][r] = S]
    PROVE  HeldNow(s, r, S)
  <1>1. holders \in [Surface -> [Role -> SUBSET Party]]
    BY DEF AdminShape
  <1>2. holders[s] \in [Role -> SUBSET Party]
    BY <1>1
  <1>3. holders' = [holders EXCEPT ![s] = [holders[s] EXCEPT ![r] = S]]
    BY <1>1
  <1>4. [holders[s] EXCEPT ![r] = S] \in [Role -> SUBSET Party]
    BY <1>2
  <1> QED
    BY <1>1, <1>2, <1>3, <1>4 DEF HeldNow

LEMMA GrantRoleKeeps == ASSUME AdminInv, GrantRole PROVE AdminInv'
  <1>1. ~Idle /\ Step.do = "grant" /\ UNCHANGED <<network, owner, threshold, file>>
    BY DEF GrantRole, Doing, Step
  <1>2. RunGoes
    BY <1>1, Advances, Stops DEF GrantRole, Abort
  <1>3. /\ Step.on \in Surface /\ Step.role \in Role
        /\ Step.who \in Safe \cup {Timelock} /\ Step.who # Deployer /\ Step.who \in Party
    BY <1>1, TheStep, Parties DEF Permitted
  <1>4. CASE UNCHANGED holders /\ (run' = NoRun \/ Held(Step.on, Step.role, Step.who))
    <2>1. run' = NoRun \/ OthersHold(Step.on, Step.role)
      BY <1>3, <1>4 DEF Held, OthersHold
    <2> QED
      BY <1>1, <1>2, <1>4, <2>1, OnlyRunMoves
  <1>5. CASE holders' = [holders EXCEPT ![Step.on][Step.role] = @ \cup {Step.who}]
    <2> DEFINE s == Step.on
               r == Step.role
               S == holders[s][r] \cup {Step.who}
    <2>1. holders' = [holders EXCEPT ![s][r] = S]
      <3>1. holders \in [Surface -> [Role -> SUBSET Party]]
        BY DEF AdminInv, AdminShape
      <3> QED
        BY <1>3, <1>5, <3>1
    <2>2. AdminShape /\ s \in Surface /\ r \in Role /\ S \subseteq Party
      BY <1>3 DEF AdminInv, AdminShape
    <2>3. /\ holders' \in [Surface -> [Role -> SUBSET Party]]
          /\ holders'[s][r] = S
          /\ \A a \in Surface : \A b \in Role :
                 a # s \/ b # r => holders'[a][b] = holders[a][b]
      <3> HIDE DEF s, r, S
      <3>1. HeldNow(s, r, S)
        BY <2>1, <2>2, HoldersChange
      <3> QED
        BY <3>1 DEF HeldNow
    <2>4. \A a \in Surface : \A b \in Role : holders[a][b] \subseteq holders'[a][b]
      BY <2>3
    <2>5. \A a \in Surface : \A b \in Role :
             /\ Deployer \in holders'[a][b] => Deployer \in holders[a][b]
      BY <1>3, <2>3
    <2>6. Steady /\ OthersStay
      BY <1>1, <2>4 DEF Steady, OthersStay
    <2>7. threshold'[run.safe] > 0 /\ (run.script = "migrateFullOwnership" => threshold'[run.safe] >= 2)
      BY <1>1, TheStep
    <2>8. \E p \in holders'[Step.on][Step.role] : p # Deployer
      BY <1>3, <2>3
    <2>9. run'.todo \in Seq(PermittedSteps') /\ Careful(run.todo)' /\ RunIsForSafe'
      BY <1>1, <1>2, <2>6, <2>7, <2>8, PlanKeeps DEF RunGoes
    <2>10. AdminShape'
      BY <1>1, <1>2, <2>3 DEF AdminInv, AdminShape, RunGoes, Shape
    <2>11. SafeExists' /\ SafeWasLookedAt'
      BY <1>1 DEF AdminInv, SafeExists, SafeWasLookedAt
    <2>12. \A a \in Surface : Vital(a) \subseteq Role /\ RolesOf(a) \subseteq Role
      BY RolesAre DEF Vital
    <2>13. DeferredIsShared'
      <3>1. ASSUME NEW a \in Surface, NEW b \in Vital(a), <<a, b>> \in file.deferred
            PROVE  OthersHold(a, b)'
        <4>1. OthersHold(a, b)
          BY <3>1 DEF AdminInv, DeferredIsShared
        <4> QED
          BY <2>4, <2>12, <4>1 DEF OthersHold
      <3> QED
        BY <1>1, <3>1 DEF DeferredIsShared, Vital, RolesOf
    <2>14. Governed'
      <3>1. ASSUME NEW a \in Surface, NEW b \in Vital(a) PROVE holders'[a][b] # {}
        <4>1. holders[a][b] # {}
          BY DEF AdminInv, Governed
        <4> QED
          BY <2>4, <2>12, <4>1
      <3> QED
        BY <3>1 DEF Governed, Vital, RolesOf
    <2>15. (file.complete => file.safe \in Safe)'
      BY <1>1 DEF AdminInv
    <2>16. RecordIsHonest'
      <3>1. ASSUME file.complete, NEW a \in Surface, NEW b \in RolesOf(a), Deployer \in holders'[a][b]
            PROVE  <<a, b>> \in file.deferred /\ file.safe \in holders'[a]["DEFAULT_ADMIN"]
        <4>1. Deployer \in holders[a][b]
          BY <2>5, <2>12, <3>1
        <4>2. <<a, b>> \in file.deferred /\ file.safe \in holders[a]["DEFAULT_ADMIN"]
          BY <3>1, <4>1 DEF AdminInv, RecordIsHonest, Held, Admin
        <4> QED
          BY <2>4, <4>2, Tables
      <3>2. /\ file.complete => threshold[file.safe] >= 2
            /\ file.complete => \A o \in Ownable \ (IF network = "testnet" THEN {"discountRegistry"} ELSE {}) :
                 owner[o] = file.safe
        BY DEF AdminInv, RecordIsHonest
      <3> QED
        BY <1>1, <3>1, <3>2 DEF RecordIsHonest, Held, Admin, RolesOf
    <2> QED
      BY <2>9, <2>10, <2>11, <2>13, <2>14, <2>15, <2>16 DEF AdminInv
  <1> QED
    BY <1>4, <1>5 DEF GrantRole, Abort

\* A role is taken from the deployer, or that of upgrades from a Safe, and somebody
\* but the deployer still has it.
LEMMA RoleIsTaken ==
    ASSUME AdminInv, NEW s \in Surface, NEW r \in Role, NEW from,
           from = Deployer \/ (from \in Safe /\ r = "UPGRADER"),
           r \in Vital(s) => \E p \in holders[s][r] : p \notin {from, Deployer},
           holders' = [holders EXCEPT ![s][r] = @ \ {from}],
           UNCHANGED <<network, owner, threshold, file>>
    PROVE  /\ holders' \in [Surface -> [Role -> SUBSET Party]]
           /\ OthersStay /\ SafeExists' /\ SafeWasLookedAt' /\ DeferredIsShared' /\ Governed'
           /\ (file.complete => file.safe \in Safe)' /\ RecordIsHonest'
  <1> DEFINE S == holders[s][r] \ {from}
  <1>1. AdminShape /\ holders \in [Surface -> [Role -> SUBSET Party]] /\ S \subseteq Party
    BY DEF AdminInv, AdminShape
  <1>2. holders' = [holders EXCEPT ![s][r] = S]
    BY <1>1
  <1>3. /\ holders' \in [Surface -> [Role -> SUBSET Party]]
        /\ holders'[s][r] = S
        /\ \A a \in Surface : \A b \in Role : a # s \/ b # r => holders'[a][b] = holders[a][b]
    <2> HIDE DEF S
    <2>1. HeldNow(s, r, S)
      BY <1>1, <1>2, HoldersChange
    <2> QED
      BY <2>1 DEF HeldNow
  <1>4. \A a \in Surface : Vital(a) \subseteq Role /\ RolesOf(a) \subseteq Role
    BY RolesAre DEF Vital
  <1>5. "UPGRADER" \in Vital(s)
    BY Tables DEF Vital, RolesOf
  <1>6. ASSUME NEW a \in Surface, NEW b \in Role, NEW p \in holders[a][b], p # Deployer
        PROVE  \E x \in holders'[a][b] : x # Deployer
    <2>1. CASE a # s \/ b # r
      BY <1>3, <1>6, <2>1
    <2>2. CASE a = s /\ b = r /\ p # from
      BY <1>3, <1>6, <2>2
    <2>3. CASE a = s /\ b = r /\ p = from
      <3>1. r \in Vital(s)
        BY <1>5, <1>6, <2>3
      <3> QED
        BY <1>3, <2>3, <3>1
    <2> QED
      BY <2>1, <2>2, <2>3
  <1>7. OthersStay
    BY <1>6 DEF OthersStay
  <1>8. \A a \in Surface : \A b \in Role : holders'[a][b] \subseteq holders[a][b]
    BY <1>3
  <1>9. DeferredIsShared'
    <2>1. ASSUME NEW a \in Surface, NEW b \in Vital(a), <<a, b>> \in file.deferred
          PROVE  OthersHold(a, b)'
      <3>1. OthersHold(a, b)
        BY <2>1 DEF AdminInv, DeferredIsShared
      <3> QED
        BY <1>4, <1>6, <3>1 DEF OthersHold
    <2> QED
      BY <2>1 DEF DeferredIsShared, Vital, RolesOf
  <1>10. Governed'
    <2>1. ASSUME NEW a \in Surface, NEW b \in Vital(a) PROVE holders'[a][b] # {}
      <3>1. holders[a][b] # {}
        BY DEF AdminInv, Governed
      <3> QED
        BY <1>3, <1>4, <3>1
    <2> QED
      BY <2>1 DEF Governed, Vital, RolesOf
  <1>11. RecordIsHonest'
    <2>1. ASSUME file.complete, NEW a \in Surface, NEW b \in RolesOf(a), Deployer \in holders'[a][b]
          PROVE  <<a, b>> \in file.deferred /\ file.safe \in holders'[a]["DEFAULT_ADMIN"]
      <3>1. Deployer \in holders[a][b]
        BY <1>4, <1>8, <2>1
      <3>2. <<a, b>> \in file.deferred /\ file.safe \in holders[a]["DEFAULT_ADMIN"]
        BY <2>1, <3>1 DEF AdminInv, RecordIsHonest, Held, Admin
      <3>3. file.safe \in Safe
        BY <2>1 DEF AdminInv
      <3>4. CASE a # s \/ "DEFAULT_ADMIN" # r
        BY <1>3, <3>2, <3>4, Tables
      <3>5. CASE a = s /\ "DEFAULT_ADMIN" = r
        <4>1. from = Deployer /\ file.safe # from
          BY <3>3, <3>5, Parties
        <4> QED
          BY <1>3, <3>2, <3>5, <4>1
      <3> QED
        BY <3>2, <3>4, <3>5
    <2>2. /\ file.complete => threshold[file.safe] >= 2
          /\ file.complete => \A o \in Ownable \ (IF network = "testnet" THEN {"discountRegistry"} ELSE {}) :
                 owner[o] = file.safe
      BY DEF AdminInv, RecordIsHonest
    <2> QED
      BY <2>1, <2>2 DEF RecordIsHonest, Held, Admin, RolesOf
  <1>12. SafeExists' /\ SafeWasLookedAt' /\ (file.complete => file.safe \in Safe)'
    BY DEF AdminInv, SafeExists, SafeWasLookedAt
  <1> QED
    BY <1>3, <1>7, <1>9, <1>10, <1>11, <1>12

LEMMA RevokeRoleKeeps == ASSUME AdminInv, RevokeRole PROVE AdminInv'
  <1>1. ~Idle /\ Step.do = "revoke" /\ UNCHANGED <<network, owner, threshold, file>>
    BY DEF RevokeRole, Doing, Step
  <1>2. /\ Step.on \in Surface /\ Step.role \in Role
        /\ Step.who = Deployer \/ (Step.who \in Safe /\ Step.role = "UPGRADER")
    BY <1>1, TheStep DEF Permitted
  <1>3. RunGoes
    <2>1. CASE Advance
      BY <1>1, <2>1, Advances
    <2>2. CASE Abort
      BY <2>2, Stops DEF Abort
    <2>3. CASE run' = [run EXCEPT !.todo = Tail(@), !.deferred = @ \cup {<<Step.on, Step.role>>}]
      <3> DEFINE a == run.script
                 b == run.safe
                 c == run.todo
                 d == run.deferred
                 e == <<Step.on, Step.role>>
      <3>1. run = [script |-> a, safe |-> b, todo |-> c, deferred |-> d] /\ d \subseteq Slot
        BY DEF AdminInv, AdminShape
      <3>2. e \in Slot
        BY <1>2 DEF Slot
      <3>3. run' = [run EXCEPT !.todo = Tail(@), !.deferred = @ \cup {e}]
        BY <2>3
      <3> HIDE DEF a, b, c, d, e
      <3>4. run' = [script |-> a, safe |-> b, todo |-> Tail(c), deferred |-> d \cup {e}]
        BY <3>1, <3>3
      <3> QED
        BY <3>1, <3>2, <3>4 DEF RunGoes, Goes, Shape
    <2> QED
      BY <2>1, <2>2, <2>3 DEF RevokeRole
  <1>4. CASE UNCHANGED holders
    BY <1>1, <1>3, <1>4, OnlyRunMoves
  <1>5. CASE /\ holders' = [holders EXCEPT ![Step.on][Step.role] = @ \ {Step.who}]
             /\ Step.heir # NoParty => Held(Step.on, Step.role, Step.heir)
    <2>0. PICK s, r, from : s = Step.on /\ r = Step.role /\ from = Step.who
      OBVIOUS
    <2>1. r \in Vital(s) => \E p \in holders[s][r] : p \notin {from, Deployer}
      <3>1. SUFFICES ASSUME r \in Vital(s)
                     PROVE  \E p \in holders[s][r] : p \notin {from, Deployer}
        OBVIOUS
      <3>2. RevokesVital(Step)
        BY <1>1, <1>2, <2>0, <3>1 DEF RevokesVital
      <3>3. PICK q : q = run.todo
        OBVIOUS
      <3>4. q \in Seq(PermittedSteps) /\ q # <<>> /\ Careful(q)
        BY <1>1, <3>3 DEF AdminInv, Idle
      <3>5. Step = q[1] /\ 1 \in 1..Len(q)
        BY <3>3, <3>4, TailOf DEF Step
      <3>6. CASE HeirsNamed(q)
        <4>1. Step.heir \notin {NoParty, Deployer, Step.who}
          BY <3>2, <3>5, <3>6 DEF HeirsNamed
        <4> QED
          BY <1>5, <2>0, <4>1 DEF Held
      <3>7. CASE Preceded(q)
        <4>1. Step.who = Deployer
          BY <1>1, <3>5, <3>7 DEF Preceded, OnlyDeployerLoses
        <4>2. OthersHold(Step.on, Step.role) \/ GrantedBefore(q, 1)
          BY <3>2, <3>5, <3>7 DEF Preceded
        <4>3. ~GrantedBefore(q, 1)
          BY DEF GrantedBefore
        <4> QED
          BY <2>0, <4>1, <4>2, <4>3 DEF OthersHold
      <3> QED
        BY <3>4, <3>6, <3>7 DEF Careful
    <2>2. /\ holders' \in [Surface -> [Role -> SUBSET Party]]
          /\ OthersStay /\ SafeExists' /\ SafeWasLookedAt' /\ DeferredIsShared' /\ Governed'
          /\ (file.complete => file.safe \in Safe)' /\ RecordIsHonest'
      BY <1>1, <1>2, <1>5, <2>0, <2>1, RoleIsTaken
    <2>3. Steady
      BY <1>1 DEF Steady
    <2>4. threshold'[run.safe] > 0 /\ (run.script = "migrateFullOwnership" => threshold'[run.safe] >= 2)
      BY <1>1, TheStep
    <2>5. run'.todo \in Seq(PermittedSteps') /\ Careful(run.todo)' /\ RunIsForSafe'
      BY <1>1, <1>3, <2>2, <2>3, <2>4, PlanKeeps DEF RunGoes
    <2>6. AdminShape'
      BY <1>1, <1>3, <2>2 DEF AdminInv, AdminShape, RunGoes, Shape
    <2> QED
      BY <2>2, <2>5, <2>6 DEF AdminInv
  <1> QED
    BY <1>4, <1>5 DEF RevokeRole

LEMMA SafeRevokesKeeps == ASSUME AdminInv, SafeRevokes PROVE AdminInv'
  <1>1. run.todo = <<>> /\ UNCHANGED <<network, owner, threshold, file, run>>
    BY DEF SafeRevokes, Idle
  <1>2. PICK slot \in file.deferred :
           holders' = [holders EXCEPT ![slot[1]][slot[2]] = @ \ {Deployer}]
    BY DEF SafeRevokes
  <1>3. slot \in Slot
    BY DEF AdminInv, AdminShape
  <1>4. PICK s \in Surface, r \in Role : slot = <<s, r>>
    BY <1>3 DEF Slot
  <1>5. r \in Vital(s) => \E p \in holders[s][r] : p \notin {Deployer, Deployer}
    BY <1>2, <1>4 DEF AdminInv, DeferredIsShared, OthersHold
  <1>6. holders' = [holders EXCEPT ![s][r] = @ \ {Deployer}]
    BY <1>2, <1>4
  <1>7. /\ holders' \in [Surface -> [Role -> SUBSET Party]]
        /\ OthersStay /\ SafeExists' /\ SafeWasLookedAt' /\ DeferredIsShared' /\ Governed'
        /\ (file.complete => file.safe \in Safe)' /\ RecordIsHonest'
    BY <1>1, <1>5, <1>6, RoleIsTaken
  <1>8. run'.todo \in Seq(PermittedSteps') /\ Careful(run.todo)' /\ RunIsForSafe'
    BY <1>1, NothingToDo
  <1>9. AdminShape'
    BY <1>1, <1>7 DEF AdminInv, AdminShape
  <1> QED
    BY <1>7, <1>8, <1>9 DEF AdminInv

FileShape(f) ==
    /\ f = [safe |-> f.safe, timelock |-> f.timelock, moved |-> f.moved,
            complete |-> f.complete, deferred |-> f.deferred]
    /\ f.safe \in Safe \cup {NoParty} /\ f.complete \in BOOLEAN /\ f.deferred \subseteq Slot

\* Without a plan, only the file and the roles matter.
LEMMA FileMoves ==
    ASSUME AdminInv, UNCHANGED <<network, holders, owner, threshold>>,
           run' = NoRun, FileShape(file'), SafeExists', SafeWasLookedAt',
           DeferredIsShared', (file.complete => file.safe \in Safe)', RecordIsHonest'
    PROVE  AdminInv'
  <1>1. run'.todo \in Seq(PermittedSteps') /\ Careful(run.todo)' /\ RunIsForSafe'
    BY NothingToDo DEF NoRun
  <1>2. AdminShape'
    BY Stops DEF AdminInv, AdminShape, RunGoes, Shape, FileShape
  <1>3. Governed'
    BY DEF AdminInv, Governed
  <1> QED
    BY <1>1, <1>2, <1>3 DEF AdminInv

LEMMA FinishScriptKeeps == ASSUME AdminInv, FinishScript PROVE AdminInv'
  <1>1. ~Idle /\ run' = NoRun /\ UNCHANGED <<network, holders, owner, threshold>>
        /\ Step.do = "finish"
    BY DEF FinishScript, Abort, chain, Doing, Step
  <1>2. /\ file = [safe |-> file.safe, timelock |-> file.timelock, moved |-> file.moved,
                   complete |-> file.complete, deferred |-> file.deferred]
        /\ FileShape(file) /\ run.deferred \subseteq Slot
        /\ SafeExists /\ SafeWasLookedAt /\ DeferredIsShared /\ RecordIsHonest
        /\ file.complete => file.safe \in Safe
    BY DEF AdminInv, AdminShape, FileShape
  <1>3. CASE /\ run.script = "deployMultisig"
             /\ file' = [file EXCEPT !.safe = run.safe, !.complete = FALSE, !.deferred = {}]
    <2>1. /\ file'.safe = run.safe /\ file'.complete = FALSE /\ file'.deferred = {}
          /\ FileShape(file')
      BY <1>1, <1>2, <1>3, TheStep DEF FileShape
    <2>2. SafeExists'
      BY <1>1, <2>1, TheStep DEF SafeExists
    <2>3. SafeWasLookedAt'
      BY <1>1, <1>3, TheStep DEF SafeWasLookedAt
    <2>4. DeferredIsShared' /\ RecordIsHonest' /\ (file.complete => file.safe \in Safe)'
      BY <2>1 DEF DeferredIsShared, RecordIsHonest
    <2> QED
      BY <1>1, <2>1, <2>2, <2>3, <2>4, FileMoves
  <1>4. CASE /\ run.script = "migrateFullOwnership" /\ MigrationValid(run.safe)
             /\ file' = MigrationRecord
    <2>1. /\ file'.safe = file.safe /\ file'.complete = TRUE /\ file'.deferred = run.deferred
          /\ file'.timelock = file.timelock /\ FileShape(file')
      BY <1>2, <1>4 DEF FileShape, MigrationRecord
    <2>2. run.safe = file.safe /\ run.safe \in Safe /\ network = "testnet" /\ threshold[run.safe] >= 2
      BY <1>1, <1>4, TheStep
    <2>3. SafeExists' /\ SafeWasLookedAt' /\ (file.complete => file.safe \in Safe)'
      BY <1>1, <1>2, <2>1, <2>2 DEF SafeExists, SafeWasLookedAt
    <2>4. \A s \in Surface : \A r \in RolesOf(s) : file.safe \in holders[s][r]
      BY <1>4, <2>2 DEF MigrationValid, Held
    <2>5. DeferredIsShared'
      BY <1>1, <2>2, <2>4, Parties DEF DeferredIsShared, OthersHold, Vital, RolesOf
    <2>6. RecordIsHonest'
      <3>1. ASSUME NEW s \in Surface, NEW r \in RolesOf(s), Deployer \in holders[s][r]
            PROVE  <<s, r>> \in run.deferred /\ file.safe \in holders[s]["DEFAULT_ADMIN"]
        <4>1. <<s, r>> \in run.deferred
          BY <1>4, <3>1 DEF MigrationValid, Held
        <4>2. "DEFAULT_ADMIN" \in RolesOf(s)
          BY Tables DEF RolesOf
        <4> QED
          BY <2>4, <4>1, <4>2
      <3>2. \A o \in Ownable \ {"discountRegistry"} : owner[o] = file.safe
        BY <1>4, <2>2 DEF MigrationValid
      <3> QED
        BY <1>1, <2>1, <2>2, <3>1, <3>2 DEF RecordIsHonest, Held, Admin, RolesOf
    <2> QED
      BY <1>1, <2>1, <2>3, <2>5, <2>6, FileMoves
  <1>5. CASE file' = [file EXCEPT !.moved = TRUE]
    <2>1. /\ file'.safe = file.safe /\ file'.complete = file.complete
          /\ file'.deferred = file.deferred /\ file'.timelock = file.timelock /\ FileShape(file')
      BY <1>2, <1>5 DEF FileShape
    <2>2. SafeExists' /\ SafeWasLookedAt' /\ DeferredIsShared'
      BY <1>1, <1>2, <2>1 DEF SafeExists, SafeWasLookedAt, DeferredIsShared, OthersHold
    <2>3. RecordIsHonest' /\ (file.complete => file.safe \in Safe)'
      BY <1>1, <1>2, <2>1 DEF RecordIsHonest, Held, Admin
    <2> QED
      BY <1>1, <2>1, <2>2, <2>3, FileMoves
  <1>6. CASE UNCHANGED file
    <2>1. SafeExists' /\ SafeWasLookedAt' /\ DeferredIsShared'
      BY <1>1, <1>2, <1>6 DEF SafeExists, SafeWasLookedAt, DeferredIsShared, OthersHold
    <2>2. RecordIsHonest' /\ (file.complete => file.safe \in Safe)'
      BY <1>1, <1>2, <1>6 DEF RecordIsHonest, Held, Admin
    <2> QED
      BY <1>1, <1>2, <1>6, <2>1, <2>2, FileMoves
  <1> QED
    BY <1>3, <1>4, <1>5, <1>6 DEF FinishScript

LEMMA AssertHandoffKeeps == ASSUME AdminInv, AssertHandoff PROVE AdminInv'
  <1>1. /\ run.todo = <<>> /\ run' = run /\ network = "mainnet"
        /\ UNCHANGED <<network, holders, owner, threshold>>
        /\ HandoffValid(file.safe) /\ file' = [file EXCEPT !.complete = TRUE]
    BY DEF AssertHandoff, Idle, chain
  <1>2. /\ file = [safe |-> file.safe, timelock |-> file.timelock, moved |-> file.moved,
                   complete |-> file.complete, deferred |-> file.deferred]
        /\ FileShape(file)
        /\ SafeExists /\ SafeWasLookedAt /\ DeferredIsShared
    BY DEF AdminInv, AdminShape, FileShape
  <1>3. /\ file'.safe = file.safe /\ file'.complete = TRUE /\ FileShape(file')
        /\ file'.deferred = file.deferred /\ file'.timelock = file.timelock
    BY <1>1, <1>2 DEF FileShape
  <1>4. file.safe \in Safe /\ file.safe # Deployer
    BY <1>1, <1>2, Parties DEF SafeWasLookedAt
  <1>5. threshold[file.safe] = 2
    <2>1. owner["root"] = file.safe
      BY <1>1, Tables DEF HandoffValid
    <2> QED
      BY <1>1, <1>2, <1>4, <2>1 DEF SafeWasLookedAt
  <1>6. SafeExists' /\ SafeWasLookedAt' /\ DeferredIsShared' /\ (file.complete => file.safe \in Safe)'
    BY <1>1, <1>2, <1>3, <1>4 DEF SafeExists, SafeWasLookedAt, DeferredIsShared, OthersHold
  <1>7. RecordIsHonest'
    <2>1. \A s \in Surface : \A r \in RolesOf(s) : Deployer \notin holders[s][r]
      BY <1>1 DEF HandoffValid, Held
    <2>2. \A o \in Ownable : owner[o] = file.safe
      BY <1>1 DEF HandoffValid
    <2> QED
      BY <1>1, <1>3, <1>5, <2>1, <2>2 DEF RecordIsHonest, Held, Admin, RolesOf
  <1>8. run'.todo \in Seq(PermittedSteps') /\ Careful(run.todo)' /\ RunIsForSafe'
    BY <1>1, NothingToDo
  <1>9. AdminShape'
    BY <1>1, <1>3 DEF AdminInv, AdminShape, FileShape
  <1>10. Governed'
    BY <1>1 DEF AdminInv, Governed
  <1> QED
    BY <1>6, <1>7, <1>8, <1>9, <1>10 DEF AdminInv

------------------------------------------------------------------------------
(* The starts.                                                               *)

LEMMA StartKeeps ==
    ASSUME AdminInv, NEW script, NEW safe \in Safe, NEW plan, Start(script, safe, plan),
           Plan(plan),
           script = "deployMultisig" \/ safe = file.safe,
           script \in {"deployMultisig", "migrateFullOwnership"} => network = "testnet",
           script = "migrateFullOwnership" => threshold[safe] >= 2,
           \/ threshold[safe] > 0
           \/ script = "deployMultisig" /\ Head(plan).do = "create" /\ Head(plan).who = safe
    PROVE  AdminInv'
  <1>1. /\ run' = [script |-> script, safe |-> safe, todo |-> plan, deferred |-> {}]
        /\ UNCHANGED <<network, holders, owner, threshold, file>>
    BY DEF Start, chain
  <1>2. Steady /\ OthersStay
    BY <1>1 DEF Steady, OthersStay
  <1>3. run'.todo \in Seq(PermittedSteps')
    BY <1>1, <1>2, SequencesStay DEF Plan
  <1>4. Careful(run.todo)'
    BY <1>1 DEF Plan, Careful, HeirsNamed, Preceded, OnlyDeployerLoses, RevokesVital,
                Vital, RolesOf, OthersHold, GrantedBefore, Grants
  <1>5. RunIsForSafe'
    BY <1>1 DEF RunIsForSafe, Step
  <1>6. AdminShape'
    BY <1>1 DEF AdminInv, AdminShape
  <1>7. SafeExists' /\ SafeWasLookedAt'
    BY <1>1 DEF AdminInv, SafeExists, SafeWasLookedAt
  <1>8. DeferredIsShared' /\ Governed'
    BY <1>1 DEF AdminInv, DeferredIsShared, Governed, OthersHold
  <1>9. (file.complete => file.safe \in Safe)' /\ RecordIsHonest'
    BY <1>1 DEF AdminInv, RecordIsHonest, Held, Admin
  <1> QED
    BY <1>3, <1>4, <1>5, <1>6, <1>7, <1>8, <1>9 DEF AdminInv

\* The Safe of the file, once there is one.
LEMMA SafeOfFile ==
    ASSUME AdminInv, file.safe # NoParty
    PROVE  file.safe \in Safe /\ threshold[file.safe] > 0
  BY DEF AdminInv, AdminShape, SafeExists

LEMMA StartRevokeDeployerKeeps == ASSUME AdminInv, StartRevokeDeployer PROVE AdminInv'
  <1>1. file.safe \in Safe /\ threshold[file.safe] > 0
    BY SafeOfFile DEF StartRevokeDeployer
  <1>2. Plan(RevokeDeployerPlan(file.safe))
    BY <1>1, RevokeDeployerIsCareful
  <1> QED
    BY <1>1, <1>2, StartKeeps DEF StartRevokeDeployer

LEMMA StartMigrateFullKeeps == ASSUME AdminInv, StartMigrateFull PROVE AdminInv'
  <1>1. file.safe \in Safe /\ threshold[file.safe] > 0 /\ network = "testnet"
    BY SafeOfFile DEF StartMigrateFull
  <1>2. Plan(MigrateFullPlan(file.safe))
    BY <1>1, MigrateFullIsCareful
  <1> QED
    BY <1>1, <1>2, StartKeeps DEF StartMigrateFull

LEMMA StartRevokeOracleKeeps == ASSUME AdminInv, StartRevokeOracle PROVE AdminInv'
  <1>1. file.safe \in Safe /\ threshold[file.safe] > 0
    BY SafeOfFile DEF StartRevokeOracle
  <1>2. Plan(RevokeOraclePlan(file.safe))
    BY <1>1, RevokeOracleIsCareful
  <1> QED
    BY <1>1, <1>2, StartKeeps DEF StartRevokeOracle

LEMMA StartDeployTimelockKeeps ==
    ASSUME AdminInv, NEW migrate \in BOOLEAN, StartDeployTimelock(migrate) PROVE AdminInv'
  <1>1. file.safe \in Safe /\ threshold[file.safe] > 0 /\ network = "testnet"
    BY SafeOfFile DEF StartDeployTimelock
  <1>2. Plan(DeployTimelockPlan(file.safe, migrate))
    BY <1>1, DeployTimelockIsCareful
  <1> QED
    BY <1>1, <1>2, StartKeeps DEF StartDeployTimelock

LEMMA StartSafeTestKeeps == ASSUME AdminInv, StartSafeTest PROVE AdminInv'
  <1>1. file.safe \in Safe /\ threshold[file.safe] > 0
    BY SafeOfFile DEF StartSafeTest
  <1>2. Plan(SafeTestPlan(file.safe))
    BY <1>1, SafeTestIsCareful
  <1> QED
    BY <1>1, <1>2, StartKeeps DEF StartSafeTest

LEMMA StartMainnetScriptKeeps == ASSUME AdminInv, StartMainnetScript PROVE AdminInv'
  <1>1. network = "mainnet"
    BY DEF StartMainnetScript, StartMainnetTimelock, StartHandoff
  <1>2. file.safe \in Safe /\ threshold[file.safe] > 0
    BY <1>1 DEF AdminInv, SafeWasLookedAt, SafeExists
  <1>3. CASE StartMainnetTimelock
    <2>1. Plan(MainnetTimelockPlan)
      BY <1>3, MainnetTimelockIsCareful DEF StartMainnetTimelock, Preflight
    <2> QED
      BY <1>2, <1>3, <2>1, StartKeeps DEF StartMainnetTimelock
  <1>4. CASE StartHandoff
    <2>1. Plan(HandoffPlan(file.safe))
      BY <1>2, <1>4, HandoffIsCareful DEF StartHandoff
    <2> QED
      BY <1>2, <1>4, <2>1, StartKeeps DEF StartHandoff
  <1> QED
    BY <1>3, <1>4 DEF StartMainnetScript

\* A Safe that is not there is created first.
LEMMA FirstStays ==
    ASSUME NEW X, NEW p \in Seq(X), NEW q \in Seq(X), p # <<>>
    PROVE  p \o q \in Seq(X) /\ p \o q # <<>> /\ (p \o q)[1] = p[1]
  <1>1. 1 \in 1..Len(p)
    OBVIOUS
  <1>2. /\ p \o q \in Seq(X) /\ Len(p \o q) = Len(p) + Len(q)
        /\ Len(p) \in Nat /\ Len(q) \in Nat /\ (p \o q)[1] = p[1]
    BY <1>1, InARow
  <1>3. Len(p \o q) # 0
    BY <1>1, <1>2
  <1> QED
    BY <1>2, <1>3

LEMMA CreatesFirst ==
    ASSUME NEW safe \in Safe, NEW grant \in BOOLEAN, NEW revoke \in BOOLEAN,
           network = "testnet", threshold[safe] = 0, ~file.complete, safe # file.safe
    PROVE  LET p == DeployMultisigPlan(safe, grant, revoke)
           IN  Head(p).do = "create" /\ Head(p).who = safe
  <1> DEFINE st == Other("create", safe)
             G == IF grant THEN GrantsFor(MultisigSlots, safe) ELSE <<>>
             R == IF grant /\ revoke THEN RevokesFor(MultisigSlots, NoParty) ELSE <<>>
  <1>1. DeployMultisigPlan(safe, grant, revoke) = ((<<st>> \o G) \o R) \o Finish
    BY DEF DeployMultisigPlan, GrantsFor, RevokesFor
  <1>2. st.do = "create" /\ st.who = safe
    BY DEF Other
  <1>3. st \in PermittedSteps
    BY OtherAllowed, Parties
  <1>4. G \in Seq(PermittedSteps)
    <2>1. GrantsFor(MultisigSlots, safe) \in Seq(PermittedSteps)
      BY MultisigSlotsAre, GrantEach
    <2> QED
      BY <2>1
  <1>5. R \in Seq(PermittedSteps)
    <2>1. NoParty \in Safe \cup {NoParty}
      OBVIOUS
    <2>2. RevokesFor(MultisigSlots, NoParty) \in Seq(PermittedSteps)
      BY <2>1, MultisigSlotsAre, RevokeEach
    <2> QED
      BY <2>2
  <1> HIDE DEF st, G, R
  <1>6. <<st>> \in Seq(PermittedSteps) /\ <<st>> # <<>> /\ <<st>>[1] = st
    BY <1>3
  <1>7. /\ <<st>> \o G \in Seq(PermittedSteps) /\ <<st>> \o G # <<>> /\ (<<st>> \o G)[1] = st
    BY <1>4, <1>6, FirstStays
  <1> DEFINE a == <<st>> \o G
  <1>8. a \in Seq(PermittedSteps) /\ a # <<>> /\ a[1] = st
    BY <1>7
  <1> HIDE DEF a
  <1> DEFINE b == a \o R
  <1>9. b \in Seq(PermittedSteps) /\ b # <<>> /\ b[1] = st
    BY <1>5, <1>8, FirstStays
  <1> HIDE DEF b
  <1> DEFINE c == b \o Finish
  <1>10. c \in Seq(PermittedSteps) /\ c # <<>> /\ c[1] = st
    BY <1>9, FinishAllowed, FirstStays
  <1> HIDE DEF c
  <1>11. Head(c) = st
    BY <1>10, TailOf
  <1>12. DeployMultisigPlan(safe, grant, revoke) = c
    BY <1>1 DEF a, b, c
  <1> QED
    BY <1>2, <1>11, <1>12

LEMMA StartDeployMultisigKeeps ==
    ASSUME AdminInv, NEW grant \in BOOLEAN, NEW revoke \in BOOLEAN,
           StartDeployMultisig(grant, revoke)
    PROVE  AdminInv'
  <1> DEFINE safe == IF file.safe # NoParty THEN file.safe
                     ELSE CHOOSE n \in Safe : threshold[n] = 0
  <1>1. /\ network = "testnet"
        /\ file.safe # NoParty \/ \E n \in Safe : threshold[n] = 0
        /\ Start("deployMultisig", safe, DeployMultisigPlan(safe, grant, revoke))
    BY DEF StartDeployMultisig
  <1>2. /\ safe \in Safe
        /\ threshold[safe] = 0 => ~file.complete /\ safe # file.safe
    <2>1. CASE file.safe # NoParty
      BY <2>1, SafeOfFile
    <2>2. CASE file.safe = NoParty
      <3>1. safe \in Safe
        BY <1>1, <2>2
      <3>2. file.safe \notin Safe
        BY <2>2
      <3> QED
        BY <3>1, <3>2 DEF AdminInv
    <2> QED
      BY <2>1, <2>2
  <1> HIDE DEF safe
  <1>3. Plan(DeployMultisigPlan(safe, grant, revoke))
    BY <1>1, <1>2, DeployMultisigIsCareful
  <1>4. \/ threshold[safe] > 0
        \/ LET p == DeployMultisigPlan(safe, grant, revoke)
           IN  Head(p).do = "create" /\ Head(p).who = safe
    <2>1. CASE threshold[safe] = 0
      BY <1>1, <1>2, <2>1, CreatesFirst
    <2>2. CASE threshold[safe] # 0
      BY <1>2, <2>2 DEF AdminInv, AdminShape
    <2> QED
      BY <2>1, <2>2
  <1> QED
    BY <1>1, <1>2, <1>3, <1>4, StartKeeps

------------------------------------------------------------------------------
LEMMA AdminInitInv == AdminInit => AdminInv
  <1> SUFFICES ASSUME AdminInit PROVE AdminInv
    OBVIOUS
  <1>1. /\ network \in {"testnet", "mainnet"} /\ run = NoRun /\ run.todo = <<>>
        /\ owner = [o \in Ownable |-> Deployer]
        /\ holders = [s \in Surface |-> [r \in Role |-> IF r \in RolesOf(s) THEN {Deployer} ELSE {}]]
    BY DEF AdminInit, NoRun
  <1>2. /\ threshold \in [Safe -> 0..3] /\ SafeExists
        /\ network = "mainnet" => file.safe \in Safe
    <2>1. CASE network = "mainnet"
      <3>1. PICK n \in Safe, k \in 1..3 :
                  /\ threshold = [m \in Safe |-> IF m = n THEN k ELSE 0]
                  /\ file = [safe |-> n, timelock |-> FALSE, moved |-> FALSE,
                             complete |-> FALSE, deferred |-> {}]
        BY <2>1 DEF AdminInit
      <3>2. file.safe = n
        BY <3>1
      <3> QED
        BY <3>1, <3>2 DEF SafeExists
    <2>2. CASE network # "mainnet"
      <3>1. threshold = [n \in Safe |-> 0] /\ file.safe = NoParty
        BY <2>2 DEF AdminInit
      <3> QED
        BY <2>2, <3>1 DEF SafeExists
    <2> QED
      BY <2>1, <2>2
  <1>3. /\ file = [safe |-> file.safe, timelock |-> FALSE, moved |-> FALSE,
                   complete |-> FALSE, deferred |-> {}]
        /\ file.safe \in Safe \cup {NoParty}
    BY DEF AdminInit
  <1>4. /\ file = [safe |-> file.safe, timelock |-> file.timelock, moved |-> file.moved,
                   complete |-> file.complete, deferred |-> file.deferred]
        /\ file.complete = FALSE /\ file.deferred = {}
    BY <1>3
  <1>5. AdminShape
    <2>1. holders \in [Surface -> [Role -> SUBSET Party]] /\ owner \in [Ownable -> Party]
      BY <1>1, Parties
    <2>2. run = [script |-> run.script, safe |-> run.safe, todo |-> run.todo,
                 deferred |-> run.deferred] /\ run.deferred \subseteq Slot
      BY <1>1 DEF NoRun
    <2> QED
      BY <1>1, <1>2, <1>3, <1>4, <2>1, <2>2 DEF AdminShape
  <1>6. run.todo \in Seq(PermittedSteps) /\ Careful(run.todo) /\ RunIsForSafe
    BY <1>1 DEF Careful, HeirsNamed, RunIsForSafe, Idle
  <1>7. SafeWasLookedAt
    BY <1>1, <1>2, <1>3, Tables DEF SafeWasLookedAt
  <1>8. DeferredIsShared /\ RecordIsHonest
    BY <1>4 DEF DeferredIsShared, RecordIsHonest
  <1>9. Governed
    BY <1>1, RolesAre DEF Governed, Vital
  <1> QED
    BY <1>2, <1>4, <1>5, <1>6, <1>7, <1>8, <1>9 DEF AdminInv

LEMMA AdminNextInv == AdminInv /\ [AdminNext]_adminVars => AdminInv'
  <1> SUFFICES ASSUME AdminInv, [AdminNext]_adminVars PROVE AdminInv'
    OBVIOUS
  <1>1. ASSUME NEW grant \in BOOLEAN, NEW revoke \in BOOLEAN, StartDeployMultisig(grant, revoke)
        PROVE  AdminInv'
    BY <1>1, StartDeployMultisigKeeps
  <1>2. ASSUME NEW migrate \in BOOLEAN, StartDeployTimelock(migrate) PROVE AdminInv'
    BY <1>2, StartDeployTimelockKeeps
  <1>3. CASE StartRevokeDeployer \/ StartMigrateFull \/ StartRevokeOracle
    BY <1>3, StartRevokeDeployerKeeps, StartMigrateFullKeeps, StartRevokeOracleKeeps
  <1>4. CASE StartSafeTest \/ StartMainnetScript
    BY <1>4, StartSafeTestKeeps, StartMainnetScriptKeeps
  <1>5. CASE AssertHandoff \/ SafeRevokes \/ Crash
    BY <1>5, AssertHandoffKeeps, SafeRevokesKeeps, CrashKeeps
  <1>6. CASE CreateSafe \/ DeployTimelock \/ CreateTimelock
    BY <1>6, CreateSafeKeeps, DeployTimelockKeeps, CreateTimelockKeeps
  <1>7. CASE GrantRole \/ RevokeRole \/ TransferOwnable
    BY <1>7, GrantRoleKeeps, RevokeRoleKeeps, TransferOwnableKeeps
  <1>8. CASE SetPaused \/ FinishScript
    BY <1>8, SetPausedKeeps, FinishScriptKeeps
  <1>9. CASE UNCHANGED adminVars
    <2>1. UNCHANGED <<network, holders, owner, threshold, file, run>>
      BY <1>9 DEF adminVars, chain
    <2>2. Steady
      BY <2>1 DEF Steady
    <2>3. run'.todo \in Seq(PermittedSteps')
      BY <2>1, <2>2, SequencesStay DEF AdminInv
    <2>4. Careful(run.todo)'
      <3>1. PICK q : q = run.todo
        OBVIOUS
      <3>2. Careful(q) /\ run'.todo = q
        BY <2>1, <3>1 DEF AdminInv
      <3> QED
        BY <2>1, <3>2 DEF Careful, HeirsNamed, Preceded, OnlyDeployerLoses, RevokesVital,
                    Vital, RolesOf, OthersHold, GrantedBefore, Grants
    <2>5. RunIsForSafe' /\ AdminShape'
      BY <2>1 DEF AdminInv, RunIsForSafe, Idle, Step, AdminShape
    <2>6. SafeExists' /\ SafeWasLookedAt' /\ DeferredIsShared' /\ Governed'
      BY <2>1 DEF AdminInv, SafeExists, SafeWasLookedAt, DeferredIsShared, Governed, OthersHold
    <2>7. (file.complete => file.safe \in Safe)' /\ RecordIsHonest'
      BY <2>1 DEF AdminInv, RecordIsHonest, Held, Admin
    <2> QED
      BY <2>3, <2>4, <2>5, <2>6, <2>7 DEF AdminInv
  <1> QED
    BY <1>1, <1>2, <1>3, <1>4, <1>5, <1>6, <1>7, <1>8, <1>9 DEF AdminNext, ScriptStep

\* The inductive invariant of the handover.
THEOREM AdminInvHolds == AdminSpec => []AdminInv
  BY AdminInitInv, AdminNextInv, PTL DEF AdminSpec

\* However the scripts are stopped, repeated and mixed, somebody holds every vital
\* role of every surface.
THEOREM GovernedHolds == AdminSpec => []Governed
  <1>1. AdminInv => Governed
    BY DEF AdminInv
  <1> QED
    BY <1>1, AdminInvHolds, PTL

\* A recorded handover is the truth.
THEOREM RecordIsHonestHolds == AdminSpec => []RecordIsHonest
  <1>1. AdminInv => RecordIsHonest
    BY DEF AdminInv
  <1> QED
    BY <1>1, AdminInvHolds, PTL

------------------------------------------------------------------------------
(***************************************************************************)
(* The switch of the registrars keeps every lease, for every set of tokens *)
(* and holders, every grace period and every delay of the timelock.        *)
(*                                                                         *)
(* The fence compares the snapshot with the old registrar at its own time; *)
(* the switch comes later.  What holds in between (BatchMatches) is that   *)
(* nobody can buy, that a token keeps its expiry, and its holder unless it *)
(* is noted as moved, and that what had lapsed stays lapsed.               *)
(***************************************************************************)

\* A token without holder has no expiry, and the clock is past the first grace
\* period (a free token counts as lapsed).
Sound ==
    /\ \A t \in Token : old[t].holder = NoHolder => old[t] = Nobody
    /\ now > GRACE_PERIOD
    /\ stage \notin {"done", "validated"} => live = "old"

\* From the snapshot to the switch the new registrars are what was read.
Copied == stage \in {"deployed", "batch"} => new = snapshot

BatchMatches ==
    stage = "batch" =>
       /\ paused
       /\ \A t \in Token :
             \/ new[t].expiry = old[t].expiry /\ (t \notin moved => new[t] = old[t])
             \/ Lapsed(old[t], now) /\ new[t] = Nobody

CutoverInv == CutoverTypeOK /\ Sound /\ Copied /\ BatchMatches

USE CutoverAssumption DEF CutoverTypeOK, Lease, Nobody, Lapsed

\* Time does not bring a lapsed lease back.
LEMMA LapsedStays ==
    ASSUME NEW l \in Lease, NEW a \in Nat, NEW b \in Nat, a <= b, Lapsed(l, a)
    PROVE  Lapsed(l, b)
  BY SMT

\* A snapshot is one of leases, and differs from the registrar in lapsed ones only.
LEMMA RecordsAre ==
    ASSUME CutoverTypeOK, Sound
    PROVE  /\ Records(now) \in [Token -> Lease]
           /\ \A t \in Token : \/ Records(now)[t] = old[t]
                               \/ Lapsed(old[t], now) /\ Records(now)[t] = Nobody
  <1>1. Nobody \in Lease
    BY SMT
  <1>2. Records(now) \in [Token -> Lease]
    BY <1>1, SMT DEF Records
  <1>3. ASSUME NEW t \in Token
        PROVE  \/ Records(now)[t] = old[t]
               \/ Lapsed(old[t], now) /\ Records(now)[t] = Nobody
    BY <1>3, SMT DEF Records, Sound
  <1> QED
    BY <1>2, <1>3

LEMMA CutoverInitial == CutoverInit => CutoverInv
  <1> SUFFICES ASSUME CutoverInit PROVE CutoverInv
    OBVIOUS
  <1>0. Nobody \in Lease /\ GRACE_PERIOD + 1 \in 0..MaxTime /\ NotScheduled \in 0..NotScheduled
    BY SMT DEF NotScheduled
  <1>1. CutoverTypeOK
    <2>1. \A t \in Token : old[t] \in Lease
      BY DEF CutoverInit
    <2>2. old \in [Token -> Lease] /\ new \in [Token -> Lease] /\ snapshot \in [Token -> Lease]
      BY <1>0 DEF CutoverInit
    <2>3. upgrade \in [prepared: BOOLEAN, ready: 0..NotScheduled, done: BOOLEAN]
      BY <1>0 DEF CutoverInit
    <2> QED
      BY <1>0, <2>2, <2>3 DEF CutoverInit, Stage
  <1>2. Sound /\ Copied /\ BatchMatches
    BY SMT DEF CutoverInit, Sound, Copied, BatchMatches
  <1> QED
    BY <1>1, <1>2 DEF CutoverInv

\* What none of the script's steps touches.
LEMMA CutoverStep == CutoverInv /\ [CutoverNext]_cutoverVars => CutoverInv'
  <1> SUFFICES ASSUME CutoverInv, [CutoverNext]_cutoverVars PROVE CutoverInv'
    OBVIOUS
  <1> USE DEF CutoverInv, Stage, NotScheduled
  <1>1. CASE Tick
    <2>1. CutoverTypeOK' /\ Sound' /\ Copied'
      BY <1>1, SMT DEF Tick, Sound, Copied
    <2>2. \A t \in Token : Lapsed(old[t], now) => Lapsed(old'[t], now')
      BY <1>1, SMT DEF Tick
    <2>3. BatchMatches'
      BY <1>1, <2>2, SMT DEF Tick, BatchMatches
    <2> QED
      BY <2>1, <2>3
  <1>2. ASSUME NEW t \in Token, Transfer(t) PROVE CutoverInv'
    <2> PICK h \in Holder \ {old[t].holder} : old' = [old EXCEPT ![t].holder = h]
      BY <1>2 DEF Transfer
    <2>1. CutoverTypeOK' /\ Sound' /\ Copied'
      BY <1>2, SMT DEF Transfer, Sound, Copied
    <2>2. \A s \in Token : old'[s].expiry = old[s].expiry /\ (s # t => old'[s] = old[s])
      BY SMT
    <2>3. BatchMatches'
      BY <1>2, <2>2, SMT DEF Transfer, BatchMatches
    <2> QED
      BY <2>1, <2>3
  <1>3. ASSUME NEW t \in Token, Buy(t) PROVE CutoverInv'
    <2> PICK h \in Holder : old' = [old EXCEPT ![t] = [holder |-> h, expiry |-> MaxTime + 1]]
      BY <1>3 DEF Buy
    <2>1. CutoverTypeOK' /\ Sound' /\ Copied'
      BY <1>3, SMT DEF Buy, Sound, Copied
    <2>2. stage' # "batch"
      BY <1>3 DEF Buy, BatchMatches
    <2> QED
      BY <2>1, <2>2 DEF BatchMatches
  <1>4. CASE Pause
    BY <1>4, SMT DEF Pause, Sound, Copied, BatchMatches
  <1>5. CASE Unpause
    <2>1. CutoverTypeOK' /\ Sound' /\ Copied'
      BY <1>5 DEF Unpause, Sound, Copied
    <2>2. stage' # "batch"
      BY <1>5 DEF Unpause
    <2> QED
      BY <2>1, <2>2 DEF BatchMatches
  <1>6. CASE PrepareUpgrade \/ ScheduleUpgrade \/ ExecuteUpgrade
    <2>1. CutoverTypeOK'
      <3>1. now + DELAY \in 0..NotScheduled
        BY SMT
      <3>2. upgrade' \in [prepared: BOOLEAN, ready: 0..NotScheduled, done: BOOLEAN]
        BY <1>6, <3>1, Zenon DEF PrepareUpgrade, ScheduleUpgrade, ExecuteUpgrade
      <3> QED
        BY <1>6, <3>2 DEF PrepareUpgrade, ScheduleUpgrade, ExecuteUpgrade
    <2>2. Sound' /\ Copied' /\ BatchMatches'
      BY <1>6, SMT DEF PrepareUpgrade, ScheduleUpgrade, ExecuteUpgrade, Sound, Copied, BatchMatches
    <2> QED
      BY <2>1, <2>2
  <1>7. CASE TakeSnapshot
    BY <1>7, RecordsAre, SMT DEF TakeSnapshot, Sound, Copied, BatchMatches
  <1>8. CASE DeployRegistrars
    BY <1>8, SMT DEF DeployRegistrars, Sound, Copied, BatchMatches
  <1>9. CASE GiveUp /\ stage \in {"snapshot", "deployed"}
    BY <1>9, SMT DEF GiveUp, Sound, Copied, BatchMatches
  <1>10. CASE Fence /\ ~GiveUp
    <2>1. paused /\ Records(now) = snapshot /\ stage = "deployed" /\ stage' = "batch"
          /\ UNCHANGED <<old, new, live, paused, upgrade, snapshot, moved, now>>
      BY <1>10 DEF Fence
    <2>2. new = Records(now)
      BY <2>1 DEF Copied
    <2>3. CutoverTypeOK' /\ Sound' /\ Copied'
      BY <2>1, SMT DEF Sound, Copied
    <2>4. BatchMatches'
      BY <2>1, <2>2, RecordsAre, SMT DEF BatchMatches
    <2> QED
      BY <2>3, <2>4
  <1>11. CASE Cutover
    <2>1. upgrade' \in [prepared: BOOLEAN, ready: 0..NotScheduled, done: BOOLEAN]
      BY <1>11, Zenon DEF Cutover
    <2>2. CutoverTypeOK' /\ Sound' /\ Copied' /\ BatchMatches'
      BY <1>11, <2>1 DEF Cutover, Sound, Copied, BatchMatches
    <2> QED
      BY <2>2
  <1>12. CASE ValidateCutover
    BY <1>12, SMT DEF ValidateCutover, Sound, Copied, BatchMatches
  <1>13. CASE UNCHANGED cutoverVars
    BY <1>13, SMT DEF cutoverVars, Sound, Copied, BatchMatches
  <1> QED
    BY <1>1, <1>2, <1>3, <1>4, <1>5, <1>6, <1>7, <1>8, <1>9, <1>10, <1>11, <1>12, <1>13
       DEF CutoverNext, Stopped, Fence

\* The states of the cutover are those of its types, and a written batch matches the
\* old registrar, until the switch, up to what its holders moved.
THEOREM CutoverInvariant == CutoverSpec => []CutoverInv
  BY CutoverInitial, CutoverStep, PTL DEF CutoverSpec

\* deploy-metadata-v2-registrars.js: whatever happens between snapshot, fence and the
\* Safe's transaction, the switch keeps every lease but those of tokens moved after the
\* fence, which keep their expiry.
THEOREM CutoverKeepsLeasesHolds == CutoverSpec => CutoverKeepsLeases
  <1>1. CutoverInv /\ [CutoverNext]_cutoverVars
          => [live # live' =>
                 \A t \in Token :
                    LET l == old[t] IN
                    \/ new[t] = l
                    \/ Lapsed(l, now) /\ Lapsed(new[t], now)
                    \/ t \in moved /\ new[t].expiry = l.expiry]_cutoverVars
    <2> SUFFICES ASSUME CutoverInv, CutoverNext, live # live', NEW t \in Token
                 PROVE  \/ new[t] = old[t]
                        \/ Lapsed(old[t], now) /\ Lapsed(new[t], now)
                        \/ t \in moved /\ new[t].expiry = old[t].expiry
      BY DEF cutoverVars
    <2>1. Cutover
      BY DEF CutoverNext, Tick, Pause, Unpause, Transfer, Buy, PrepareUpgrade, ScheduleUpgrade,
             ExecuteUpgrade, TakeSnapshot, DeployRegistrars, Stopped, Fence, GiveUp, ValidateCutover
    <2>2. BatchMatches /\ stage = "batch" /\ Sound
      BY <2>1 DEF Cutover, CutoverInv
    <2>3. now \in Nat /\ now > GRACE_PERIOD /\ Lapsed(Nobody, now)
      BY <2>2, SMT DEF CutoverInv, Sound
    <2> QED
      BY <2>2, <2>3 DEF BatchMatches
  <1> QED
    BY <1>1, CutoverInvariant, PTL DEF CutoverSpec, CutoverKeepsLeases
==============================================================================
