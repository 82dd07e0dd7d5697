----------------------------- MODULE RemovalProofs ----------------------------
(***************************************************************************)
(* Theorems about modules MoveLeadership and BrokerRemoval, for any set of *)
(* partitions, any ids and ranges and lists of replicas of any length.     *)
(*                                                                         *)
(* The inductive invariant adds to the type that what the loop is past has *)
(* a plan unless the script gave up, and then nothing has (LoopOK), that   *)
(* the broker holds what it leads (LedOK), and that Kafka is given a plan  *)
(* only when the script that makes it is over (StageOK).  That the drawing *)
(* of brokers can end rests on lengths of texts as cardinalities.          *)
(***************************************************************************)
EXTENDS BrokerRemoval, SequenceTheorems, FiniteSetTheorems, TLAPS

LoopOK ==
    /\ pc \notin {"describe", "failed"} => \A p \in listed \ (todo \cup cur) : plan[p] # <<>>
    /\ pc \in {"describe", "failed"} => \A p \in Partitions : plan[p] = <<>>
    /\ pc = "describe" => todo = {} /\ cur = {}
    /\ pc = "done" => todo = {}
    /\ \A p, q \in cur : p = q

LedOK == \A p \in led : BROKER \in ToSet(replicas[p])

StageOK ==
    /\ stage = "plan" => moving = {} /\ moved = {}
    /\ stage # "plan" => pc \in {"done", "failed"}

IInv == RemovalTypeOK /\ LoopOK /\ LedOK /\ StageOK /\ PlannedListsAreSound

USE IdsAssumption
USE DEF clusterVars, scriptVars, moveVars, removalVars, removalAllVars

-----------------------------------------------------------------------------
\* A list of replicas is a sequence of different brokers.
LEMMA ReplicaListFacts ==
    ASSUME NEW r \in ReplicaLists
    PROVE  /\ r \in Seq(Cluster) /\ r # <<>>
           /\ \A i, j \in 1..Len(r) : r[i] = r[j] => i = j
  BY DEF ReplicaLists, BoundedSeq, SeqOf, IsInjective

\* What all_but_broker returns: the same list without the broker.
LEMMA AllButFacts ==
    ASSUME NEW r \in ReplicaLists
    PROVE  /\ AllBut(r) \in Seq(Cluster)
           /\ IsInjective(AllBut(r))
           /\ ToSet(AllBut(r)) \subseteq ToSet(r) \ {BROKER}
<1> DEFINE at == {i \in DOMAIN r : r[i] = BROKER}
<1>1. r \in Seq(Cluster) /\ \A i, j \in 1..Len(r) : r[i] = r[j] => i = j
  BY ReplicaListFacts
<1>2. CASE at = {}
  BY <1>1, <1>2 DEF AllBut, IsInjective, ToSet
<1>3. CASE at # {}
  <2> DEFINE i == CHOOSE k \in at : TRUE
             s == AllBut(r)
  <2>1. i \in 1..Len(r) /\ r[i] = BROKER
    <3>1. i \in at
      BY <1>3
    <3> QED
      BY <1>1, <3>1
  <2>2. s = SubSeq(r, 1, i - 1) \o SubSeq(r, i + 1, Len(r))
    BY <1>3 DEF AllBut, RemoveAt
  <2> HIDE DEF i, s
  <2>3. /\ s \in Seq(Cluster) /\ Len(s) = Len(r) - 1
        /\ \A k \in 1..Len(s) : s[k] = IF k < i THEN r[k] ELSE r[k + 1]
    <3> DEFINE u == SubSeq(r, 1, i - 1)
               v == SubSeq(r, i + 1, Len(r))
    <3>1. /\ u \in Seq(Cluster) /\ Len(u) = i - 1
          /\ \A k \in 1..(i - 1) : u[k] = r[k]
      <4>1. \A k \in 1..(i - 1) : r[k] \in Cluster
        BY <1>1, <2>1
      <4>2. Len(r) \in Nat /\ i \in Int
        BY <1>1, <2>1
      <4> QED
        BY <2>1, <4>1, <4>2, SubSeqProperties
    <3>2. /\ v \in Seq(Cluster) /\ Len(v) = Len(r) - i
          /\ \A k \in 1..(Len(r) - i) : v[k] = r[i + k]
      <4>1. \A k \in (i + 1)..Len(r) : r[k] \in Cluster
        BY <1>1, <2>1
      <4>2. Len(r) \in Nat /\ i \in Int
        BY <1>1, <2>1
      <4> QED
        BY <2>1, <4>1, <4>2, SubSeqProperties
    <3> HIDE DEF u, v
    <3>3. /\ u \o v \in Seq(Cluster) /\ Len(u \o v) = Len(u) + Len(v)
          /\ \A k \in 1..(Len(u) + Len(v)) : (u \o v)[k] = IF k <= Len(u) THEN u[k] ELSE v[k - Len(u)]
      <4>1. u \in Seq(Cluster) /\ v \in Seq(Cluster)
        BY <3>1, <3>2
      <4> QED
        BY ONLY <4>1, ConcatProperties
    <3>4. s = u \o v /\ Len(r) \in Nat
      BY <1>1, <2>2 DEF u, v
    <3> HIDE DEF s
    <3>5. s \in Seq(Cluster) /\ Len(s) = Len(r) - 1
      BY <2>1, <3>1, <3>2, <3>3, <3>4
    <3>6. ASSUME NEW k \in 1..Len(s) PROVE s[k] = IF k < i THEN r[k] ELSE r[k + 1]
      <4>1. CASE k < i
        BY <2>1, <3>1, <3>2, <3>3, <3>4, <3>5, <4>1
      <4>2. CASE ~(k < i)
        <5>1. k - Len(u) \in 1..(Len(r) - i) /\ k \in 1..(Len(u) + Len(v)) /\ ~(k <= Len(u))
          BY <2>1, <3>1, <3>2, <3>4, <3>5, <4>2
        <5>2. s[k] = r[i + (k - Len(u))] /\ i + (k - Len(u)) = k + 1
          BY <2>1, <3>1, <3>2, <3>3, <3>4, <3>5, <5>1
        <5> QED
          BY <4>2, <5>2
      <4> QED
        BY <4>1, <4>2
    <3> QED
      BY <3>5, <3>6
  <2>4. IsInjective(s)
    BY <1>1, <2>1, <2>3 DEF IsInjective
  <2>5. ASSUME NEW k \in 1..Len(s) PROVE s[k] \in ToSet(r) /\ s[k] # BROKER
    <3>1. PICK j \in 1..Len(r) : j # i /\ s[k] = r[j]
      <4>1. Len(r) \in Nat /\ Len(s) = Len(r) - 1
        BY <1>1, <2>3
      <4>2. CASE k < i
        BY <2>1, <2>3, <4>1, <4>2
      <4>3. CASE ~(k < i)
        <5>1. k + 1 \in 1..Len(r) /\ k + 1 # i
          BY <2>1, <4>1, <4>3
        <5>2. s[k] = r[k + 1]
          BY <2>3, <4>3
        <5> QED
          BY <5>1, <5>2
      <4> QED
        BY <4>2, <4>3
    <3>2. r[i] # r[j]
      BY <1>1, <2>1, <3>1
    <3> QED
      BY <1>1, <2>1, <3>1, <3>2 DEF ToSet
  <2> QED
    BY <2>3, <2>4, <2>5 DEF s, ToSet
<1> QED
  BY <1>2, <1>3

\* The list with a broker in the place of the one that goes.
LEMMA AppendedFacts ==
    ASSUME NEW r \in ReplicaLists, NEW S, Cluster \subseteq S, NEW b \in S, b \notin ToSet(r)
    PROVE  /\ Append(AllBut(r), b) \in Seq(S) /\ Append(AllBut(r), b) # <<>>
           /\ IsInjective(Append(AllBut(r), b))
           /\ Len(Append(AllBut(r), b)) > Len(AllBut(r))
           /\ Front(Append(AllBut(r), b)) = AllBut(r)
           /\ ToSet(Append(AllBut(r), b)) = ToSet(AllBut(r)) \cup {b}
<1> DEFINE a == AllBut(r)
           s == Append(a, b)
<1>1. a \in Seq(Cluster) /\ IsInjective(a) /\ ToSet(a) \subseteq ToSet(r) \ {BROKER}
  BY AllButFacts
<1> HIDE DEF a
<1>2. a \in Seq(S)
  BY <1>1, SeqMonotonic
<1>3. /\ s \in Seq(S) /\ Len(s) = Len(a) + 1 /\ s # <<>>
      /\ \A k \in 1..Len(a) : s[k] = a[k]
      /\ s[Len(s)] = b
  BY <1>2
<1>4. \A k \in 1..Len(a) : a[k] # b
  BY <1>1 DEF ToSet
<1>5. IsInjective(s)
  BY <1>1, <1>3, <1>4 DEF IsInjective
<1>6. Front(s) = a
  BY <1>2, <1>3 DEF Front
<1>7. ToSet(s) = ToSet(a) \cup {b}
  BY <1>1, <1>3 DEF ToSet
<1> QED
  BY <1>3, <1>5, <1>6, <1>7 DEF a

-----------------------------------------------------------------------------
\* The initial states satisfy the invariant.
LEMMA InvInit == RemovalInit => IInv
  BY DEF RemovalInit, MoveInit, IInv, RemovalTypeOK, MoveTypeOK, LoopOK, LedOK, StageOK,
         PlannedListsAreSound

\* A plan for one more partition keeps the plans sound.
LEMMA OneMorePlan ==
    ASSUME IInv, NEW p \in listed, NEW s \in Seq(Cluster \cup range),
           UNCHANGED <<replicas, led>>, plan' = [plan EXCEPT ![p] = s],
           IsInjective(s),
           (IF Len(s) > Len(AllBut(replicas[p])) THEN Front(s) ELSE s) = AllBut(replicas[p]),
           p \in led => BROKER \notin ToSet(s)
    PROVE  PlannedListsAreSound'
<1>1. /\ p \in Partitions /\ plan'[p] = s
      /\ \A q \in Partitions \ {p} : plan'[q] = plan[q]
  BY DEF IInv, RemovalTypeOK, MoveTypeOK
<1> SUFFICES ASSUME NEW q \in Partitions, plan'[q] # <<>>
             PROVE  /\ IsInjective(plan'[q]) /\ Kept(q)' = AllBut(replicas[q])
                    /\ q \in led => BROKER \notin ToSet(plan'[q])
  BY DEF PlannedListsAreSound
<1>2. CASE q = p
  BY <1>1, <1>2 DEF Kept
<1>3. CASE q # p
  BY <1>1, <1>3 DEF IInv, PlannedListsAreSound, Kept
<1> QED
  BY <1>2, <1>3

\* Nothing but the plan and the partitions matters to the soundness of the lists.
LEMMA SamePlan ==
    ASSUME IInv, UNCHANGED <<replicas, plan>>, led' = led
    PROVE  PlannedListsAreSound'
  BY DEF IInv, PlannedListsAreSound, Kept

\* The plan of the three actions that have one.
LEMMA PlanningStep ==
    ASSUME IInv, NEW p \in Partitions, UNCHANGED removalVars,
           Keep(p) \/ \E b \in range : Draw(p, b)
    PROVE  IInv'
<1> USE DEF IInv, RemovalTypeOK, MoveTypeOK
<1>1. replicas[p] \in ReplicaLists
  OBVIOUS
<1>2. CASE Keep(p)
  <2>1. /\ AllBut(replicas[p]) \in Seq(Cluster) /\ IsInjective(AllBut(replicas[p]))
        /\ BROKER \notin ToSet(AllBut(replicas[p]))
    BY <1>1, AllButFacts
  <2>2. AllBut(replicas[p]) \in Seq(Cluster \cup range) /\ p \in listed
    BY <1>2, <2>1 DEF Keep
  <2>3. PlannedListsAreSound'
    <3>1. plan' = [plan EXCEPT ![p] = AllBut(replicas[p])] /\ UNCHANGED <<replicas, led>>
      BY <1>2 DEF Keep
    <3>2. ~(Len(AllBut(replicas[p])) > Len(AllBut(replicas[p])))
      BY <2>1
    <3> QED
      BY <2>1, <2>2, <3>1, <3>2, OneMorePlan
  <2>4. RemovalTypeOK'
    BY <1>2, <2>2 DEF Keep, StageOK
  <2>5. LoopOK' /\ LedOK' /\ StageOK'
    BY <1>2, <2>2 DEF Keep, LoopOK, LedOK, StageOK
  <2> QED
    BY <2>3, <2>4, <2>5
<1>3. ASSUME NEW b \in range, Draw(p, b) PROVE IInv'
  <2> DEFINE s == Append(AllBut(replicas[p]), b)
  <2>1. /\ AllBut(replicas[p]) \in Seq(Cluster)
        /\ BROKER \notin ToSet(AllBut(replicas[p]))
    BY <1>1, AllButFacts
  <2>2. b \notin ToSet(replicas[p]) /\ p \in listed /\ p \in cur
    BY <1>3 DEF Draw
  <2>3. /\ s \in Seq(Cluster \cup range) /\ s # <<>> /\ IsInjective(s)
        /\ Len(s) > Len(AllBut(replicas[p])) /\ Front(s) = AllBut(replicas[p])
        /\ ToSet(s) = ToSet(AllBut(replicas[p])) \cup {b}
    <3>1. Cluster \subseteq Cluster \cup range /\ b \in Cluster \cup range
      OBVIOUS
    <3> QED
      BY <1>1, <2>2, <3>1, AppendedFacts
  <2>4. plan' = [plan EXCEPT ![p] = s] /\ UNCHANGED <<replicas, led>>
    BY <1>3 DEF Draw
  <2> HIDE DEF s
  <2>5. p \in led => BROKER \notin ToSet(s)
    BY <2>1, <2>2, <2>3 DEF LedOK
  <2>6. PlannedListsAreSound'
    BY <2>2, <2>3, <2>4, <2>5, OneMorePlan
  <2>7. /\ pc = "draw" /\ stage = "plan" /\ moving = {} /\ moved = {}
        /\ pc' = "next" /\ cur' = {} /\ UNCHANGED <<listed, todo>>
    BY <1>3, <2>2 DEF Draw, StageOK
  <2>8. plan' \in [Partitions -> Seq(Cluster \cup range)] /\ plan'[p] = s
    BY <2>3, <2>4
  <2>9. RemovalTypeOK'
    BY <1>3, <2>7, <2>8 DEF Draw
  <2>10. LoopOK'
    <3>1. \A q \in cur : q = p
      BY <2>2 DEF LoopOK
    <3> QED
      BY <2>2, <2>3, <2>4, <2>7, <2>8, <3>1 DEF LoopOK
  <2>11. LedOK' /\ StageOK'
    BY <1>3, <2>4, <2>7 DEF Draw, LedOK, StageOK
  <2> QED
    BY <2>6, <2>9, <2>10, <2>11
<1> QED
  BY <1>2, <1>3

\* The invariant is preserved.
LEMMA InvStep == IInv /\ [RemovalNext]_removalAllVars => IInv'
<1> USE DEF IInv, RemovalTypeOK, MoveTypeOK, LoopOK, LedOK, StageOK
<1> SUFFICES ASSUME IInv, [RemovalNext]_removalAllVars PROVE IInv'
  OBVIOUS
<1>1. ASSUME NEW p \in Partitions, Describe(p), UNCHANGED removalVars PROVE IInv'
  <2>1. PlannedListsAreSound'
    BY <1>1 DEF Describe, PlannedListsAreSound
  <2>2. led' \subseteq listed'
    BY <1>1 DEF Describe, Matches, NoLeader
  <2>3. RemovalTypeOK'
    BY <1>1, <2>2 DEF Describe
  <2>4. LoopOK' /\ StageOK'
    BY <1>1 DEF Describe
  <2>5. LedOK'
    <3> SUFFICES ASSUME NEW q \in led' PROVE BROKER \in ToSet(replicas[q])
      BY <1>1 DEF Describe
    <3>1. CASE q \in led
      BY <3>1
    <3>2. CASE q \notin led
      <4>1. q = p /\ leader[p] = BROKER
        BY <1>1, <3>2 DEF Describe
      <4> QED
        BY <4>1 DEF NoLeader
    <3> QED
      BY <3>1, <3>2
  <2> QED
    BY <2>1, <2>3, <2>4, <2>5
<1>2. CASE (ListingEnds \/ Finish) /\ UNCHANGED removalVars
  BY <1>2, SamePlan DEF ListingEnds, Finish
<1>3. ASSUME NEW p \in Partitions, GiveUp(p), UNCHANGED removalVars PROVE IInv'
  <2>1. PlannedListsAreSound'
    BY <1>3 DEF GiveUp, PlannedListsAreSound
  <2> QED
    BY <1>3, <2>1 DEF GiveUp
<1>4. ASSUME NEW p \in Partitions, StartDrawing(p), UNCHANGED removalVars PROVE IInv'
  BY <1>4, SamePlan DEF StartDrawing
<1>5. ASSUME NEW p \in Partitions, Keep(p) \/ \E b \in range : Draw(p, b), UNCHANGED removalVars
      PROVE IInv'
  BY <1>5, PlanningStep
<1>6. CASE Execute
  BY <1>6, SamePlan DEF Execute
<1>7. CASE StatusLoop
  BY <1>7, SamePlan DEF StatusLoop
<1>8. ASSUME NEW p \in Partitions, Elect(p), UNCHANGED removalVars PROVE IInv'
  <2>1. leader' \in [Partitions -> Cluster \cup {NoLeader}]
    BY <1>8, ReplicaListFacts DEF Elect, ToSet
  <2>2. \A q \in Partitions : leader'[q] \in ToSet(replicas'[q]) \cup {NoLeader}
    BY <1>8 DEF Elect
  <2> QED
    BY <1>8, <2>1, <2>2, SamePlan DEF Elect
<1>9. ASSUME NEW p \in Partitions, Reassign(p) PROVE IInv'
  BY <1>9, SamePlan DEF Reassign
<1>10. CASE UNCHANGED removalAllVars
  BY <1>10, SamePlan
<1> QED
  BY <1>1, <1>2, <1>3, <1>4, <1>5, <1>6, <1>7, <1>8, <1>9, <1>10
  DEF RemovalNext, RemovalScript, Script

-----------------------------------------------------------------------------
\* The invariant holds in every behaviour of the removal.
THEOREM Invariance == RemovalSpec => []IInv
  BY InvInit, InvStep, PTL DEF RemovalSpec

\* Every variable of the plan and of the removal keeps its type.
THEOREM TypeCorrect == RemovalSpec => []RemovalTypeOK
<1>1. IInv => RemovalTypeOK
  BY DEF IInv
<1> QED
  BY <1>1, Invariance, PTL

\* No planned list repeats a broker, reorders the replicas that stay, or keeps the
\* broker as a replica of what it led (replace_broker, other_broker).
THEOREM SoundLists == RemovalSpec => []PlannedListsAreSound
<1>1. IInv => PlannedListsAreSound
  BY DEF IInv
<1> QED
  BY <1>1, Invariance, PTL

\* A plan that is printed leaves out nothing that kafka-topics.sh found led by the
\* broker, as far as it came, whatever has been elected since.
THEOREM CompletePlan == RemovalSpec => []PlanIsComplete
<1>1. IInv => PlanIsComplete
  BY DEF IInv, RemovalTypeOK, MoveTypeOK, LoopOK, PlanIsComplete
<1> QED
  BY <1>1, Invariance, PTL

\* What Kafka executes has a list for each partition that was listed, although the
\* script goes on without a plan; a listing that failed is not noticed.
THEOREM AllOrNothing == RemovalSpec => []NothingByHalves
<1>1. IInv => NothingByHalves
  BY DEF IInv, RemovalTypeOK, MoveTypeOK, LoopOK, StageOK, NothingByHalves
<1> QED
  BY <1>1, Invariance, PTL

-----------------------------------------------------------------------------
(***************************************************************************)
(* other_broker.  More ids are a longer text, so that a range that is a    *)
(* longer text than a list of replicas has an id that the list has not.    *)
(***************************************************************************)
LEMMA DigitsType == \A i : Digits(i) \in Nat
<1> TAKE i
<1> DEFINE D == {k \in 1..MaxDigits : k = 1 \/ i >= 10 ^ (k - 1)}
<1>1. IsFiniteSet(1..9)
  <2>1. \A n \in Int : IsFiniteSet(1..n)
    BY FS_Interval
  <2> QED
    BY <2>1, 9 \in Int
<1>2. D \in SUBSET (1..9)
  BY DEF MaxDigits
<1> HIDE DEF D
<1>3. Cardinality(D) \in Nat
  BY <1>1, <1>2, FS_Subset, FS_CardinalityType
<1> QED
  BY <1>3 DEF D, Digits

LEMMA CharactersFinite ==
    ASSUME NEW S, IsFiniteSet(S)
    PROVE  IsFiniteSet(Characters(S)) /\ Cardinality(Characters(S)) \in Nat
<1>1. IsFiniteSet(1..MaxDigits + 1)
  <2>1. 1 \in Int /\ MaxDigits + 1 \in Int
    BY DEF MaxDigits
  <2> QED
    BY <2>1, FS_Interval
<1>2. IsFiniteSet(S \X (1..MaxDigits + 1))
  BY <1>1, FS_Product
<1>3. Characters(S) \in SUBSET (S \X (1..MaxDigits + 1))
  BY DEF Characters
<1> QED
  BY <1>2, <1>3, FS_Subset, FS_CardinalityType

LEMMA TextGrows ==
    ASSUME NEW S, NEW T, IsFiniteSet(T), S \subseteq T, T # {}
    PROVE  TextLength(S) <= TextLength(T)
<1>1. IsFiniteSet(S)
  BY FS_Subset
<1>2. /\ IsFiniteSet(Characters(T)) /\ Cardinality(Characters(T)) \in Nat
      /\ Cardinality(Characters(S)) \in Nat
  BY <1>1, CharactersFinite
<1>3. Characters(S) \in SUBSET Characters(T)
  BY DEF Characters
<1>4. Cardinality(Characters(S)) <= Cardinality(Characters(T))
  BY <1>2, <1>3, FS_Subset
<1>5. CASE S # {}
  BY <1>2, <1>4, <1>5 DEF TextLength
<1>6. CASE S = {}
  <2>1. Characters(S) = {}
    BY <1>6 DEF Characters
  <2>2. PICK t \in T : TRUE
    OBVIOUS
  <2>3. <<t, 1>> \in Characters(T)
    BY <2>2, DigitsType DEF Characters, MaxDigits
  <2>4. Cardinality(Characters(S)) = 0 /\ Cardinality(Characters(T)) # 0
    BY <1>2, <2>1, <2>3, FS_EmptySet
  <2> QED
    BY <1>2, <1>6, <2>4 DEF TextLength
<1> QED
  BY <1>5, <1>6

LEMMA ToSetFinite ==
    ASSUME NEW r \in ReplicaLists
    PROVE  IsFiniteSet(ToSet(r)) /\ ToSet(r) # {}
<1>1. r \in [1..Len(r) -> ToSet(r)] /\ Len(r) \in Nat /\ Len(r) # 0
  BY ReplicaListFacts DEF ToSet
<1>2. r \in Surjection(1..Len(r), ToSet(r))
  BY <1>1 DEF Surjection, ToSet
<1>3. IsFiniteSet(1..Len(r))
  BY <1>1, FS_Interval
<1>4. IsFiniteSet(ToSet(r))
  BY <1>2, <1>3, FS_Surjection
<1>5. r[1] \in ToSet(r)
  BY <1>1
<1> QED
  BY <1>4, <1>5

LEMMA OneIsLeft ==
    ASSUME NEW r \in ReplicaLists, ~NoOtherBroker(r)
    PROVE  \E b \in range : b \notin ToSet(r)
<1> SUFFICES ASSUME range \subseteq ToSet(r) PROVE FALSE
  OBVIOUS
<1>1. TextLength(range) <= TextLength(ToSet(r))
  BY ToSetFinite, TextGrows
<1>2. ~(TextLength(ToSet(r)) >= TextLength(range))
  BY DEF NoOtherBroker
<1> QED
  BY <1>1, <1>2

LEMMA DrawStep == IInv /\ DrawCanEnd /\ [RemovalNext]_removalAllVars => DrawCanEnd'
<1> SUFFICES ASSUME IInv, DrawCanEnd, [RemovalNext]_removalAllVars PROVE DrawCanEnd'
  OBVIOUS
<1>1. CASE UNCHANGED <<replicas, range>> /\ cur' \subseteq cur
  BY <1>1 DEF DrawCanEnd
<1>2. ASSUME NEW p \in Partitions, StartDrawing(p) PROVE DrawCanEnd'
  <2>1. ~NoOtherBroker(replicas[p]) /\ cur' = {p} /\ UNCHANGED <<replicas, range>>
    BY <1>2 DEF StartDrawing
  <2>2. replicas[p] \in ReplicaLists
    BY DEF IInv, RemovalTypeOK, MoveTypeOK
  <2> QED
    BY <2>1, <2>2, OneIsLeft DEF DrawCanEnd
<1> QED
  BY <1>1, <1>2
  DEF RemovalNext, RemovalScript, Script, Describe, ListingEnds, Finish, Keep, GiveUp, Draw, Execute,
      StatusLoop, Elect, Reassign

\* other_broker always finds a broker once it has begun to draw, whatever the ids
\* and however many digits they have (kafka-move-leadership.sh:214-229).
THEOREM DrawsEnd == RemovalSpec => []DrawCanEnd
<1>1. RemovalInit => DrawCanEnd
  BY DEF RemovalInit, MoveInit, DrawCanEnd
<1> QED
  BY <1>1, DrawStep, Invariance, PTL DEF RemovalSpec

-----------------------------------------------------------------------------
(***************************************************************************)
(* Run move_leadership_prefix finds the broker that goes in a new list.    *)
(* That takes a broker whose id begins with the digits of its id: without  *)
(* one, nothing is listed that the broker does not lead.                   *)
(***************************************************************************)
NoLongerId == \A b \in Cluster : Matches(b) => b = BROKER

OnlyLed == /\ listed \subseteq led
           /\ \A p \in Partitions : plan[p] # <<>> => p \in listed

LEMMA OnlyLedStep ==
    NoLongerId /\ IInv /\ OnlyLed /\ [RemovalNext]_removalAllVars => OnlyLed'
<1> SUFFICES ASSUME NoLongerId, IInv, OnlyLed, [RemovalNext]_removalAllVars PROVE OnlyLed'
  OBVIOUS
<1>1. CASE UNCHANGED <<listed, led, plan>>
  BY <1>1 DEF OnlyLed
<1>2. ASSUME NEW p \in Partitions, Describe(p) PROVE OnlyLed'
  <2>1. listed' \subseteq led'
    <3>1. leader[p] \in Cluster \cup {NoLeader}
      BY DEF IInv, RemovalTypeOK, MoveTypeOK
    <3> QED
      BY <1>2, <3>1 DEF Describe, NoLongerId, OnlyLed
  <2>2. plan' = plan /\ \A q \in Partitions : plan[q] = <<>>
    BY <1>2 DEF Describe, IInv, LoopOK
  <2> QED
    BY <2>1, <2>2 DEF OnlyLed
<1>3. ASSUME NEW p \in Partitions, Keep(p) \/ GiveUp(p) \/ \E b \in range : Draw(p, b)
      PROVE  OnlyLed'
  <2>1. /\ p \in listed /\ UNCHANGED <<listed, led>>
        /\ \A q \in Partitions \ {p} : plan'[q] = plan[q] \/ plan'[q] = <<>>
    BY <1>3 DEF Keep, GiveUp, Draw, IInv, RemovalTypeOK, MoveTypeOK
  <2> QED
    BY <2>1 DEF OnlyLed
<1> QED
  BY <1>1, <1>2, <1>3
  DEF RemovalNext, RemovalScript, Script, ListingEnds, Finish, StartDrawing, Execute, StatusLoop, Elect,
      Reassign

\* The broker that goes is given nothing if no other id begins with the digits of its
\* id (kafka-move-leadership.sh:73-74, 224, 279).
THEOREM ExcludedByItsId == NoLongerId => (RemovalSpec => []BrokerIsExcluded)
<1> SUFFICES ASSUME NoLongerId PROVE RemovalSpec => []BrokerIsExcluded
  OBVIOUS
<1>1. RemovalInit => OnlyLed
  BY DEF RemovalInit, MoveInit, OnlyLed
<1>2. IInv /\ OnlyLed /\ [RemovalNext]_removalAllVars => OnlyLed'
  BY OnlyLedStep
<1>3. IInv /\ OnlyLed => BrokerIsExcluded
  <2> SUFFICES ASSUME IInv, OnlyLed, NEW p \in Partitions PROVE BROKER \notin ToSet(plan[p])
    BY DEF BrokerIsExcluded
  <2>1. CASE plan[p] = <<>>
    BY <2>1 DEF ToSet
  <2>2. CASE plan[p] # <<>>
    BY <2>2 DEF OnlyLed, IInv, PlannedListsAreSound
  <2> QED
    BY <2>1, <2>2
<1> QED
  BY <1>1, <1>2, <1>3, Invariance, PTL DEF RemovalSpec
===============================================================================
