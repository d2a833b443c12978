------------------------ MODULE TaskScheduler_proofs ------------------------
(***************************************************************************)
(* Proofs about TaskScheduler: for every set of plugins and every          *)
(* dependency graph, the list a call returns is sound.                     *)
(***************************************************************************)
EXTENDS TaskScheduler, FiniteSetTheorems, TLAPS

(***************************************************************************)
(* The inductive invariant.  While the layers are built, the list is       *)
(* closed under dependencies and disjoint from what is left: that is why a *)
(* new layer cannot disturb the order of the plugins behind it.            *)
(***************************************************************************)
NothingScheduledYet == pc = "add_dependencies" => scheduled = << >>

LeftOverApart == pc = "shuffle" =>
    /\ remaining \subseteq Plugins
    /\ remaining \cap InOrder(scheduled) = {}

OrderInv ==
    /\ Distinct(scheduled)
    /\ DependenciesIncluded(scheduled)
    /\ (pc = "done" => FileTypeIndependent) => DependencyPreserving(scheduled)

IInv == TypeOK /\ NothingScheduledYet /\ LeftOverApart /\ OrderInv

(***************************************************************************)
(* A shuffled layer is a list of plugins.                                  *)
(***************************************************************************)
LEMMA ShuffleIsList ==
    ASSUME NEW S, S \subseteq Plugins, NEW layer \in Shuffles(S)
    PROVE  /\ layer \in Seq(Plugins)
           /\ InOrder(layer) = S
           /\ Distinct(layer)
<1>1. IsFiniteSet(S)
  BY PluginsAssumption, FS_Subset
<1>2. Cardinality(S) \in Nat
  BY <1>1, FS_CardinalityType
<1> QED
  BY <1>2 DEF Shuffles

(***************************************************************************)
(* The elements of a concatenation, by position.                           *)
(***************************************************************************)
LEMMA InFront ==
    ASSUME NEW s \in Seq(Plugins), NEW t \in Seq(Plugins)
    PROVE  /\ s \o t \in Seq(Plugins)
           /\ DOMAIN (s \o t) = 1..(Len(s) + Len(t))
           /\ \A i \in 1..Len(s) : (s \o t)[i] = s[i]
           /\ \A i \in (Len(s) + 1)..(Len(s) + Len(t)) :
                    /\ i - Len(s) \in 1..Len(t)
                    /\ (s \o t)[i] = t[i - Len(s)]
           /\ InOrder(s \o t) = InOrder(s) \cup InOrder(t)
<1>1. /\ s \o t \in Seq(Plugins)
      /\ Len(s) \in Nat /\ Len(t) \in Nat
      /\ DOMAIN s = 1..Len(s) /\ DOMAIN t = 1..Len(t)
      /\ Len(s \o t) = Len(s) + Len(t)
      /\ DOMAIN (s \o t) = 1..(Len(s) + Len(t))
  OBVIOUS
<1>2. \A i \in 1..Len(s) : (s \o t)[i] = s[i]
  OBVIOUS
<1>3. \A i \in (Len(s) + 1)..(Len(s) + Len(t)) :
            /\ i - Len(s) \in 1..Len(t)
            /\ (s \o t)[i] = t[i - Len(s)]
  OBVIOUS
<1>4. InOrder(s \o t) \subseteq InOrder(s) \cup InOrder(t)
  <2>1. SUFFICES ASSUME NEW i \in 1..(Len(s) + Len(t))
                 PROVE  (s \o t)[i] \in InOrder(s) \cup InOrder(t)
    BY <1>1 DEF InOrder
  <2>2. CASE i \in 1..Len(s)
    BY <2>2, <1>1, <1>2 DEF InOrder
  <2>3. CASE i \in (Len(s) + 1)..(Len(s) + Len(t))
    BY <2>3, <1>1, <1>3 DEF InOrder
  <2> QED
    BY <2>2, <2>3, <1>1
<1>5. InOrder(s) \subseteq InOrder(s \o t)
  <2>1. SUFFICES ASSUME NEW i \in 1..Len(s)
                 PROVE  s[i] \in InOrder(s \o t)
    BY <1>1 DEF InOrder
  <2>2. i \in DOMAIN (s \o t) /\ (s \o t)[i] = s[i]
    BY <1>1, <1>2
  <2> QED
    BY <2>2 DEF InOrder
<1>6. InOrder(t) \subseteq InOrder(s \o t)
  <2>1. SUFFICES ASSUME NEW i \in 1..Len(t)
                 PROVE  t[i] \in InOrder(s \o t)
    BY <1>1 DEF InOrder
  <2>2. /\ Len(s) + i \in DOMAIN (s \o t)
        /\ Len(s) + i \in (Len(s) + 1)..(Len(s) + Len(t))
        /\ (Len(s) + i) - Len(s) = i
    BY <1>1
  <2>3. (s \o t)[Len(s) + i] = t[i]
    BY <2>2, <1>3
  <2> QED
    BY <2>2, <2>3 DEF InOrder
<1> QED
  BY <1>1, <1>2, <1>3, <1>4, <1>5, <1>6

(***************************************************************************)
(* A layer in front of a sound list is sound when its plugins' dependencies*)
(* are all behind it and none of its plugins is.                           *)
(***************************************************************************)
LEMMA LayerKeepsOrder ==
    ASSUME dependencies \in [Plugins -> SUBSET Names],
           NEW s \in Seq(Plugins), NEW t \in Seq(Plugins),
           Distinct(s), Distinct(t), InOrder(s) \cap InOrder(t) = {},
           \A p \in InOrder(s) : dependencies[p] \subseteq InOrder(t),
           DependenciesIncluded(t)
    PROVE  /\ Distinct(s \o t)
           /\ DependenciesIncluded(s \o t)
           /\ DependencyPreserving(t) => DependencyPreserving(s \o t)
<1> DEFINE u == s \o t
<1>1. /\ DOMAIN u = 1..(Len(s) + Len(t))
      /\ DOMAIN s = 1..Len(s) /\ DOMAIN t = 1..Len(t)
      /\ Len(s) \in Nat /\ Len(t) \in Nat
      /\ \A i \in 1..Len(s) : u[i] = s[i]
      /\ \A i \in (Len(s) + 1)..(Len(s) + Len(t)) :
             /\ i - Len(s) \in 1..Len(t)
             /\ u[i] = t[i - Len(s)]
      /\ InOrder(u) = InOrder(s) \cup InOrder(t)
  BY InFront
<1>2. \A i \in 1..Len(s) : u[i] \in InOrder(s)
  BY <1>1 DEF InOrder
<1>3. \A i \in (Len(s) + 1)..(Len(s) + Len(t)) : u[i] \in InOrder(t)
  BY <1>1 DEF InOrder
<1>4. Distinct(u)
  <2>1. SUFFICES ASSUME NEW i \in 1..(Len(s) + Len(t)),
                        NEW j \in 1..(Len(s) + Len(t)), u[i] = u[j]
                 PROVE  i = j
    BY <1>1 DEF Distinct
  <2>2. CASE i <= Len(s) /\ j <= Len(s)
    BY <2>1, <2>2, <1>1 DEF Distinct
  <2>3. CASE i > Len(s) /\ j > Len(s)
    <3>1. t[i - Len(s)] = t[j - Len(s)]
      BY <2>1, <2>3, <1>1
    <3>2. i - Len(s) = j - Len(s)
      <4>1. i - Len(s) \in DOMAIN t /\ j - Len(s) \in DOMAIN t
        BY <2>3, <1>1
      <4> QED
        BY <3>1, <4>1 DEF Distinct
    <3> QED
      BY <3>2, <1>1
  <2>4. CASE i <= Len(s) /\ j > Len(s)
    BY <2>1, <2>4, <1>1, <1>2, <1>3
  <2>5. CASE i > Len(s) /\ j <= Len(s)
    BY <2>1, <2>5, <1>1, <1>2, <1>3
  <2> QED
    BY <2>2, <2>3, <2>4, <2>5, <1>1
<1>5. DependenciesIncluded(u)
  BY <1>1 DEF DependenciesIncluded
<1>6. ASSUME DependencyPreserving(t) PROVE DependencyPreserving(u)
  <2>1. SUFFICES ASSUME NEW i \in 1..(Len(s) + Len(t)),
                        NEW j \in 1..(Len(s) + Len(t)),
                        u[j] \in dependencies[u[i]]
                 PROVE  i < j
    BY <1>1 DEF DependencyPreserving
  <2>2. CASE i <= Len(s)
    <3>1. u[j] \in InOrder(t)
      BY <2>1, <2>2, <1>1, <1>2
    <3>2. ~ j <= Len(s)
      BY <3>1, <1>1, <1>2
    <3> QED
      BY <3>2, <2>2, <1>1
  <2>3. CASE i > Len(s)
    <3>1. u[i] \in InOrder(t)
      BY <2>3, <1>1, <1>3
    <3>2. u[j] \in InOrder(t)
      BY <3>1, <2>1 DEF DependenciesIncluded
    <3>3. ~ j <= Len(s)
      BY <3>2, <1>1, <1>2
    <3>4. t[j - Len(s)] \in dependencies[t[i - Len(s)]]
      BY <2>1, <2>3, <3>3, <1>1
    <3>5. i - Len(s) < j - Len(s)
      BY <3>4, <3>3, <2>3, <1>1, <1>6 DEF DependencyPreserving
    <3> QED
      BY <3>5, <1>1
  <2> QED
    BY <2>2, <2>3, <1>1
<1> QED
  BY <1>4, <1>5, <1>6

(***************************************************************************)
(* Moving file_type to the end permutes the list and, since file_type      *)
(* depends on nothing, keeps it dependency preserving.                     *)
(***************************************************************************)
LEMMA FileTypeFirstKeepsOrder ==
    ASSUME NEW s \in Seq(Plugins), Distinct(s)
    PROVE  /\ FileTypeFirst(s) \in Seq(Plugins)
           /\ Distinct(FileTypeFirst(s))
           /\ InOrder(FileTypeFirst(s)) = InOrder(s)
           /\ DependencyPreserving(s) /\ FileTypeIndependent
                => DependencyPreserving(FileTypeFirst(s))
<1>1. CASE FileType \notin InOrder(s)
  BY <1>1 DEF FileTypeFirst
<1>2. CASE FileType \in InOrder(s)
  <2> DEFINE k == CHOOSE i \in DOMAIN s : s[i] = FileType
             pos(i) == IF i < k THEN i ELSE IF i < Len(s) THEN i + 1 ELSE k
             r == FileTypeFirst(s)
  <2>1. /\ DOMAIN s = 1..Len(s) /\ Len(s) \in Nat
        /\ \A i \in 1..Len(s) : s[i] \in Plugins
    OBVIOUS
  <2>2. k \in 1..Len(s) /\ s[k] = FileType
    <3>1. \E i \in DOMAIN s : s[i] = FileType
      BY <1>2 DEF InOrder
    <3> QED
      BY <3>1, <2>1
  <2>3. r = [i \in 1..Len(s) |-> IF i < k THEN s[i]
                                ELSE IF i < Len(s) THEN s[i + 1]
                                ELSE FileType]
    BY <1>2, <2>1 DEF FileTypeFirst
  <2> HIDE DEF k, r
  <2>4. /\ DOMAIN r = 1..Len(s)
        /\ \A i \in 1..Len(s) : pos(i) \in 1..Len(s) /\ r[i] = s[pos(i)]
    BY <2>1, <2>2, <2>3
  <2>5. r \in Seq(Plugins)
    <3>1. r \in [1..Len(s) -> Plugins]
      BY <2>1, <2>2, <2>3
    <3> QED
      BY <3>1, <2>1
  <2>6. \A i, j \in 1..Len(s) : pos(i) = pos(j) => i = j
    BY <2>1, <2>2
  <2>7. \A m \in 1..Len(s) : \E i \in 1..Len(s) : pos(i) = m
    <3>1. TAKE m \in 1..Len(s)
    <3>2. CASE m < k
      BY <3>2, <2>1, <2>2
    <3>3. CASE m = k
      <4>1. k \in Int /\ Len(s) \in 1..Len(s) /\ ~ Len(s) < k /\ ~ Len(s) < Len(s)
        BY <2>1, <2>2
      <4>2. pos(Len(s)) = k
        BY <4>1
      <4> QED
        BY <4>1, <4>2, <3>3
    <3>4. CASE m > k
      <4>1. pos(m - 1) = m /\ m - 1 \in 1..Len(s)
        BY <3>4, <2>1, <2>2
      <4> QED
        BY <4>1
    <3> QED
      BY <3>2, <3>3, <3>4, <2>1, <2>2
  <2>8. Distinct(r)
    <3>1. SUFFICES ASSUME NEW i \in 1..Len(s), NEW j \in 1..Len(s), r[i] = r[j]
                   PROVE  i = j
      BY <2>4 DEF Distinct
    <3>2. s[pos(i)] = s[pos(j)] /\ pos(i) \in 1..Len(s) /\ pos(j) \in 1..Len(s)
      BY <3>1, <2>4
    <3>3. pos(i) = pos(j)
      BY <3>2, <2>1 DEF Distinct
    <3> QED
      BY <3>3, <2>6
  <2>9. InOrder(r) = InOrder(s)
    <3> HIDE DEF pos
    <3>1. InOrder(r) \subseteq InOrder(s)
      BY <2>1, <2>4 DEF InOrder
    <3>2. SUFFICES ASSUME NEW m \in 1..Len(s)
                   PROVE  s[m] \in InOrder(r)
      BY <2>1, <3>1 DEF InOrder
    <3>3. PICK i \in 1..Len(s) : pos(i) = m
      BY <2>7
    <3>4. r[i] = s[m]
      BY <3>3, <2>4
    <3> QED
      BY <3>4, <2>4 DEF InOrder
  <2>10. ASSUME DependencyPreserving(s), FileTypeIndependent
         PROVE  DependencyPreserving(r)
    <3>1. SUFFICES ASSUME NEW i \in 1..Len(s), NEW j \in 1..Len(s),
                          r[j] \in dependencies[r[i]]
                   PROVE  i < j
      BY <2>4 DEF DependencyPreserving
    <3>2. r[i] # FileType
      BY <3>1, <2>10 DEF FileTypeIndependent
    <3>3. i < Len(s)
      BY <3>2, <2>1, <2>2, <2>3
    <3>4. s[pos(j)] \in dependencies[s[pos(i)]]
      BY <3>1, <2>4
    <3>5. pos(i) < pos(j)
      <4> HIDE DEF pos
      <4> QED
        BY <3>4, <2>1, <2>4, <2>10 DEF DependencyPreserving
    <3> QED
      BY <3>3, <3>5, <2>1, <2>2
  <2> QED
    BY <2>5, <2>8, <2>9, <2>10 DEF r
<1> QED
  BY <1>1, <1>2

----------------------------------------------------------------------------
(***************************************************************************)
(* The invariant holds initially and every step keeps it.                  *)
(***************************************************************************)
LEMMA InitIInv == Init => IInv
<1>1. << >> \in Seq(Plugins) /\ DOMAIN << >> = {}
  OBVIOUS
<1> QED
  BY <1>1 DEF Init, IInv, TypeOK, NothingScheduledYet, LeftOverApart, OrderInv,
      Distinct, DependenciesIncluded, DependencyPreserving, InOrder

LEMMA NextIInv == IInv /\ [Next]_vars => IInv'
<1> SUFFICES ASSUME IInv, [Next]_vars PROVE IInv'
  OBVIOUS
<1> USE DEF IInv, NothingScheduledYet, LeftOverApart
<1>1. CASE UnknownPlugin
  BY <1>1 DEF UnknownPlugin, TypeOK, OrderInv, Distinct, DependenciesIncluded,
      DependencyPreserving, InOrder, FileTypeIndependent
<1>2. CASE AddDependenciesRound
  <2>1. remaining' \subseteq Names
    BY <1>2 DEF AddDependenciesRound, RemainingDependencies, TypeOK
  <2> QED
    BY <1>2, <2>1 DEF AddDependenciesRound, TypeOK, OrderInv, Distinct,
        DependenciesIncluded, DependencyPreserving, InOrder, FileTypeIndependent
<1>3. CASE StartShuffle
  <2>1. scheduled' = << >> /\ InOrder(scheduled') = {}
    BY <1>3 DEF StartShuffle, InOrder
  <2>2. remaining' \subseteq Plugins
    BY <1>3, MandatoryAssumption DEF StartShuffle
  <2> QED
    BY <1>3, <2>1, <2>2 DEF StartShuffle, TypeOK, Names, OrderInv, Distinct,
        DependenciesIncluded, DependencyPreserving, InOrder, FileTypeIndependent
<1>4. CASE PrependLayer
  <2> DEFINE next == MetDependencies(remaining, InOrder(scheduled))
  <2>1. /\ pc = "shuffle" /\ pc' = "shuffle"
        /\ dependencies' = dependencies
        /\ requested' = requested /\ mandatory' = mandatory
        /\ remaining' = remaining \ next
        /\ next \subseteq remaining
        /\ \A p \in next : dependencies[p] \subseteq InOrder(scheduled)
    BY <1>4 DEF PrependLayer, MetDependencies
  <2>2. PICK layer \in Shuffles(next) : scheduled' = layer \o scheduled
    BY <1>4 DEF PrependLayer
  <2> HIDE DEF next
  <2>3. layer \in Seq(Plugins) /\ InOrder(layer) = next /\ Distinct(layer)
    BY <2>1, <2>2, ShuffleIsList
  <2>4. scheduled' \in Seq(Plugins)
        /\ InOrder(scheduled') = next \cup InOrder(scheduled)
    BY <2>2, <2>3, InFront DEF TypeOK
  <2>5. /\ Distinct(layer \o scheduled)
        /\ DependenciesIncluded(layer \o scheduled)
        /\ DependencyPreserving(layer \o scheduled)
    BY <2>1, <2>3, LayerKeepsOrder DEF TypeOK, OrderInv
  <2>6. OrderInv'
    <3>1. PICK new : new = layer \o scheduled
      OBVIOUS
    <3>2. Distinct(new) /\ DependenciesIncluded(new) /\ DependencyPreserving(new)
      BY <2>5, <3>1
    <3>3. dependencies' = dependencies /\ scheduled' = new
      BY <2>1, <2>2, <3>1
    <3> QED
      BY <2>1, <2>2, <3>2, <3>3 DEF OrderInv, Distinct, DependenciesIncluded,
        DependencyPreserving, InOrder
  <2> QED
    BY <2>1, <2>4, <2>6 DEF TypeOK, Names, InOrder
<1>5. CASE EndShuffle
  BY <1>5 DEF EndShuffle, TypeOK, OrderInv, Distinct, DependenciesIncluded,
      DependencyPreserving, InOrder, FileTypeIndependent
<1>6. CASE PutFileTypeFirst
  <2>1. /\ pc = "file_type" /\ pc' = "done"
        /\ dependencies' = dependencies
        /\ requested' = requested /\ mandatory' = mandatory
        /\ remaining' = remaining
        /\ scheduled' = FileTypeFirst(scheduled)
    BY <1>6 DEF PutFileTypeFirst
  <2>2. /\ scheduled' \in Seq(Plugins)
        /\ Distinct(scheduled')
        /\ InOrder(scheduled') = InOrder(scheduled)
        /\ FileTypeIndependent => DependencyPreserving(FileTypeFirst(scheduled))
    BY <2>1, FileTypeFirstKeepsOrder DEF TypeOK, OrderInv
  <2>3. OrderInv'
    BY <2>1, <2>2 DEF OrderInv, Distinct, DependenciesIncluded,
        DependencyPreserving, InOrder, FileTypeIndependent
  <2> QED
    BY <2>1, <2>2, <2>3 DEF TypeOK
<1>7. CASE UNCHANGED vars
  BY <1>7 DEF vars, TypeOK, OrderInv, Distinct, DependenciesIncluded,
      DependencyPreserving, InOrder, FileTypeIndependent
<1> QED
  BY <1>1, <1>2, <1>3, <1>4, <1>5, <1>6, <1>7 DEF Next

(***************************************************************************)
(* schedule_analysis_tasks returns a duplicate-free, dependency-preserving *)
(* list that is closed under dependencies, for every set of plugins, every *)
(* dependency graph and every request.                                     *)
(***************************************************************************)
THEOREM SoundOrderTheorem == Spec => []SoundOrder
<1>1. IInv => SoundOrder
  BY DEF IInv, OrderInv, SoundOrder
<1> QED
  BY <1>1, InitIInv, NextIInv, PTL DEF Spec

(***************************************************************************)
(* Type correctness of the planning loops.                                 *)
(***************************************************************************)
THEOREM TypeTheorem == Spec => []TypeOK
<1>1. IInv => TypeOK
  BY DEF IInv
<1> QED
  BY <1>1, InitIInv, NextIInv, PTL DEF Spec

----------------------------------------------------------------------------
(***************************************************************************)
(* What is dropped.  Without the mandatory plugins, what the loops work on *)
(* is closed under dependencies once it has been shuffled; a plugin that is*)
(* left over therefore misses a dependency that is left over too.          *)
(***************************************************************************)
ClosedWhileShuffled == pc = "shuffle" /\ ~ mandatory =>
    \A p \in remaining : dependencies[p] \subseteq remaining \cup InOrder(scheduled)

BlockedInv == ClosedWhileShuffled /\ OnlyBlockedPluginsDropped

LEMMA InitBlocked == Init => BlockedInv
  BY DEF Init, BlockedInv, ClosedWhileShuffled, OnlyBlockedPluginsDropped

LEMMA NextBlocked == IInv /\ BlockedInv /\ [Next]_vars => BlockedInv'
<1> SUFFICES ASSUME IInv, BlockedInv, [Next]_vars PROVE BlockedInv'
  OBVIOUS
<1> USE DEF BlockedInv, ClosedWhileShuffled
<1>1. CASE UnknownPlugin
  BY <1>1 DEF UnknownPlugin, OnlyBlockedPluginsDropped
<1>2. CASE AddDependenciesRound
  BY <1>2 DEF AddDependenciesRound, OnlyBlockedPluginsDropped
<1>3. CASE StartShuffle
  <2>1. \A p \in remaining : dependencies[p] \subseteq remaining
    BY <1>3 DEF StartShuffle, RemainingDependencies
  <2> QED
    BY <1>3, <2>1 DEF StartShuffle, OnlyBlockedPluginsDropped
<1>4. CASE PrependLayer
  <2> DEFINE next == MetDependencies(remaining, InOrder(scheduled))
  <2>1. /\ pc = "shuffle" /\ pc' = "shuffle"
        /\ dependencies' = dependencies /\ mandatory' = mandatory
        /\ remaining' = remaining \ next
        /\ next \subseteq remaining
    BY <1>4 DEF PrependLayer, MetDependencies
  <2>2. PICK layer \in Shuffles(next) : scheduled' = layer \o scheduled
    BY <1>4 DEF PrependLayer
  <2> HIDE DEF next
  <2>3. layer \in Seq(Plugins) /\ InOrder(layer) = next
    BY <2>1, <2>2, ShuffleIsList DEF IInv, LeftOverApart
  <2>4. InOrder(scheduled') = next \cup InOrder(scheduled)
    BY <2>2, <2>3, InFront DEF IInv, TypeOK
  <2>5. InOrder(scheduled)' = InOrder(scheduled')
    BY DEF InOrder
  <2> QED
    BY <2>1, <2>4, <2>5 DEF OnlyBlockedPluginsDropped
<1>5. CASE EndShuffle
  <2>1. /\ pc = "shuffle" /\ pc' = "file_type"
        /\ dependencies' = dependencies /\ mandatory' = mandatory
        /\ remaining' = remaining /\ scheduled' = scheduled
        /\ MetDependencies(remaining, InOrder(scheduled)) = {}
    BY <1>5 DEF EndShuffle
  <2>2. InOrder(scheduled)' = InOrder(scheduled)
    BY <2>1 DEF InOrder
  <2>3. \A p \in remaining :
            /\ dependencies[p] \subseteq Names
            /\ ~ dependencies[p] \subseteq InOrder(scheduled)
    BY <2>1 DEF MetDependencies, IInv, LeftOverApart, TypeOK
  <2>4. \A p \in remaining :
            dependencies[p] \cap (remaining \cup (Names \ InOrder(scheduled))) # {}
    BY <2>3
  <2>5. ~ mandatory => \A p \in remaining : dependencies[p] \cap remaining # {}
    BY <2>1, <2>3
  <2> QED
    BY <2>1, <2>2, <2>4, <2>5 DEF OnlyBlockedPluginsDropped, Names
<1>6. CASE PutFileTypeFirst
  <2>1. /\ pc = "file_type" /\ pc' = "done"
        /\ dependencies' = dependencies /\ mandatory' = mandatory
        /\ remaining' = remaining
        /\ scheduled' = FileTypeFirst(scheduled)
    BY <1>6 DEF PutFileTypeFirst
  <2>2. InOrder(scheduled') = InOrder(scheduled)
    BY <2>1, FileTypeFirstKeepsOrder DEF IInv, TypeOK, OrderInv
  <2>3. InOrder(scheduled)' = InOrder(scheduled')
    BY DEF InOrder
  <2> QED
    BY <2>1, <2>2, <2>3 DEF OnlyBlockedPluginsDropped, Names
<1>7. CASE UNCHANGED vars
  <2>1. InOrder(scheduled)' = InOrder(scheduled)
    BY <1>7 DEF vars, InOrder
  <2> QED
    BY <1>7, <2>1 DEF vars, OnlyBlockedPluginsDropped, Names
<1> QED
  BY <1>1, <1>2, <1>3, <1>4, <1>5, <1>6, <1>7 DEF Next

(***************************************************************************)
(* _smart_shuffle leaves a plugin out only when one of its dependencies is *)
(* left out or was never added; for a request without the mandatory plugins*)
(* only when one is left out, so that every dropped plugin leads to a cycle*)
(* of dependencies.                                                        *)
(***************************************************************************)
THEOREM OnlyBlockedPluginsDroppedTheorem == Spec => []OnlyBlockedPluginsDropped
<1>1. BlockedInv => OnlyBlockedPluginsDropped
  BY DEF BlockedInv
<1> QED
  BY <1>1, InitIInv, NextIInv, InitBlocked, NextBlocked, PTL DEF Spec
============================================================================
