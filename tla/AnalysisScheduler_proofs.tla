---------------------- MODULE AnalysisScheduler_proofs ----------------------
(***************************************************************************)
(* For any set of tasks, plugins, requests, dependencies and threads: no   *)
(* hand-over between the queues, the plugins' workers, the schedule process*)
(* and the result collector loses or doubles a task (InOnePlace), the      *)
(* dependencies of a plugin are respected (DependenciesRespected), its     *)
(* results are stored (ResultsStoredUnlessDependencyFailed) and up to date *)
(* (UpToDateWhenCompleted), and the whole is the service of module         *)
(* AnalysisService (ImplementsService).                                    *)
(*                                                                         *)
(* First, what the loops of scheduler/task_scheduler.py compute, for any   *)
(* plugins and dependencies: a plan is a list without repetitions in which *)
(* every plugin runs after the plugins it depends on, and none of them is  *)
(* missing (PlansAreSound).  The loops are recursive functions here; that  *)
(* they have the values their equations give is shown by induction over    *)
(* the number of plugins that are left.                                    *)
(***************************************************************************)
EXTENDS AnalysisScheduler, Integers, FiniteSetTheorems, WellFoundedInduction, TLAPS

-----------------------------------------------------------------------------
(* The plans of the task scheduler.                                        *)

\* Finitely many plugins, and every dependency is one of them.
PluginsKnown ==
    IsFiniteSet(Plugins) /\ Dependencies \in [Plugins -> SUBSET Plugins]

(***************************************************************************)
(* Induction over the natural numbers, for a set of them.                  *)
(***************************************************************************)
LEMMA NatInd ==
    ASSUME NEW S \in SUBSET Nat, 0 \in S, \A n \in S : n + 1 \in S
    PROVE  S = Nat
<1> SUFFICES ASSUME S # Nat PROVE FALSE
  OBVIOUS
<1> DEFINE T == Nat \ S
           R == OpToRel(<, Nat)
<1>1. T \subseteq Nat /\ T # {}
  OBVIOUS
<1>2. IsWellFoundedOn(R, Nat)
  BY NatLessThanWellFounded
<1>3. \A a, b \in Nat : <<a, b>> \in R <=> a < b
  BY DEF OpToRel
<1> HIDE DEF R, T
<1>4. PICK x \in T : \A y \in T : <<y, x>> \notin R
  BY <1>1, <1>2, WFMin
<1>5. x \in Nat /\ \A y \in T : ~ (y < x)
  BY <1>1, <1>3, <1>4
<1>6. x # 0
  BY DEF T
<1>7. x - 1 \in Nat /\ x - 1 < x /\ (x - 1) + 1 = x
  BY <1>5, <1>6
<1>8. x - 1 \in S
  BY <1>5, <1>7 DEF T
<1> QED
  BY <1>4, <1>7, <1>8 DEF T

\* The sets of fewer than n plugins.
Small(n) == {r \in SUBSET Plugins : Cardinality(r) < n}

LEMMA SmallFacts ==
    ASSUME IsFiniteSet(Plugins)
    PROVE  /\ Small(0) = {}
           /\ \A n \in Nat : Small(n) \subseteq Small(n + 1)
           /\ Small(Cardinality(Plugins) + 1) = SUBSET Plugins
           /\ Cardinality(Plugins) + 1 \in Nat
           /\ \A n \in Nat : \A r \in Small(n + 1) : \A x \in SUBSET r :
                x # r => x \in Small(n)
<1>1. ASSUME NEW r \in SUBSET Plugins
      PROVE  /\ IsFiniteSet(r) /\ Cardinality(r) \in Nat
             /\ Cardinality(r) <= Cardinality(Plugins)
  BY <1>1, FS_Subset, FS_CardinalityType
<1>2. Cardinality(Plugins) \in Nat
  BY FS_CardinalityType
<1>3. ASSUME NEW n \in Nat, NEW r \in Small(n + 1), NEW x \in SUBSET r, x # r
      PROVE  x \in Small(n)
  <2>1. Cardinality(x) <= Cardinality(r) /\ Cardinality(x) # Cardinality(r)
    BY <1>1, <1>3, FS_Subset DEF Small
  <2> QED
    BY <1>1, <1>3, <2>1 DEF Small
<1> QED
  BY <1>1, <1>2, <1>3 DEF Small

----------------------------------------------------------------------------
(* The recursion of Layered ends. *)

\* One round of the loop, with f for what the rounds after it return.
Joined(laters, layers) == {later \o layer : later \in laters, layer \in layers}

Layers(f, r, s) ==
    LET next == MetDependencies(r, s) IN
    IF next = {} THEN {<< >>} ELSE Joined(f[r \ next][s \cup next], Shuffles(next))

Round(f, r) == [s \in SUBSET Plugins |-> Layers(f, r, s)]

LEMMA JoinedFacts ==
    ASSUME NEW laters, NEW layers, NEW list \in Joined(laters, layers)
    PROVE  \E later \in laters, layer \in layers : list = later \o layer
  BY DEF Joined

LEMMA RoundDependsOnLess ==
    ASSUME NEW f, NEW g, NEW r \in SUBSET Plugins,
           \A x \in SUBSET r : x # r => f[x] = g[x]
    PROVE  Round(f, r) = Round(g, r)
<1> SUFFICES ASSUME NEW s \in SUBSET Plugins PROVE Layers(f, r, s) = Layers(g, r, s)
  BY DEF Round
<1> DEFINE next == MetDependencies(r, s)
<1>1. next \subseteq r
  BY DEF MetDependencies
<1>2. CASE next = {}
  BY <1>2 DEF Layers
<1>3. CASE next # {}
  <2>1. f[r \ next] = g[r \ next]
    BY <1>1, <1>3
  <2> QED
    BY <1>3, <2>1 DEF Layers
<1> QED
  BY <1>2, <1>3

LEMMA LayeredUnfolds ==
    ASSUME IsFiniteSet(Plugins), NEW r \in SUBSET Plugins
    PROVE  Layered[r] = Round(Layered, r)
<1> DEFINE Solves(f, n) == f = [x \in Small(n) |-> Round(f, x)]
           N == {n \in Nat : \E f : Solves(f, n)}
<1>1. 0 \in N
  <2>1. Solves([x \in {} |-> x], 0)
    BY SmallFacts
  <2> QED
    BY <2>1
<1>2. ASSUME NEW n \in N PROVE n + 1 \in N
  <2>1. n \in Nat
    OBVIOUS
  <2>2. PICK f : Solves(f, n)
    OBVIOUS
  <2> DEFINE g == [x \in Small(n + 1) |-> Round(f, x)]
  <2>3. \A x \in Small(n) : x \in Small(n + 1) /\ f[x] = Round(f, x)
    BY <2>1, <2>2, SmallFacts
  <2>4. \A x \in Small(n) : g[x] = f[x]
    BY <2>3
  <2>5. ASSUME NEW x \in Small(n + 1) PROVE Round(f, x) = Round(g, x)
    <3>1. x \in SUBSET Plugins
      BY DEF Small
    <3>2. \A y \in SUBSET x : y # x => f[y] = g[y]
      BY <2>1, <2>4, SmallFacts
    <3> HIDE DEF g
    <3> QED
      BY <3>1, <3>2, RoundDependsOnLess
  <2>6. Solves(g, n + 1)
    BY <2>5
  <2>7. n + 1 \in Nat
    BY <2>1
  <2> HIDE DEF Solves, g
  <2> QED
    BY <2>6, <2>7
<1>3. N = Nat
  <2> HIDE DEF N
  <2>1. N \in SUBSET Nat
    BY DEF N
  <2> QED
    BY <1>1, <1>2, <2>1, NatInd
<1>4. PICK f : f = [x \in SUBSET Plugins |-> Round(f, x)]
  <2>1. Cardinality(Plugins) + 1 \in N
    BY <1>3, SmallFacts
  <2>2. PICK f : Solves(f, Cardinality(Plugins) + 1)
    BY <2>1
  <2>3. f = [x \in SUBSET Plugins |-> Round(f, x)]
    BY <2>2, SmallFacts
  <2> QED
    BY <2>3
<1>5. Layered = CHOOSE h : h = [x \in SUBSET Plugins |-> Round(h, x)]
  BY DEF Layered, Round, Layers, Joined
<1>6. Layered = [x \in SUBSET Plugins |-> Round(Layered, x)]
  BY <1>4, <1>5
<1> QED
  BY <1>6

----------------------------------------------------------------------------
(* The loop that adds dependencies ends too, with the least set that holds *)
(* the requested plugins and all they depend on.                           *)

Closed(C) == \A p \in C : Dependencies[p] \subseteq C

WithDependencies(f, S) ==
    IF RemainingDependencies(S) = {} THEN S ELSE f[S \cup RemainingDependencies(S)]

\* The sets that lack fewer than n plugins.
Large(n) == {S \in SUBSET Plugins : Plugins \ S \in Small(n)}

LEMMA RemainingFacts ==
    ASSUME PluginsKnown, NEW n \in Nat, NEW S \in Large(n + 1), RemainingDependencies(S) # {}
    PROVE  S \cup RemainingDependencies(S) \in Large(n)
<1>1. /\ RemainingDependencies(S) \subseteq Plugins
      /\ RemainingDependencies(S) \cap S = {}
  BY DEF PluginsKnown, RemainingDependencies, Large
<1> DEFINE more == S \cup RemainingDependencies(S)
<1>2. /\ Plugins \ more \in SUBSET (Plugins \ S) /\ Plugins \ more # Plugins \ S
      /\ more \in SUBSET Plugins /\ Plugins \ S \in Small(n + 1)
  BY <1>1 DEF Large
<1> QED
  BY <1>2, SmallFacts DEF Large, PluginsKnown

LEMMA LargeFacts ==
    ASSUME IsFiniteSet(Plugins)
    PROVE  /\ Large(0) = {}
           /\ \A n \in Nat : Large(n) \subseteq Large(n + 1)
           /\ Large(Cardinality(Plugins) + 1) = SUBSET Plugins
  BY SmallFacts DEF Large

LEMMA AddDependenciesUnfolds ==
    ASSUME PluginsKnown, NEW S \in SUBSET Plugins
    PROVE  AddDependencies[S] = WithDependencies(AddDependencies, S)
<1> DEFINE Solves(f, n) == f = [x \in Large(n) |-> WithDependencies(f, x)]
           N == {n \in Nat : \E f : Solves(f, n)}
<1>0. IsFiniteSet(Plugins)
  BY DEF PluginsKnown
<1>1. 0 \in N
  <2>1. Solves([x \in {} |-> x], 0)
    BY <1>0, LargeFacts
  <2> QED
    BY <2>1
<1>2. ASSUME NEW n \in N PROVE n + 1 \in N
  <2>1. n \in Nat
    OBVIOUS
  <2>2. PICK f : Solves(f, n)
    OBVIOUS
  <2> DEFINE g == [x \in Large(n + 1) |-> WithDependencies(f, x)]
  <2>3. \A x \in Large(n) : x \in Large(n + 1) /\ f[x] = WithDependencies(f, x)
    BY <1>0, <2>1, <2>2, LargeFacts
  <2>4. \A x \in Large(n) : g[x] = f[x]
    BY <2>3
  <2>5. ASSUME NEW x \in Large(n + 1) PROVE WithDependencies(f, x) = WithDependencies(g, x)
    <3>1. CASE RemainingDependencies(x) = {}
      BY <3>1 DEF WithDependencies
    <3>2. CASE RemainingDependencies(x) # {}
      <4>1. g[x \cup RemainingDependencies(x)] = f[x \cup RemainingDependencies(x)]
        BY <2>1, <2>4, <3>2, RemainingFacts
      <4> HIDE DEF g
      <4> QED
        BY <3>2, <4>1 DEF WithDependencies
    <3> QED
      BY <3>1, <3>2
  <2>6. Solves(g, n + 1)
    BY <2>5
  <2>7. n + 1 \in Nat
    BY <2>1
  <2> HIDE DEF Solves, g
  <2> QED
    BY <2>6, <2>7
<1>3. N = Nat
  <2> HIDE DEF N
  <2>1. N \in SUBSET Nat
    BY DEF N
  <2> QED
    BY <1>1, <1>2, <2>1, NatInd
<1>4. PICK f : f = [x \in SUBSET Plugins |-> WithDependencies(f, x)]
  <2>1. Cardinality(Plugins) + 1 \in N
    BY <1>0, <1>3, SmallFacts
  <2>2. PICK f : Solves(f, Cardinality(Plugins) + 1)
    BY <2>1
  <2>3. f = [x \in SUBSET Plugins |-> WithDependencies(f, x)]
    BY <1>0, <2>2, LargeFacts
  <2> QED
    BY <2>3
<1>5. AddDependencies = CHOOSE h : h = [x \in SUBSET Plugins |-> WithDependencies(h, x)]
  BY DEF AddDependencies, WithDependencies
<1>6. AddDependencies = [x \in SUBSET Plugins |-> WithDependencies(AddDependencies, x)]
  BY <1>4, <1>5
<1> QED
  BY <1>6

LEMMA AddDependenciesFacts ==
    ASSUME PluginsKnown, NEW S \in SUBSET Plugins
    PROVE  /\ S \subseteq AddDependencies[S]
           /\ AddDependencies[S] \subseteq Plugins
           /\ Closed(AddDependencies[S])
           /\ \A C \in SUBSET Plugins : S \subseteq C /\ Closed(C) => AddDependencies[S] \subseteq C
<1> DEFINE Least(x) ==
               /\ x \subseteq AddDependencies[x]
               /\ AddDependencies[x] \subseteq Plugins
               /\ Closed(AddDependencies[x])
               /\ \A C \in SUBSET Plugins :
                    x \subseteq C /\ Closed(C) => AddDependencies[x] \subseteq C
           N == {n \in Nat : \A x \in Large(n) : Least(x)}
<1>0. IsFiniteSet(Plugins)
  BY DEF PluginsKnown
<1>1. 0 \in N
  BY <1>0, LargeFacts
<1>2. ASSUME NEW n \in N PROVE n + 1 \in N
  <2>1. n \in Nat /\ n + 1 \in Nat
    OBVIOUS
  <2>2. ASSUME NEW x \in Large(n + 1) PROVE Least(x)
    <3>1. x \in SUBSET Plugins
      BY DEF Large
    <3>2. CASE RemainingDependencies(x) = {}
      <4>1. AddDependencies[x] = x
        BY <3>1, <3>2, AddDependenciesUnfolds DEF WithDependencies
      <4>2. Closed(x)
        BY <3>2 DEF Closed, RemainingDependencies
      <4> QED
        BY <3>1, <4>1, <4>2
    <3>3. CASE RemainingDependencies(x) # {}
      <4> DEFINE y == x \cup RemainingDependencies(x)
      <4>1. AddDependencies[x] = AddDependencies[y]
        BY <3>1, <3>3, AddDependenciesUnfolds DEF WithDependencies
      <4>2. Least(y)
        BY <2>1, <3>3, RemainingFacts
      <4>3. \A C \in SUBSET Plugins : x \subseteq C /\ Closed(C) => y \subseteq C
        BY DEF Closed, RemainingDependencies
      <4> QED
        BY <4>1, <4>2, <4>3
    <3> QED
      BY <3>2, <3>3
  <2> QED
    BY <2>1, <2>2
<1>3. N = Nat
  <2> HIDE DEF N
  <2>1. N \in SUBSET Nat
    BY DEF N
  <2> QED
    BY <1>1, <1>2, <2>1, NatInd
<1>4. Cardinality(Plugins) + 1 \in N
  BY <1>0, <1>3, SmallFacts
<1>5. S \in Large(Cardinality(Plugins) + 1)
  BY <1>0, LargeFacts
<1> QED
  BY <1>4, <1>5

----------------------------------------------------------------------------
(* Lists of plugins. *)

LEMMA ShuffleFacts ==
    ASSUME IsFiniteSet(Plugins), NEW S \in SUBSET Plugins, NEW layer \in Shuffles(S)
    PROVE  layer \in Seq(Plugins) /\ InOrder(layer) = S /\ Distinct(layer)
<1>1. Cardinality(S) \in Nat
  BY FS_Subset, FS_CardinalityType
<1> QED
  BY <1>1 DEF Shuffles

\* The elements of a concatenation, by position.
LEMMA ConcatFacts ==
    ASSUME NEW s \in Seq(Plugins), NEW t \in Seq(Plugins)
    PROVE  /\ s \o t \in Seq(Plugins)
           /\ Len(s) \in Nat /\ Len(t) \in Nat
           /\ DOMAIN s = 1..Len(s) /\ DOMAIN t = 1..Len(t)
           /\ DOMAIN (s \o t) = 1..(Len(s) + Len(t))
           /\ \A i \in 1..Len(s) : i \in DOMAIN (s \o t) /\ (s \o t)[i] = s[i]
           /\ \A i \in 1..Len(t) :
                Len(s) + i \in DOMAIN (s \o t) /\ (s \o t)[Len(s) + i] = t[i]
           /\ \A i \in DOMAIN (s \o t) :
                i \in 1..Len(s) \/ \E j \in 1..Len(t) : i = Len(s) + j
           /\ InOrder(s \o t) = InOrder(s) \cup InOrder(t)
<1> DEFINE u == s \o t
<1>1. /\ u \in Seq(Plugins)
      /\ Len(s) \in Nat /\ Len(t) \in Nat
      /\ DOMAIN s = 1..Len(s) /\ DOMAIN t = 1..Len(t)
      /\ DOMAIN u = 1..(Len(s) + Len(t))
  OBVIOUS
<1>2. \A i \in 1..Len(s) : i \in DOMAIN u /\ u[i] = s[i]
  OBVIOUS
<1>3. ASSUME NEW i \in 1..Len(t) PROVE Len(s) + i \in DOMAIN u /\ u[Len(s) + i] = t[i]
  <2>1. Len(s) + i \in (Len(s) + 1)..(Len(s) + Len(t)) /\ (Len(s) + i) - Len(s) = i
    BY <1>1
  <2> QED
    BY <1>1, <2>1
<1>4. ASSUME NEW i \in DOMAIN u PROVE i \in 1..Len(s) \/ \E j \in 1..Len(t) : i = Len(s) + j
  <2>1. CASE i > Len(s)
    <3>1. i - Len(s) \in 1..Len(t) /\ i = Len(s) + (i - Len(s))
      BY <1>1, <2>1
    <3> QED
      BY <3>1
  <2>2. CASE ~ (i > Len(s))
    BY <1>1, <2>2
  <2> QED
    BY <2>1, <2>2
<1> HIDE DEF u
<1>5. InOrder(s) \subseteq InOrder(u)
  BY <1>1, <1>2 DEF InOrder
<1>6. InOrder(t) \subseteq InOrder(u)
  BY <1>1, <1>3 DEF InOrder
<1>7. ASSUME NEW i \in DOMAIN u PROVE u[i] \in InOrder(s) \cup InOrder(t)
  <2>1. CASE i \in 1..Len(s)
    BY <1>1, <1>2, <2>1 DEF InOrder
  <2>2. CASE \E j \in 1..Len(t) : i = Len(s) + j
    BY <1>1, <1>3, <2>2 DEF InOrder
  <2> QED
    BY <1>4, <2>1, <2>2
<1>8. InOrder(u) = InOrder(s) \cup InOrder(t)
  BY <1>5, <1>6, <1>7 DEF InOrder
<1> QED
  BY <1>1, <1>2, <1>3, <1>4, <1>8 DEF u

(***************************************************************************)
(* A list that is run after the plugins of s: what a plugin of it depends  *)
(* on is in s or behind it in the list.                                    *)
(***************************************************************************)
Behind(i, l) == {l[j] : j \in {k \in DOMAIN l : k > i}}

RunsAfter(l, s) ==
    /\ l \in Seq(Plugins) /\ Distinct(l) /\ InOrder(l) \cap s = {}
    /\ \A i \in DOMAIN l : Dependencies[l[i]] \subseteq s \cup Behind(i, l)

LEMMA LayerRunsAfter ==
    ASSUME NEW later, NEW layer, NEW s, RunsAfter(layer, s),
           RunsAfter(later, s \cup InOrder(layer))
    PROVE  RunsAfter(later \o layer, s)
<1> DEFINE u == later \o layer
           m == Len(later)
           n == Len(layer)
<1>1. /\ later \in Seq(Plugins) /\ layer \in Seq(Plugins)
      /\ Distinct(later) /\ Distinct(layer)
      /\ InOrder(layer) \cap s = {} /\ InOrder(later) \cap (s \cup InOrder(layer)) = {}
  BY DEF RunsAfter
<1>2. /\ u \in Seq(Plugins) /\ m \in Nat /\ n \in Nat
      /\ DOMAIN later = 1..m /\ DOMAIN layer = 1..n /\ DOMAIN u = 1..(m + n)
      /\ \A i \in 1..m : i \in DOMAIN u /\ u[i] = later[i]
      /\ \A i \in 1..n : m + i \in DOMAIN u /\ u[m + i] = layer[i]
      /\ \A i \in DOMAIN u : i \in 1..m \/ \E j \in 1..n : i = m + j
      /\ InOrder(u) = InOrder(later) \cup InOrder(layer)
  BY <1>1, ConcatFacts
<1> HIDE DEF u, m, n
<1>3. /\ \A i \in 1..m : u[i] \in InOrder(later)
      /\ \A i \in 1..n : u[m + i] \in InOrder(layer)
  BY <1>2 DEF InOrder
<1>4. Distinct(u)
  <2> SUFFICES ASSUME NEW i \in DOMAIN u, NEW j \in DOMAIN u, u[i] = u[j]
               PROVE  i = j
    BY DEF Distinct
  <2>1. CASE i \in 1..m /\ j \in 1..m
    BY <1>1, <1>2, <2>1 DEF Distinct
  <2>2. CASE \E a, b \in 1..n : i = m + a /\ j = m + b
    <3>1. PICK a \in 1..n, b \in 1..n : i = m + a /\ j = m + b
      BY <2>2
    <3>2. layer[a] = layer[b]
      BY <1>2, <3>1
    <3>3. a = b
      BY <1>1, <1>2, <3>2 DEF Distinct
    <3> QED
      BY <3>1, <3>3
  <2>3. u[i] \notin InOrder(later) \/ u[i] \notin InOrder(layer)
    BY <1>1
  <2>4. CASE i \in 1..m /\ \E b \in 1..n : j = m + b
    BY <1>3, <2>3, <2>4
  <2>5. CASE j \in 1..m /\ \E a \in 1..n : i = m + a
    BY <1>3, <2>3, <2>5
  <2>6. /\ i \in 1..m \/ \E a \in 1..n : i = m + a
        /\ j \in 1..m \/ \E b \in 1..n : j = m + b
    BY <1>2
  <2> QED
    BY <2>1, <2>2, <2>4, <2>5, <2>6
<1>5. ASSUME NEW i \in DOMAIN u PROVE Dependencies[u[i]] \subseteq s \cup Behind(i, u)
  <2>1. CASE i \in 1..m
    <3>1. Dependencies[later[i]] \subseteq s \cup InOrder(layer) \cup Behind(i, later)
      BY <1>2, <2>1 DEF RunsAfter
    <3>2. Behind(i, later) \subseteq Behind(i, u)
      BY <1>2 DEF Behind
    <3>3. \A j \in 1..n : m + j > i
      BY <1>2, <2>1
    <3>4. InOrder(layer) \subseteq Behind(i, u)
      BY <1>2, <3>3 DEF Behind, InOrder
    <3> QED
      BY <1>2, <2>1, <3>1, <3>2, <3>4
  <2>2. ASSUME NEW j \in 1..n, i = m + j PROVE Dependencies[u[i]] \subseteq s \cup Behind(i, u)
    <3>1. Dependencies[layer[j]] \subseteq s \cup Behind(j, layer)
      BY <1>2 DEF RunsAfter
    <3>2. \A k \in 1..n : k > j => m + k > i
      BY <1>2, <2>2
    <3>3. Behind(j, layer) \subseteq Behind(i, u)
      <4>1. ASSUME NEW k \in DOMAIN layer, k > j PROVE layer[k] \in Behind(i, u)
        <5>1. m + k \in DOMAIN u /\ u[m + k] = layer[k] /\ m + k > i
          BY <1>2, <3>2, <4>1
        <5> QED
          BY <5>1 DEF Behind
      <4> QED
        BY <4>1 DEF Behind
    <3> QED
      BY <1>2, <2>2, <3>1, <3>3
  <2> QED
    BY <1>2, <2>1, <2>2
<1>6. InOrder(u) \cap s = {}
  BY <1>1, <1>2
<1>7. RunsAfter(u, s)
  BY <1>2, <1>4, <1>5, <1>6 DEF RunsAfter
<1> QED
  BY <1>7 DEF u

LEMMA RunsAfterNothing ==
    ASSUME NEW l, RunsAfter(l, {})
    PROVE  DependencyPreserving(l) /\ DependenciesIncluded(l)
<1>1. ASSUME NEW i \in DOMAIN l, NEW j \in DOMAIN l, l[j] \in Dependencies[l[i]]
      PROVE  i < j
  <2>1. PICK k \in DOMAIN l : k > i /\ l[j] = l[k]
    BY <1>1 DEF RunsAfter, Behind
  <2>2. j = k
    BY <2>1 DEF RunsAfter, Distinct
  <2> QED
    BY <2>1, <2>2 DEF RunsAfter
<1>2. \A i \in DOMAIN l : Dependencies[l[i]] \subseteq InOrder(l)
  BY DEF RunsAfter, Behind, InOrder
<1> QED
  BY <1>1, <1>2 DEF DependencyPreserving, DependenciesIncluded, InOrder

(***************************************************************************)
(* The rounds of _smart_shuffle: the list runs after the plugins that were *)
(* scheduled before, holds only plugins that were left, and, if there is   *)
(* no cycle and no dependency is missing, all of them.                     *)
(***************************************************************************)
Acyclic ==
    \A C \in SUBSET Plugins : C # {} => \E p \in C : Dependencies[p] \cap C = {}

LEMMA LayeredFacts ==
    ASSUME PluginsKnown, NEW r \in SUBSET Plugins, NEW s \in SUBSET Plugins,
           r \cap s = {}, NEW l \in Layered[r][s]
    PROVE  /\ RunsAfter(l, s) /\ InOrder(l) \subseteq r
           /\ Acyclic /\ Closed(r \cup s) => InOrder(l) = r
<1> DEFINE Result(x, y, list) ==
               /\ RunsAfter(list, y) /\ InOrder(list) \subseteq x
               /\ Acyclic /\ Closed(x \cup y) => InOrder(list) = x
           N == {n \in Nat : \A x \in Small(n), y \in SUBSET Plugins :
                    x \cap y = {} => \A list \in Layered[x][y] : Result(x, y, list)}
<1>0. IsFiniteSet(Plugins)
  BY DEF PluginsKnown
<1>1. 0 \in N
  BY <1>0, SmallFacts
<1>2. ASSUME NEW n \in N PROVE n + 1 \in N
  <2>1. n \in Nat /\ n + 1 \in Nat
    OBVIOUS
  <2>2. ASSUME NEW x \in Small(n + 1), NEW y \in SUBSET Plugins, x \cap y = {},
               NEW list \in Layered[x][y]
        PROVE  Result(x, y, list)
    <3> DEFINE next == MetDependencies(x, y)
    <3>1. x \in SUBSET Plugins /\ next \subseteq x
      BY DEF Small, MetDependencies
    <3>2. list \in Layers(Layered, x, y)
      <4>1. Layered[x] = Round(Layered, x)
        BY <1>0, <3>1, LayeredUnfolds
      <4>2. Round(Layered, x)[y] = Layers(Layered, x, y)
        BY DEF Round
      <4> QED
        BY <2>2, <4>1, <4>2
    <3>3. CASE next = {}
      <4>1. list = << >>
        BY <3>2, <3>3 DEF Layers
      <4>2. RunsAfter(list, y) /\ InOrder(list) = {}
        BY <4>1 DEF RunsAfter, InOrder, Distinct
      <4>3. ASSUME Acyclic, Closed(x \cup y) PROVE x = {}
        <5>1. SUFFICES ASSUME x # {} PROVE FALSE
          OBVIOUS
        <5>2. PICK p \in x : Dependencies[p] \cap x = {}
          BY <3>1, <4>3, <5>1 DEF Acyclic
        <5>3. Dependencies[p] \subseteq y
          BY <4>3, <5>2 DEF Closed
        <5> QED
          BY <3>3, <5>3 DEF MetDependencies
      <4> QED
        BY <4>2, <4>3
    <3>4. CASE next # {}
      <4>1. PICK later \in Layered[x \ next][y \cup next], layer \in Shuffles(next) :
                list = later \o layer
        <5>1. list \in Joined(Layered[x \ next][y \cup next], Shuffles(next))
          BY <3>2, <3>4 DEF Layers
        <5> HIDE DEF next
        <5> QED
          BY <5>1, JoinedFacts
      <4>2. /\ x \ next \in Small(n) /\ y \cup next \in SUBSET Plugins
            /\ (x \ next) \cap (y \cup next) = {}
            /\ (x \ next) \cup (y \cup next) = x \cup y
        BY <1>0, <2>1, <2>2, <3>1, <3>4, SmallFacts
      <4>3. Result(x \ next, y \cup next, later)
        BY <4>1, <4>2
      <4>4. layer \in Seq(Plugins) /\ InOrder(layer) = next /\ Distinct(layer)
        BY <1>0, <3>1, ShuffleFacts
      <4>5. \A i \in DOMAIN layer : Dependencies[layer[i]] \subseteq y
        BY <4>4 DEF MetDependencies, InOrder
      <4>6. RunsAfter(layer, y)
        BY <2>2, <3>1, <4>4, <4>5 DEF RunsAfter
      <4>7. RunsAfter(list, y)
        BY <4>1, <4>3, <4>4, <4>6, LayerRunsAfter
      <4>8. InOrder(list) = InOrder(later) \cup next
        BY <4>1, <4>3, <4>4, ConcatFacts DEF RunsAfter
      <4> QED
        BY <3>1, <4>2, <4>3, <4>7, <4>8
    <3> QED
      BY <3>3, <3>4
  <2> QED
    BY <2>1, <2>2
<1>3. N = Nat
  <2> HIDE DEF N
  <2>1. N \in SUBSET Nat
    BY DEF N
  <2> QED
    BY <1>1, <1>2, <2>1, NatInd
<1>4. Cardinality(Plugins) + 1 \in N
  BY <1>0, <1>3, SmallFacts
<1>5. r \in Small(Cardinality(Plugins) + 1)
  BY <1>0, SmallFacts
<1> QED
  BY <1>4, <1>5
(***************************************************************************)
(* Moving file_type to the end permutes the list and, since file_type      *)
(* depends on nothing, keeps it dependency preserving.                     *)
(***************************************************************************)
LEMMA FileTypeFirstKeepsOrder ==
    ASSUME NEW s \in Seq(Plugins), Distinct(s)
    PROVE  /\ FileTypeFirst(s) \in Seq(Plugins)
           /\ Distinct(FileTypeFirst(s))
           /\ InOrder(FileTypeFirst(s)) = InOrder(s)
           /\ DependencyPreserving(s) /\ Dependencies[FileType] = {}
                => DependencyPreserving(FileTypeFirst(s))
<1>1. CASE FileType \notin InOrder(s)
  BY <1>1 DEF FileTypeFirst
<1>2. CASE FileType \in InOrder(s)
  <2> DEFINE k == CHOOSE i \in DOMAIN s : s[i] = FileType
             pos(i) == IF i < k THEN i ELSE IF i < Len(s) THEN i + 1 ELSE k
             r == FileTypeFirst(s)
  <2>1. /\ DOMAIN s = 1..Len(s) /\ Len(s) \in Nat
        /\ \A i \in 1..Len(s) : s[i] \in Plugins
    OBVIOUS
  <2>2. k \in 1..Len(s) /\ s[k] = FileType
    <3>1. \E i \in DOMAIN s : s[i] = FileType
      BY <1>2 DEF InOrder
    <3> QED
      BY <3>1, <2>1
  <2>3. r = [i \in 1..Len(s) |-> IF i < k THEN s[i]
                                ELSE IF i < Len(s) THEN s[i + 1]
                                ELSE FileType]
    BY <1>2, <2>1 DEF FileTypeFirst
  <2> HIDE DEF k, r
  <2>4. /\ DOMAIN r = 1..Len(s)
        /\ \A i \in 1..Len(s) : pos(i) \in 1..Len(s) /\ r[i] = s[pos(i)]
    BY <2>1, <2>2, <2>3
  <2>5. r \in Seq(Plugins)
    <3>1. r \in [1..Len(s) -> Plugins]
      BY <2>1, <2>2, <2>3
    <3> QED
      BY <3>1, <2>1
  <2>6. \A i, j \in 1..Len(s) : pos(i) = pos(j) => i = j
    BY <2>1, <2>2
  <2>7. \A m \in 1..Len(s) : \E i \in 1..Len(s) : pos(i) = m
    <3>1. TAKE m \in 1..Len(s)
    <3>2. CASE m < k
      BY <3>2, <2>1, <2>2
    <3>3. CASE m = k
      <4>1. k \in Int /\ Len(s) \in 1..Len(s) /\ ~ Len(s) < k /\ ~ Len(s) < Len(s)
        BY <2>1, <2>2
      <4>2. pos(Len(s)) = k
        BY <4>1
      <4> QED
        BY <4>1, <4>2, <3>3
    <3>4. CASE m > k
      <4>1. pos(m - 1) = m /\ m - 1 \in 1..Len(s)
        BY <3>4, <2>1, <2>2
      <4> QED
        BY <4>1
    <3> QED
      BY <3>2, <3>3, <3>4, <2>1, <2>2
  <2>8. Distinct(r)
    <3>1. SUFFICES ASSUME NEW i \in 1..Len(s), NEW j \in 1..Len(s), r[i] = r[j]
                   PROVE  i = j
      BY <2>4 DEF Distinct
    <3>2. s[pos(i)] = s[pos(j)] /\ pos(i) \in 1..Len(s) /\ pos(j) \in 1..Len(s)
      BY <3>1, <2>4
    <3>3. pos(i) = pos(j)
      BY <3>2, <2>1 DEF Distinct
    <3> QED
      BY <3>3, <2>6
  <2>9. InOrder(r) = InOrder(s)
    <3> HIDE DEF pos
    <3>1. InOrder(r) \subseteq InOrder(s)
      BY <2>1, <2>4 DEF InOrder
    <3>2. SUFFICES ASSUME NEW m \in 1..Len(s)
                   PROVE  s[m] \in InOrder(r)
      BY <2>1, <3>1 DEF InOrder
    <3>3. PICK i \in 1..Len(s) : pos(i) = m
      BY <2>7
    <3>4. r[i] = s[m]
      BY <3>3, <2>4
    <3> QED
      BY <3>4, <2>4 DEF InOrder
  <2>10. ASSUME DependencyPreserving(s), Dependencies[FileType] = {}
         PROVE  DependencyPreserving(r)
    <3>1. SUFFICES ASSUME NEW i \in 1..Len(s), NEW j \in 1..Len(s),
                          r[j] \in Dependencies[r[i]]
                   PROVE  i < j
      BY <2>4 DEF DependencyPreserving
    <3>2. r[i] # FileType
      BY <3>1, <2>10
    <3>3. i < Len(s)
      BY <3>2, <2>1, <2>2, <2>3
    <3>4. s[pos(j)] \in Dependencies[s[pos(i)]]
      BY <3>1, <2>4
    <3>5. pos(i) < pos(j)
      <4> HIDE DEF pos
      <4> QED
        BY <3>4, <2>1, <2>4, <2>10 DEF DependencyPreserving
    <3> QED
      BY <3>3, <3>5, <2>1, <2>2
  <2> QED
    BY <2>5, <2>8, <2>9, <2>10 DEF r
<1> QED
  BY <1>1, <1>2


----------------------------------------------------------------------------
(***************************************************************************)
(* Every list that schedule_analysis_tasks can leave is sound, and without *)
(* cycles it has the requested plugins, all they depend on, and the        *)
(* mandatory ones.                                                         *)
(***************************************************************************)
THEOREM PlansAreSound ==
    ASSUME PluginsKnown, Mandatory \subseteq Plugins, Dependencies[FileType] = {},
           NEW requested \in SUBSET Plugins, NEW mandatory \in BOOLEAN,
           NEW plan \in Plans(requested, mandatory)
    PROVE  /\ plan \in Seq(Plugins) /\ Distinct(plan)
           /\ DependencyPreserving(plan) /\ DependenciesIncluded(plan)
           /\ LET all == AddDependencies[requested] \cup (IF mandatory THEN Mandatory ELSE {})
              IN  /\ InOrder(plan) \subseteq all
                  /\ Acyclic /\ Closed(all) => InOrder(plan) = all
<1> DEFINE all == AddDependencies[requested] \cup (IF mandatory THEN Mandatory ELSE {})
<1>1. all \in SUBSET Plugins
  BY AddDependenciesFacts
<1>2. PICK list \in Layered[all][{}] : plan = FileTypeFirst(list)
  BY DEF Plans, SmartShuffle
<1> HIDE DEF all
<1>3. /\ RunsAfter(list, {}) /\ InOrder(list) \subseteq all
      /\ Acyclic /\ Closed(all) => InOrder(list) = all
  <2>1. all \cap {} = {} /\ all \cup {} = all
    OBVIOUS
  <2> QED
    BY <1>1, <2>1, LayeredFacts
<1>4. list \in Seq(Plugins) /\ Distinct(list)
  BY <1>3 DEF RunsAfter
<1>5. DependencyPreserving(list) /\ DependenciesIncluded(list)
  BY <1>3, RunsAfterNothing
<1>6. /\ plan \in Seq(Plugins) /\ Distinct(plan) /\ InOrder(plan) = InOrder(list)
      /\ DependencyPreserving(plan)
  BY <1>2, <1>4, <1>5, FileTypeFirstKeepsOrder
<1>7. DependenciesIncluded(plan)
  BY <1>5, <1>6 DEF DependenciesIncluded
<1> QED
  BY <1>3, <1>6, <1>7 DEF all

----------------------------------------------------------------------------
(***************************************************************************)
(* Removing elements from a list keeps the others, in their order.         *)
(***************************************************************************)
LEMMA RankFacts ==
    ASSUME NEW S, NEW list \in Seq(S), NEW F
    PROVE  /\ IsFiniteSet(Kept(list, F)) /\ Cardinality(Kept(list, F)) \in Nat
           /\ \A i \in Kept(list, F) :
                Rank(i, list, F) \in 1..Cardinality(Kept(list, F))
           /\ \A i, j \in Kept(list, F) : i < j => Rank(i, list, F) < Rank(j, list, F)
           /\ \A k \in 1..Cardinality(Kept(list, F)) :
                \E i \in Kept(list, F) : Rank(i, list, F) = k
<1> DEFINE kept == Kept(list, F)
           n == Cardinality(kept)
           upTo(i) == {j \in kept : j <= i}
<1>1. kept \subseteq 1..Len(list) /\ Len(list) \in Nat
  BY DEF Kept
<1>2. IsFiniteSet(kept) /\ n \in Nat
  <2>1. IsFiniteSet(1..Len(list)) /\ kept \in SUBSET (1..Len(list))
    BY <1>1, FS_Interval
  <2> HIDE DEF kept
  <2>2. IsFiniteSet(kept)
    BY <2>1, FS_Subset
  <2> QED
    BY <2>2, FS_CardinalityType
<1> HIDE DEF kept
<1>3. ASSUME NEW i \in kept
      PROVE  /\ IsFiniteSet(upTo(i)) /\ Cardinality(upTo(i)) \in 1..n
             /\ Cardinality(upTo(i)) = Rank(i, list, F)
  <2>1. upTo(i) \in SUBSET kept /\ i \in upTo(i)
    BY <1>1
  <2>2. /\ IsFiniteSet(upTo(i)) /\ Cardinality(upTo(i)) <= n
        /\ Cardinality(upTo(i)) \in Nat /\ Cardinality(upTo(i)) # 0
    BY <1>2, <2>1, FS_Subset, FS_CardinalityType, FS_EmptySet
  <2>3. Cardinality(upTo(i)) = Rank(i, list, F)
    BY DEF Rank, kept
  <2> QED
    BY <1>2, <2>2, <2>3
<1>4. ASSUME NEW i \in kept, NEW j \in kept, i < j
      PROVE  Rank(i, list, F) < Rank(j, list, F)
  <2>1. upTo(i) \in SUBSET upTo(j)
    <3>1. \A x \in kept : x <= i => x <= j
      BY <1>1, <1>4
    <3> QED
      BY <3>1
  <2>2. j \in upTo(j) /\ j \notin upTo(i)
    BY <1>1, <1>4
  <2>3. upTo(i) # upTo(j)
    BY <2>2
  <2>4. IsFiniteSet(upTo(j))
    BY <1>3
  <2> HIDE DEF upTo
  <2>5. /\ Cardinality(upTo(i)) <= Cardinality(upTo(j))
        /\ Cardinality(upTo(i)) # Cardinality(upTo(j))
    BY <2>1, <2>3, <2>4, FS_Subset
  <2> QED
    BY <1>3, <2>5
<1>5. \A k \in 1..n : \E i \in kept : Rank(i, list, F) = k
  <2> DEFINE f == [i \in kept |-> Rank(i, list, F)]
  <2>1. f \in [kept -> 1..n]
    BY <1>3
  <2>2. \A i, j \in kept : f[i] = f[j] => i = j
    <3> SUFFICES ASSUME NEW i \in kept, NEW j \in kept, i # j PROVE f[i] # f[j]
      OBVIOUS
    <3>1. i < j \/ j < i
      BY <1>1
    <3>2. f[i] \in Int /\ f[j] \in Int
      BY <2>1
    <3> QED
      BY <1>4, <3>1, <3>2
  <2>3. f \in Injection(kept, 1..n)
    BY <2>1, <2>2 DEF Injection, IsInjective
  <2>4. IsFiniteSet(1..n) /\ Cardinality(1..n) = n
    BY <1>2, FS_Interval
  <2>5. f \in Surjection(kept, 1..n)
    BY <2>3, <2>4, FS_Injection
  <2> QED
    BY <2>5 DEF Surjection
<1> QED
  BY <1>2, <1>3, <1>4, <1>5 DEF kept

LEMMA WithoutFacts ==
    ASSUME NEW S, NEW list \in Seq(S), NEW F
    PROVE  /\ Without(list, F) \in Seq(S)
           /\ InOrder(Without(list, F)) = InOrder(list) \ F
           /\ Distinct(list) => Distinct(Without(list, F))
           /\ DependencyPreserving(list) => DependencyPreserving(Without(list, F))
<1> DEFINE kept == Kept(list, F)
           n == Cardinality(kept)
           rank(i) == Rank(i, list, F)
           pos(k) == CHOOSE i \in kept : rank(i) = k
           w == Without(list, F)
<1>1. /\ n \in Nat
      /\ \A i \in kept : rank(i) \in 1..n
      /\ \A i, j \in kept : i < j => rank(i) < rank(j)
      /\ \A k \in 1..n : \E i \in kept : rank(i) = k
  BY RankFacts
<1>2. \A i : i \in kept <=> i \in DOMAIN list /\ list[i] \notin F
  BY DEF Kept
<1>3. DOMAIN list = 1..Len(list) /\ Len(list) \in Nat /\ \A i \in DOMAIN list : list[i] \in S
  OBVIOUS
<1>4. w = [k \in 1..n |-> list[pos(k)]]
  BY DEF Without
<1> HIDE DEF kept, n, rank, w
<1>5. \A k \in 1..n : pos(k) \in kept /\ rank(pos(k)) = k
  BY <1>1
<1>6. \A i \in kept : pos(rank(i)) = i
  <2> SUFFICES ASSUME NEW i \in kept, pos(rank(i)) # i PROVE FALSE
    OBVIOUS
  <2>1. rank(i) \in 1..n
    BY <1>1
  <2>2. pos(rank(i)) \in kept /\ rank(pos(rank(i))) = rank(i)
    BY <1>5, <2>1
  <2>3. PICK j \in kept : j = pos(rank(i)) /\ j # i /\ rank(j) = rank(i)
    BY <2>2
  <2>4. j < i \/ i < j
    BY <1>2, <1>3, <2>3
  <2> QED
    BY <1>1, <2>1, <2>3, <2>4
<1> HIDE DEF pos
<1>7. DOMAIN w = 1..n /\ \A k \in 1..n : w[k] = list[pos(k)] /\ pos(k) \in DOMAIN list /\ w[k] \notin F
  BY <1>2, <1>4, <1>5
<1>8. w \in Seq(S)
  <2>1. w \in [1..n -> S]
    BY <1>3, <1>4, <1>7
  <2> QED
    BY <1>1, <2>1
<1>9. InOrder(w) = InOrder(list) \ F
  <2>1. InOrder(w) \subseteq InOrder(list) \ F
    BY <1>7 DEF InOrder
  <2>2. ASSUME NEW i \in DOMAIN list, list[i] \notin F PROVE list[i] \in InOrder(w)
    <3>1. i \in kept /\ rank(i) \in 1..n /\ pos(rank(i)) = i
      BY <1>1, <1>2, <1>6, <2>2
    <3> QED
      BY <1>7, <3>1 DEF InOrder
  <2> QED
    BY <2>1, <2>2 DEF InOrder
<1>10. ASSUME Distinct(list) PROVE Distinct(w)
  <2> SUFFICES ASSUME NEW a \in 1..n, NEW b \in 1..n, w[a] = w[b] PROVE a = b
    BY <1>7 DEF Distinct
  <2>1. pos(a) = pos(b)
    BY <1>7, <1>10 DEF Distinct
  <2> QED
    BY <1>5, <2>1
<1>11. ASSUME DependencyPreserving(list) PROVE DependencyPreserving(w)
  <2> SUFFICES ASSUME NEW a \in 1..n, NEW b \in 1..n, w[b] \in Dependencies[w[a]]
               PROVE  a < b
    BY <1>7 DEF DependencyPreserving
  <2>1. pos(a) < pos(b)
    BY <1>7, <1>11 DEF DependencyPreserving
  <2> QED
    BY <1>1, <1>5, <2>1
<1> QED
  BY <1>8, <1>9, <1>10, <1>11 DEF w

-----------------------------------------------------------------------------
(* The analysis scheduler.                                                 *)

Queued(t) == t \in InOrder(processQueue)
Held(t) ==
    Queued(t) \/ runner.task = t \/ collector.task = t \/ \E p \in Plugins : Handles(p, t)

Alive == runner.pc # "dead" /\ collector.pc # "dead"

\* The queues of the plugins, and what is put into or taken out of them.
Queues(f) ==
    f \in [Plugins -> Seq(Tasks)] /\ \A q \in Plugins : Distinct(f[q])

Put(f, g, p, t) == g = [f EXCEPT ![p] = Append(@, t)]
Get(f, g, p) == f[p] # << >> /\ g = [f EXCEPT ![p] = Tail(@)]

HandOverTypes ==
    /\ phase \in [Tasks -> Phases]
    /\ processQueue \in Seq(Tasks) /\ Distinct(processQueue)
    /\ Queues(inQueue) /\ Queues(outQueue)
    /\ running \in [Plugins -> SUBSET Tasks]
    /\ runner.task \in Tasks \cup {NoTask}
    /\ runner.pc \in {"decide", "store"} <=> runner.task # NoTask
    /\ collector.task \in Tasks \cup {NoTask}
    /\ collector.pc = "store" <=> collector.task # NoTask

\* At most one queue, worker or process has the task.
Single(t) ==
    /\ \A p \in Plugins :
        /\ t \in InOrder(inQueue[p]) => t \notin running[p] /\ t \notin InOrder(outQueue[p])
        /\ t \in running[p] => t \notin InOrder(outQueue[p])
        /\ Handles(p, t) => ~ Queued(t) /\ runner.task # t /\ collector.task # t
    /\ \A p, q \in Plugins : Handles(p, t) /\ Handles(q, t) => p = q
    /\ Queued(t) => runner.task # t /\ collector.task # t
    /\ runner.task = t => collector.task # t

\* Exactly the active tasks are held, as long as no process died with one.
PhaseAgrees(t) ==
    /\ Held(t) => phase[t] = "active"
    /\ phase[t] = "active" /\ Alive => Held(t)

HandOver ==
    /\ HandOverTypes
    /\ \A t \in Tasks : Single(t) /\ PhaseAgrees(t)

\* A step leaves the task where it is.
Same(t) ==
    /\ phase'[t] = phase[t]
    /\ Queued(t)' <=> Queued(t)
    /\ runner'.task = t <=> runner.task = t
    /\ collector'.task = t <=> collector.task = t
    /\ \A p \in Plugins :
        /\ t \in InOrder(inQueue'[p]) <=> t \in InOrder(inQueue[p])
        /\ t \in running'[p] <=> t \in running[p]
        /\ t \in InOrder(outQueue'[p]) <=> t \in InOrder(outQueue[p])

----------------------------------------------------------------------------
(* Queues without repetitions. *)

LEMMA AppendFacts ==
    ASSUME NEW S, NEW q \in Seq(S), NEW e \in S
    PROVE  /\ Append(q, e) \in Seq(S)
           /\ InOrder(Append(q, e)) = InOrder(q) \cup {e}
           /\ Distinct(q) /\ e \notin InOrder(q) => Distinct(Append(q, e))
<1> DEFINE r == Append(q, e)
<1>1. /\ r \in Seq(S) /\ Len(q) \in Nat
      /\ DOMAIN q = 1..Len(q) /\ DOMAIN r = 1..(Len(q) + 1)
      /\ \A i \in 1..Len(q) : r[i] = q[i]
      /\ r[Len(q) + 1] = e
  OBVIOUS
<1> HIDE DEF r
<1>2. InOrder(r) = InOrder(q) \cup {e}
  <2>1. ASSUME NEW x \in InOrder(r) PROVE x \in InOrder(q) \cup {e}
    BY <1>1, <2>1 DEF InOrder
  <2>2. ASSUME NEW x \in InOrder(q) PROVE x \in InOrder(r)
    BY <1>1, <2>2 DEF InOrder
  <2>3. e \in InOrder(r)
    BY <1>1 DEF InOrder
  <2> QED
    BY <2>1, <2>2, <2>3
<1>3. ASSUME Distinct(q), e \notin InOrder(q) PROVE Distinct(r)
  BY <1>1, <1>3 DEF InOrder, Distinct
<1> QED
  BY <1>1, <1>2, <1>3 DEF r

LEMMA TailFacts ==
    ASSUME NEW S, NEW q \in Seq(S), q # << >>, Distinct(q)
    PROVE  /\ Head(q) \in S
           /\ Tail(q) \in Seq(S)
           /\ Head(q) \in InOrder(q)
           /\ InOrder(Tail(q)) = InOrder(q) \ {Head(q)}
           /\ Distinct(Tail(q))
<1> DEFINE r == Tail(q)
<1>1. /\ r \in Seq(S) /\ Len(q) \in Nat \ {0}
      /\ DOMAIN q = 1..Len(q) /\ DOMAIN r = 1..(Len(q) - 1)
      /\ \A i \in 1..(Len(q) - 1) : r[i] = q[i + 1]
      /\ Head(q) = q[1] /\ Head(q) \in S
  OBVIOUS
<1> HIDE DEF r
<1>2. Head(q) \in InOrder(q)
  BY <1>1 DEF InOrder
<1>3. ASSUME NEW x \in InOrder(r) PROVE x \in InOrder(q) \ {Head(q)}
  <2>1. PICK i \in 1..(Len(q) - 1) : x = q[i + 1]
    BY <1>1, <1>3 DEF InOrder
  <2> QED
    BY <1>1, <2>1 DEF InOrder, Distinct
<1>4. ASSUME NEW x \in InOrder(q) \ {Head(q)} PROVE x \in InOrder(r)
  <2>1. PICK i \in 2..Len(q) : x = q[i]
    BY <1>1, <1>4 DEF InOrder
  <2>2. i - 1 \in 1..(Len(q) - 1) /\ r[i - 1] = x
    BY <1>1, <2>1
  <2> QED
    BY <1>1, <2>2 DEF InOrder
<1>5. Distinct(r)
  <2>1. ASSUME NEW i \in 1..(Len(q) - 1), NEW j \in 1..(Len(q) - 1), r[i] = r[j]
        PROVE  i = j
    <3>1. i + 1 \in DOMAIN q /\ j + 1 \in DOMAIN q /\ q[i + 1] = q[j + 1]
      BY <1>1, <2>1
    <3>2. i + 1 = j + 1
      BY <3>1 DEF Distinct
    <3> QED
      BY <3>2
  <2> QED
    BY <1>1, <2>1 DEF Distinct
<1> QED
  BY <1>1, <1>2, <1>3, <1>4, <1>5 DEF r

LEMMA EmptyFacts ==
    InOrder(<< >>) = {} /\ Distinct(<< >>)
  BY DEF InOrder, Distinct

LEMMA PutFacts ==
    ASSUME NEW f, Queues(f), NEW p \in Plugins, NEW t \in Tasks, t \notin InOrder(f[p]),
           NEW g, Put(f, g, p, t)
    PROVE  /\ Queues(g)
           /\ \A q \in Plugins : \A x :
                x \in InOrder(g[q]) <=> x \in InOrder(f[q]) \/ (q = p /\ x = t)
<1>1. /\ Append(f[p], t) \in Seq(Tasks)
      /\ InOrder(Append(f[p], t)) = InOrder(f[p]) \cup {t}
      /\ Distinct(Append(f[p], t))
  BY AppendFacts DEF Queues
<1>2. /\ g[p] = Append(f[p], t)
      /\ \A q \in Plugins \ {p} : g[q] = f[q]
      /\ g \in [Plugins -> Seq(Tasks)]
  BY <1>1 DEF Queues, Put
<1> QED
  BY <1>1, <1>2 DEF Queues

LEMMA GetFacts ==
    ASSUME NEW f, Queues(f), NEW p \in Plugins, NEW g, Get(f, g, p)
    PROVE  /\ Head(f[p]) \in Tasks
           /\ Head(f[p]) \in InOrder(f[p])
           /\ Queues(g)
           /\ \A q \in Plugins : \A x :
                x \in InOrder(g[q]) <=>
                    x \in InOrder(f[q]) /\ ~ (q = p /\ x = Head(f[p]))
<1>1. /\ Head(f[p]) \in Tasks
      /\ Tail(f[p]) \in Seq(Tasks)
      /\ Head(f[p]) \in InOrder(f[p])
      /\ InOrder(Tail(f[p])) = InOrder(f[p]) \ {Head(f[p])}
      /\ Distinct(Tail(f[p]))
  BY TailFacts DEF Queues, Get
<1>2. /\ g[p] = Tail(f[p])
      /\ \A q \in Plugins \ {p} : g[q] = f[q]
      /\ g \in [Plugins -> Seq(Tasks)]
  BY <1>1 DEF Queues, Get
<1> QED
  BY <1>1, <1>2 DEF Queues

----------------------------------------------------------------------------
(* One task moves, the others stay where they are. *)

LEMMA OthersStay ==
    ASSUME NEW t \in Tasks, Single(t), PhaseAgrees(t), Same(t), Alive' => Alive
    PROVE  Single(t)' /\ PhaseAgrees(t)'
  BY DEF Single, PhaseAgrees, Same, Held, Queued, Handles

LEMMA OneMoves ==
    ASSUME HandOver, NEW t \in Tasks,
           \A c \in Tasks \ {t} : Same(c), Alive' => Alive,
           HandOverTypes', Single(t)', PhaseAgrees(t)'
    PROVE  HandOver'
<1>1. ASSUME NEW c \in Tasks PROVE Single(c)' /\ PhaseAgrees(c)'
  <2>1. CASE c = t
    BY <2>1
  <2>2. CASE c # t
    BY <2>2, OthersStay DEF HandOver
  <2> QED
    BY <2>1, <2>2
<1> QED
  BY <1>1 DEF HandOver

(***************************************************************************)
(* _check_further_process_or_complete puts a task that nobody holds any    *)
(* more into the process queue, or completes it.                           *)
(***************************************************************************)
LEMMA CheckFurtherFacts ==
    ASSUME HandOver, NEW t \in Tasks, NEW list, CheckFurther(t, list), ~ Queued(t)
    PROVE  /\ processQueue' \in Seq(Tasks)
           /\ Distinct(processQueue')
           /\ phase' \in [Tasks -> Phases]
           /\ \A c \in Tasks \ {t} :
                phase'[c] = phase[c] /\ (Queued(c)' <=> Queued(c))
           /\ Queued(t)' <=> phase'[t] = "active"
<1>1. CASE list = << >>
  <2>1. phase' = [phase EXCEPT ![t] = "completed"] /\ processQueue' = processQueue
    BY <1>1 DEF CheckFurther
  <2> QED
    BY <2>1 DEF HandOver, HandOverTypes, Phases, Queued
<1>2. CASE list # << >>
  <2>1. phase' = [phase EXCEPT ![t] = "active"] /\ processQueue' = Append(processQueue, t)
    BY <1>2 DEF CheckFurther
  <2>2. /\ processQueue' \in Seq(Tasks)
        /\ InOrder(processQueue') = InOrder(processQueue) \cup {t}
        /\ Distinct(processQueue')
    BY <2>1, AppendFacts DEF HandOver, HandOverTypes, Queued
  <2> QED
    BY <2>1, <2>2 DEF HandOver, HandOverTypes, Phases, Queued
<1> QED
  BY <1>1, <1>2

LEMMA GivenBack ==
    ASSUME HandOver, NEW t \in Tasks, NEW list, CheckFurther(t, list), ~ Queued(t),
           Alive' => Alive,
           Queues(inQueue'), Queues(outQueue'),
           running' \in [Plugins -> SUBSET Tasks],
           runner'.task \in (Tasks \ {t}) \cup {NoTask},
           runner'.pc \in {"decide", "store"} <=> runner'.task # NoTask,
           collector'.task \in (Tasks \ {t}) \cup {NoTask},
           collector'.pc = "store" <=> collector'.task # NoTask,
           \A p \in Plugins : ~ Handles(p, t)',
           \A c \in Tasks \ {t} :
                /\ runner'.task = c <=> runner.task = c
                /\ collector'.task = c <=> collector.task = c
                /\ \A p \in Plugins :
                    /\ c \in InOrder(inQueue'[p]) <=> c \in InOrder(inQueue[p])
                    /\ c \in running'[p] <=> c \in running[p]
                    /\ c \in InOrder(outQueue'[p]) <=> c \in InOrder(outQueue[p])
    PROVE  HandOver'
<1>1. /\ processQueue' \in Seq(Tasks)
      /\ Distinct(processQueue')
      /\ phase' \in [Tasks -> Phases]
      /\ \A c \in Tasks \ {t} : phase'[c] = phase[c] /\ (Queued(c)' <=> Queued(c))
      /\ Queued(t)' <=> phase'[t] = "active"
  BY CheckFurtherFacts
<1>2. \A c \in Tasks \ {t} : Same(c)
  BY <1>1 DEF Same
<1>3. HandOverTypes'
  BY <1>1 DEF HandOverTypes
<1>4. runner'.task # t /\ collector'.task # t
  BY NoTaskAssumption
<1>5. Single(t)' /\ PhaseAgrees(t)'
  BY <1>1, <1>4 DEF Single, PhaseAgrees, Held, Handles
<1> QED
  BY <1>2, <1>3, <1>5, OneMoves

LEMMA NothingMoves ==
    ASSUME HandOver,
           UNCHANGED <<processQueue, inQueue, running, outQueue, runner, collector>>,
           phase' \in [Tasks -> Phases],
           \A c \in Tasks : phase'[c] = "active" <=> phase[c] = "active"
    PROVE  HandOver'
<1>1. HandOverTypes' /\ (Alive' <=> Alive)
  BY DEF HandOver, HandOverTypes, Alive
<1>2. ASSUME NEW t \in Tasks PROVE Single(t)' /\ PhaseAgrees(t)'
  <2>1. \A p \in Plugins : Handles(p, t)' <=> Handles(p, t)
    BY DEF Handles
  <2>2. Queued(t)' <=> Queued(t)
    BY DEF Queued
  <2>3. Single(t) /\ PhaseAgrees(t)
    BY DEF HandOver
  <2>4. Single(t)'
    BY <2>1, <2>2, <2>3 DEF Single
  <2>5. PhaseAgrees(t)'
    BY <1>1, <2>1, <2>2, <2>3 DEF PhaseAgrees, Held
  <2> QED
    BY <2>4, <2>5
<1> QED
  BY <1>1, <1>2 DEF HandOver

----------------------------------------------------------------------------
(* The entry points. *)

LEMMA Entering ==
    ASSUME HandOver, NEW t \in Tasks, NEW list, phase[t] # "active",
           CheckFurther(t, list), UNCHANGED <<pluginVars, runner, collector>>
    PROVE  HandOver'
<1>1. ~ Held(t)
  BY DEF HandOver, PhaseAgrees
<1>2. /\ ~ Queued(t) /\ runner.task # t /\ collector.task # t
      /\ \A p \in Plugins : ~ Handles(p, t)
  BY <1>1 DEF Held
<1>3. UNCHANGED <<inQueue, running, outQueue, runner, collector>>
  BY DEF pluginVars
<1>4. Alive' => Alive
  BY <1>3 DEF Alive
<1>5. \A p \in Plugins : ~ Handles(p, t)'
  BY <1>2, <1>3 DEF Handles
<1> QED
  BY <1>2, <1>3, <1>4, <1>5, GivenBack DEF HandOver, HandOverTypes

LEMMA EnterKeeps ==
    ASSUME HandOver, NEW t \in Tasks, Enter(t) \/ RequestUpdate(t)
    PROVE  HandOver'
<1>1. CASE StartAnalysisOfObject(t)
  BY <1>1, Entering DEF StartAnalysisOfObject, Plan
<1>2. CASE UpdateAnalysisOfSingleObject(t)
  BY <1>2, Entering DEF UpdateAnalysisOfSingleObject, Plan
<1>3. CASE UpdateAnalysisOfChild(t)
  BY <1>3, Entering DEF UpdateAnalysisOfChild, Plan
<1>4. CASE UpdateAnalysisOfRoot(t)
  BY <1>4, Entering DEF UpdateAnalysisOfRoot
<1>5. CASE BeginUpdate(t)
  <2>1. UNCHANGED <<processQueue, inQueue, running, outQueue, runner, collector>>
    BY <1>5 DEF BeginUpdate, pluginVars
  <2>2. \A c \in Tasks : phase'[c] = "active" <=> phase[c] = "active"
    BY <1>5 DEF BeginUpdate
  <2>3. phase' \in [Tasks -> Phases]
    BY <1>5 DEF BeginUpdate, HandOver, HandOverTypes, Phases
  <2> QED
    BY <2>1, <2>2, <2>3, NothingMoves
<1>6. CASE EntryCrash(t) \/ RequestUpdate(t)
  <2>1. UNCHANGED <<processQueue, inQueue, running, outQueue, runner, collector>>
    BY <1>6 DEF EntryCrash, RequestUpdate, pluginVars
  <2>2. /\ phase[t] # "active"
        /\ \E value \in {"crashed", "requested"} : phase' = [phase EXCEPT ![t] = value]
    BY <1>6 DEF EntryCrash, RequestUpdate
  <2>3. /\ phase' \in [Tasks -> Phases]
        /\ \A c \in Tasks : phase'[c] = "active" <=> phase[c] = "active"
    BY <2>2 DEF HandOver, HandOverTypes, Phases
  <2> QED
    BY <2>1, <2>3, NothingMoves
<1> QED
  BY <1>1, <1>2, <1>3, <1>4, <1>5, <1>6 DEF Enter

----------------------------------------------------------------------------
(* The schedule process. *)

\* A task that the schedule process gives back.
LEMMA RunnerGivesBack ==
    ASSUME HandOver, runner.pc \in {"decide", "store"}, NEW list,
           CheckFurther(runner.task, list), runner' = Idle,
           UNCHANGED <<pluginVars, collector>>
    PROVE  HandOver'
<1>1. PICK t \in Tasks : t = runner.task
  BY DEF HandOver, HandOverTypes
<1>2. /\ ~ Queued(t) /\ collector.task # t
      /\ \A p \in Plugins : ~ Handles(p, t)
  BY <1>1 DEF HandOver, Single
<1>3. UNCHANGED <<inQueue, running, outQueue, collector>>
  BY DEF pluginVars
<1>4. /\ runner'.task = NoTask /\ runner'.pc = "idle"
      /\ \A c \in Tasks \ {t} : runner'.task # c /\ runner.task # c
  BY <1>1, NoTaskAssumption DEF Idle
<1>5. Alive' => Alive
  BY <1>3 DEF Alive
<1>6. \A p \in Plugins : ~ Handles(p, t)'
  BY <1>2, <1>3 DEF Handles
<1> QED
  BY <1>1, <1>2, <1>3, <1>4, <1>5, <1>6, GivenBack DEF HandOver, HandOverTypes

LEMMA TakeTaskKeeps ==
    ASSUME HandOver, TakeTask
    PROVE  HandOver'
<1>1. PICK t \in Tasks :
            /\ t = Head(processQueue) /\ Queued(t)
            /\ processQueue' \in Seq(Tasks) /\ Distinct(processQueue')
            /\ InOrder(processQueue') = InOrder(processQueue) \ {t}
  BY TailFacts DEF TakeTask, HandOver, HandOverTypes, Queued
<1>2. /\ runner.pc = "idle" /\ runner'.pc = "decide" /\ runner'.task = t
      /\ UNCHANGED <<phase, inQueue, running, outQueue, collector>>
  BY <1>1 DEF TakeTask, At, pluginVars
<1>3. runner.task = NoTask
  BY <1>2 DEF HandOver, HandOverTypes
<1>4. \A c \in Tasks \ {t} : Same(c)
  BY <1>1, <1>2, <1>3, NoTaskAssumption DEF Same, Queued
<1>5. HandOverTypes'
  BY <1>1, <1>2, NoTaskAssumption DEF HandOver, HandOverTypes
<1>6. Single(t) /\ PhaseAgrees(t) /\ Held(t)
  BY <1>1 DEF HandOver, Held
<1>7. /\ ~ Queued(t)'
      /\ \A p \in Plugins : ~ Handles(p, t) /\ ~ Handles(p, t)'
  BY <1>1, <1>2, <1>6 DEF Queued, Single, Handles
<1>8. Single(t)'
  BY <1>1, <1>2, <1>6, <1>7 DEF Single, Handles
<1>9. PhaseAgrees(t)'
  BY <1>2, <1>6 DEF PhaseAgrees, Held
<1>10. Alive' => Alive
  BY <1>2 DEF Alive
<1> QED
  BY <1>1, <1>4, <1>5, <1>8, <1>9, <1>10, OneMoves

LEMMA AbandonTaskKeeps ==
    ASSUME HandOver, AbandonTask
    PROVE  HandOver'
<1>1. PICK t \in Tasks :
            /\ t = Head(processQueue) /\ Queued(t)
            /\ processQueue' \in Seq(Tasks) /\ Distinct(processQueue')
            /\ InOrder(processQueue') = InOrder(processQueue) \ {t}
  BY TailFacts DEF AbandonTask, HandOver, HandOverTypes, Queued
<1>2. /\ UNCHANGED <<inQueue, running, outQueue, runner, collector>>
      /\ phase' = [phase EXCEPT ![t] = "abandoned"]
  BY <1>1 DEF AbandonTask, pluginVars
<1>3. /\ phase' \in [Tasks -> Phases] /\ phase'[t] = "abandoned"
      /\ \A c \in Tasks \ {t} : phase'[c] = phase[c]
  BY <1>1, <1>2 DEF HandOver, HandOverTypes, Phases
<1>4. \A c \in Tasks \ {t} : Same(c)
  BY <1>1, <1>2, <1>3 DEF Same, Queued
<1>5. HandOverTypes'
  BY <1>1, <1>2, <1>3 DEF HandOver, HandOverTypes
<1>6. Single(t)
  BY <1>1 DEF HandOver
<1>7. /\ ~ Queued(t)' /\ runner'.task # t /\ collector'.task # t
      /\ \A p \in Plugins : ~ Handles(p, t)'
  BY <1>1, <1>2, <1>6 DEF Queued, Single, Handles
<1>8. Single(t)' /\ PhaseAgrees(t)'
  BY <1>3, <1>7 DEF Single, Handles, PhaseAgrees, Held
<1>9. Alive' => Alive
  BY <1>2 DEF Alive
<1> QED
  BY <1>1, <1>4, <1>5, <1>8, <1>9, OneMoves

LEMMA StartPluginKeeps ==
    ASSUME HandOver, StartPlugin
    PROVE  HandOver'
<1>0. PICK t \in Tasks, p \in Plugins : t = runner.task /\ p = runner.plugin
  BY DEF StartPlugin, HandOver, HandOverTypes
<1>1. /\ runner.pc = "decide" /\ runner'.task = NoTask /\ runner'.pc = "idle"
      /\ UNCHANGED <<phase, processQueue, running, collector>>
  BY DEF StartPlugin, Idle
<1>2. \/ Put(outQueue, outQueue', p, t) /\ inQueue' = inQueue
      \/ Put(inQueue, inQueue', p, t) /\ outQueue' = outQueue
  BY <1>0 DEF StartPlugin, AddJob, Put
<1>3. /\ Single(t) /\ PhaseAgrees(t) /\ Held(t)
      /\ ~ Queued(t) /\ collector.task # t
      /\ \A q \in Plugins : ~ Handles(q, t)
  BY <1>0 DEF HandOver, Single, Held
<1>4. \A c \in Tasks : runner'.task # c /\ (c # t => runner.task # c)
  BY <1>0, <1>1, NoTaskAssumption
<1>5. Alive' => Alive
  BY <1>1 DEF Alive
<1>6. /\ Queues(inQueue) /\ Queues(outQueue)
      /\ \A q \in Plugins : t \notin InOrder(inQueue[q]) /\ t \notin InOrder(outQueue[q])
  BY <1>3 DEF HandOver, HandOverTypes, Handles
<1>7. /\ Queues(inQueue') /\ Queues(outQueue')
      /\ \A q \in Plugins : \A c \in Tasks \ {t} :
            /\ c \in InOrder(inQueue'[q]) <=> c \in InOrder(inQueue[q])
            /\ c \in InOrder(outQueue'[q]) <=> c \in InOrder(outQueue[q])
      /\ \A q \in Plugins :
            ~ (t \in InOrder(inQueue'[q]) /\ t \in InOrder(outQueue'[q]))
      /\ \A q \in Plugins :
            t \in InOrder(inQueue'[q]) \/ t \in InOrder(outQueue'[q]) <=> q = p
  <2>1. CASE Put(outQueue, outQueue', p, t) /\ inQueue' = inQueue
    <3>1. /\ Queues(outQueue')
          /\ \A q \in Plugins : \A x :
                x \in InOrder(outQueue'[q]) <=>
                    x \in InOrder(outQueue[q]) \/ (q = p /\ x = t)
      BY <1>6, <2>1, PutFacts
    <3> QED
      BY <1>6, <2>1, <3>1
  <2>2. CASE Put(inQueue, inQueue', p, t) /\ outQueue' = outQueue
    <3>1. /\ Queues(inQueue')
          /\ \A q \in Plugins : \A x :
                x \in InOrder(inQueue'[q]) <=>
                    x \in InOrder(inQueue[q]) \/ (q = p /\ x = t)
      BY <1>6, <2>2, PutFacts
    <3> QED
      BY <1>6, <2>2, <3>1
  <2> QED
    BY <1>2, <2>1, <2>2
<1>8. \A c \in Tasks \ {t} : Same(c)
  BY <1>1, <1>4, <1>7 DEF Same, Queued
<1>9. HandOverTypes'
  BY <1>1, <1>7 DEF HandOver, HandOverTypes
<1>10. /\ ~ Queued(t)' /\ collector'.task # t
       /\ \A q \in Plugins : t \notin running'[q] /\ (Handles(q, t)' <=> q = p)
  BY <1>1, <1>3, <1>7 DEF Queued, Handles
<1>11. Single(t)'
  BY <1>4, <1>7, <1>10 DEF Single
<1>12. PhaseAgrees(t)'
  BY <1>1, <1>3, <1>4, <1>10 DEF PhaseAgrees, Held
<1> QED
  BY <1>0, <1>5, <1>8, <1>9, <1>11, <1>12, OneMoves

LEMMA RunnerStepKeeps ==
    ASSUME HandOver, RunnerStep
    PROVE  HandOver'
<1>1. CASE SkipUnknownPlugin
  BY <1>1, RunnerGivesBack DEF SkipUnknownPlugin
<1>2. CASE SkipUpToDate
  BY <1>2, RunnerGivesBack DEF SkipUpToDate
<1>3. CASE StoreSkipped
  BY <1>3, RunnerGivesBack DEF StoreSkipped
<1>4. CASE SkipFiltered
  <2>1. /\ runner.pc = "decide" /\ runner'.pc = "store" /\ runner'.task = runner.task
        /\ UNCHANGED <<phase, processQueue, inQueue, running, outQueue, collector>>
    BY <1>4 DEF SkipFiltered, At, pluginVars
  <2>2. HandOverTypes'
    BY <2>1 DEF HandOver, HandOverTypes
  <2>3. \A c \in Tasks : Same(c)
    BY <2>1 DEF Same, Queued
  <2>4. Alive' => Alive
    BY <2>1 DEF Alive
  <2> QED
    BY <2>2, <2>3, <2>4, OthersStay DEF HandOver
<1>5. CASE RunnerCrash
  <2>1. PICK t \in Tasks : t = runner.task
    BY <1>5 DEF RunnerCrash, HandOver, HandOverTypes
  <2>2. /\ runner'.pc = "dead" /\ runner'.task = NoTask
        /\ UNCHANGED <<phase, processQueue, inQueue, running, outQueue, collector>>
    BY <1>5 DEF RunnerCrash, Dead, pluginVars
  <2>3. HandOverTypes'
    BY <2>2 DEF HandOver, HandOverTypes
  <2>4. \A c \in Tasks \ {t} : Same(c)
    BY <2>1, <2>2, NoTaskAssumption DEF Same, Queued
  <2>5. ~ Alive'
    BY <2>2 DEF Alive
  <2>6. /\ ~ Queued(t) /\ collector.task # t /\ runner'.task # t
        /\ \A p \in Plugins : ~ Handles(p, t)
    BY <2>1, <2>2, NoTaskAssumption DEF HandOver, Single
  <2>7. /\ ~ Queued(t)' /\ collector'.task # t
        /\ \A p \in Plugins : ~ Handles(p, t)'
    BY <2>2, <2>6 DEF Queued, Handles
  <2>8. Single(t)' /\ PhaseAgrees(t)'
    BY <2>5, <2>6, <2>7 DEF Single, PhaseAgrees, Held, Handles
  <2> QED
    BY <2>3, <2>4, <2>5, <2>8, OneMoves
<1> QED
  BY <1>1, <1>2, <1>3, <1>4, <1>5, TakeTaskKeeps, AbandonTaskKeeps, StartPluginKeeps
     DEF RunnerStep

----------------------------------------------------------------------------
(* The workers of the plugins. *)

\* A task that moves inside one plugin, from a place where it was.
LEMMA InsidePlugin ==
    ASSUME HandOver, NEW t \in Tasks, NEW p \in Plugins, Handles(p, t),
           UNCHANGED <<phase, processQueue, runner, collector>>,
           Queues(inQueue'), Queues(outQueue'), running' \in [Plugins -> SUBSET Tasks],
           \A c \in Tasks, q \in Plugins : c # t \/ q # p =>
                /\ c \in InOrder(inQueue'[q]) <=> c \in InOrder(inQueue[q])
                /\ c \in running'[q] <=> c \in running[q]
                /\ c \in InOrder(outQueue'[q]) <=> c \in InOrder(outQueue[q]),
           Handles(p, t)',
           t \in InOrder(inQueue'[p]) => t \notin running'[p] /\ t \notin InOrder(outQueue'[p]),
           t \in running'[p] => t \notin InOrder(outQueue'[p])
    PROVE  HandOver'
<1>1. HandOverTypes' /\ (Alive' => Alive)
  BY DEF HandOver, HandOverTypes, Alive
<1>2. \A c \in Tasks \ {t} : Same(c)
  BY DEF Same, Queued
<1>3. /\ Single(t) /\ PhaseAgrees(t) /\ Held(t)
      /\ ~ Queued(t) /\ runner.task # t /\ collector.task # t
      /\ \A q \in Plugins : Handles(q, t) <=> q = p
  BY DEF HandOver, Single, Held
<1>4. /\ ~ Queued(t)' /\ runner'.task # t /\ collector'.task # t
      /\ \A q \in Plugins : Handles(q, t)' <=> q = p
  BY <1>3 DEF Queued, Handles
<1>5. \A q \in Plugins \ {p} :
            /\ t \notin InOrder(inQueue'[q]) /\ t \notin running'[q]
            /\ t \notin InOrder(outQueue'[q])
  BY <1>4 DEF Handles
<1>6. Single(t)'
  BY <1>4, <1>5 DEF Single
<1>7. PhaseAgrees(t)'
  BY <1>3, <1>4 DEF PhaseAgrees, Held
<1> QED
  BY <1>1, <1>2, <1>6, <1>7, OneMoves

LEMMA BeginAnalysisKeeps ==
    ASSUME HandOver, NEW p \in Plugins, BeginAnalysis(p)
    PROVE  HandOver'
<1>1. /\ Queues(inQueue) /\ Queues(outQueue) /\ running \in [Plugins -> SUBSET Tasks]
      /\ Get(inQueue, inQueue', p)
  BY DEF HandOver, HandOverTypes, BeginAnalysis, Get
<1>2. PICK t \in Tasks :
        /\ t = Head(inQueue[p]) /\ t \in InOrder(inQueue[p])
        /\ Queues(inQueue')
        /\ \A q \in Plugins : \A x :
            x \in InOrder(inQueue'[q]) <=> x \in InOrder(inQueue[q]) /\ ~ (q = p /\ x = t)
  <2>1. /\ Head(inQueue[p]) \in Tasks /\ Head(inQueue[p]) \in InOrder(inQueue[p])
        /\ Queues(inQueue')
        /\ \A q \in Plugins : \A x :
            x \in InOrder(inQueue'[q]) <=>
                x \in InOrder(inQueue[q]) /\ ~ (q = p /\ x = Head(inQueue[p]))
    BY <1>1, GetFacts
  <2> QED
    BY <2>1
<1>3. /\ running' = [running EXCEPT ![p] = @ \cup {t}]
      /\ UNCHANGED <<phase, processQueue, outQueue, runner, collector>>
  BY <1>2 DEF BeginAnalysis
<1>4. /\ running' \in [Plugins -> SUBSET Tasks]
      /\ \A q \in Plugins : \A x : x \in running'[q] <=> x \in running[q] \/ (q = p /\ x = t)
  BY <1>1, <1>3
<1>5. Handles(p, t) /\ Handles(p, t)'
  BY <1>2, <1>4 DEF Handles
<1>6. t \notin InOrder(inQueue'[p]) /\ t \notin InOrder(outQueue'[p])
  BY <1>2, <1>3 DEF HandOver, Single
<1> QED
  BY <1>1, <1>2, <1>3, <1>4, <1>5, <1>6, InsidePlugin

LEMMA DeliverKeeps ==
    ASSUME HandOver, NEW p \in Plugins, NEW t \in Tasks, t \in running[p], Deliver(p, t),
           UNCHANGED <<phase, processQueue, inQueue, runner, collector>>
    PROVE  HandOver'
<1>1. /\ Queues(inQueue) /\ Queues(outQueue) /\ running \in [Plugins -> SUBSET Tasks]
      /\ Put(outQueue, outQueue', p, t)
      /\ running' = [running EXCEPT ![p] = @ \ {t}]
  BY DEF HandOver, HandOverTypes, Deliver, Put
<1>2. t \notin InOrder(inQueue[p]) /\ t \notin InOrder(outQueue[p])
  BY DEF HandOver, Single
<1>3. /\ Queues(outQueue')
      /\ \A q \in Plugins : \A x :
            x \in InOrder(outQueue'[q]) <=> x \in InOrder(outQueue[q]) \/ (q = p /\ x = t)
  BY <1>1, <1>2, PutFacts
<1>4. /\ running' \in [Plugins -> SUBSET Tasks]
      /\ \A q \in Plugins : \A x : x \in running'[q] <=> x \in running[q] /\ ~ (q = p /\ x = t)
  BY <1>1
<1>5. Handles(p, t) /\ Handles(p, t)'
  BY <1>3 DEF Handles
<1> QED
  BY <1>1, <1>2, <1>3, <1>4, <1>5, InsidePlugin

LEMMA WorkerStepKeeps ==
    ASSUME HandOver, NEW p \in Plugins, NEW t \in Tasks, WorkerStep(p, t)
    PROVE  HandOver'
<1>1. CASE Analyze(p, t)
  BY <1>1, NothingMoves DEF Analyze, pluginVars, HandOver, HandOverTypes
<1>2. CASE FinishAnalysis(p, t)
  BY <1>2, DeliverKeeps DEF FinishAnalysis
<1>3. CASE FailAnalysis(p, t)
  BY <1>3, DeliverKeeps DEF FailAnalysis
<1> QED
  BY <1>1, <1>2, <1>3 DEF WorkerStep

----------------------------------------------------------------------------
(* The result collector. *)

\* What the collector takes out of the out queue of a plugin.
LEMMA TakenOut ==
    ASSUME HandOver, NEW p \in Plugins, collector.pc = "idle", Get(outQueue, outQueue', p)
    PROVE  \E t \in Tasks :
            /\ t = Head(outQueue[p]) /\ Queues(outQueue')
            /\ \A c \in Tasks, q \in Plugins :
                c \in InOrder(outQueue'[q]) <=> c \in InOrder(outQueue[q]) /\ c # t
            /\ Held(t) /\ ~ Queued(t) /\ runner.task # t
            /\ \A q \in Plugins : t \notin InOrder(inQueue[q]) /\ t \notin running[q]
<1>1. Queues(outQueue)
  BY DEF HandOver, HandOverTypes
<1>2. /\ Head(outQueue[p]) \in Tasks /\ Head(outQueue[p]) \in InOrder(outQueue[p])
      /\ Queues(outQueue')
      /\ \A q \in Plugins : \A x :
            x \in InOrder(outQueue'[q]) <=>
                x \in InOrder(outQueue[q]) /\ ~ (q = p /\ x = Head(outQueue[p]))
  BY <1>1, GetFacts
<1>3. PICK t \in Tasks : t = Head(outQueue[p])
  BY <1>2
<1>4. /\ Single(t) /\ Handles(p, t)
      /\ \A q \in Plugins : Handles(q, t) => q = p
  BY <1>2, <1>3 DEF HandOver, Single, Handles
<1>5. /\ Held(t) /\ ~ Queued(t) /\ runner.task # t
      /\ \A q \in Plugins : t \notin InOrder(inQueue[q]) /\ t \notin running[q]
      /\ \A q \in Plugins : t \in InOrder(outQueue[q]) => q = p
  BY <1>2, <1>3, <1>4 DEF Single, Held, Handles
<1> QED
  BY <1>2, <1>3, <1>5

LEMMA CollectKeeps ==
    ASSUME HandOver, NEW p \in Plugins, Collect(p)
    PROVE  HandOver'
<1>1. collector.pc = "idle" /\ Get(outQueue, outQueue', p)
  BY DEF Collect, Get
<1>2. PICK t \in Tasks :
            /\ t = Head(outQueue[p]) /\ Queues(outQueue')
            /\ \A c \in Tasks, q \in Plugins :
                c \in InOrder(outQueue'[q]) <=> c \in InOrder(outQueue[q]) /\ c # t
            /\ Held(t) /\ ~ Queued(t) /\ runner.task # t
            /\ \A q \in Plugins : t \notin InOrder(inQueue[q]) /\ t \notin running[q]
  BY <1>1, TakenOut
<1>3. /\ collector'.pc = "store" /\ collector'.task = t
      /\ UNCHANGED <<phase, processQueue, inQueue, running, runner>>
  BY <1>2 DEF Collect, At
<1>4. collector.task = NoTask
  BY <1>1 DEF HandOver, HandOverTypes
<1>5. HandOverTypes'
  BY <1>2, <1>3, NoTaskAssumption DEF HandOver, HandOverTypes
<1>6. \A c \in Tasks \ {t} : Same(c)
  BY <1>2, <1>3, <1>4, NoTaskAssumption DEF Same, Queued
<1>7. /\ ~ Queued(t)' /\ runner'.task # t
      /\ \A q \in Plugins : ~ Handles(q, t)'
  BY <1>2, <1>3 DEF Queued, Handles
<1>8. Single(t)'
  BY <1>3, <1>7 DEF Single, Handles
<1>9. PhaseAgrees(t)'
  BY <1>2, <1>3 DEF HandOver, PhaseAgrees, Held
<1>10. Alive' => Alive
  BY <1>1, <1>3 DEF Alive
<1> QED
  BY <1>2, <1>5, <1>6, <1>8, <1>9, <1>10, OneMoves

LEMMA CollectWithoutResultKeeps ==
    ASSUME HandOver, NEW p \in Plugins, CollectWithoutResult(p)
    PROVE  HandOver'
<1>1. collector.pc = "idle" /\ Get(outQueue, outQueue', p)
  BY DEF CollectWithoutResult, Get
<1>2. PICK t \in Tasks :
            /\ t = Head(outQueue[p]) /\ Queues(outQueue')
            /\ \A c \in Tasks, q \in Plugins :
                c \in InOrder(outQueue'[q]) <=> c \in InOrder(outQueue[q]) /\ c # t
            /\ Held(t) /\ ~ Queued(t) /\ runner.task # t
            /\ \A q \in Plugins : t \notin InOrder(inQueue[q]) /\ t \notin running[q]
  BY <1>1, TakenOut
<1>3. /\ CheckFurther(t, scheduled[t])
      /\ UNCHANGED <<inQueue, running, runner, collector>>
  BY <1>2 DEF CollectWithoutResult
<1>4. collector.task = NoTask /\ collector.pc = "idle"
  BY <1>1 DEF HandOver, HandOverTypes
<1>5. \A q \in Plugins : ~ Handles(q, t)'
  BY <1>2, <1>3 DEF Handles
<1>6. Alive' => Alive
  BY <1>3 DEF Alive
<1>7. runner'.task \in (Tasks \ {t}) \cup {NoTask}
  BY <1>2, <1>3 DEF HandOver, HandOverTypes
<1>8. /\ Queues(inQueue') /\ running' \in [Plugins -> SUBSET Tasks]
      /\ runner'.pc \in {"decide", "store"} <=> runner'.task # NoTask
      /\ collector'.task \in (Tasks \ {t}) \cup {NoTask}
      /\ collector'.pc = "store" <=> collector'.task # NoTask
  BY <1>3, <1>4 DEF HandOver, HandOverTypes
<1> QED
  BY <1>2, <1>3, <1>5, <1>6, <1>7, <1>8, GivenBack

LEMMA CollectorCrashKeeps ==
    ASSUME HandOver, NEW p \in Plugins, CollectorCrash(p)
    PROVE  HandOver'
<1>1. collector.pc = "idle" /\ Get(outQueue, outQueue', p)
  BY DEF CollectorCrash, Get
<1>2. PICK t \in Tasks :
            /\ t = Head(outQueue[p]) /\ Queues(outQueue')
            /\ \A c \in Tasks, q \in Plugins :
                c \in InOrder(outQueue'[q]) <=> c \in InOrder(outQueue[q]) /\ c # t
            /\ Held(t) /\ ~ Queued(t) /\ runner.task # t
            /\ \A q \in Plugins : t \notin InOrder(inQueue[q]) /\ t \notin running[q]
  BY <1>1, TakenOut
<1>3. /\ collector'.pc = "dead" /\ collector'.task = NoTask
      /\ UNCHANGED <<phase, processQueue, inQueue, running, runner>>
  BY DEF CollectorCrash, Dead
<1>4. collector.task = NoTask
  BY <1>1 DEF HandOver, HandOverTypes
<1>5. HandOverTypes'
  BY <1>2, <1>3 DEF HandOver, HandOverTypes
<1>6. \A c \in Tasks \ {t} : Same(c)
  BY <1>2, <1>3, <1>4 DEF Same, Queued
<1>7. /\ ~ Queued(t)' /\ runner'.task # t /\ collector'.task # t
      /\ \A q \in Plugins : ~ Handles(q, t)'
  BY <1>2, <1>3, NoTaskAssumption DEF Queued, Handles
<1>8. ~ Alive'
  BY <1>3 DEF Alive
<1>9. Single(t)' /\ PhaseAgrees(t)'
  BY <1>7, <1>8 DEF Single, PhaseAgrees, Held, Handles
<1> QED
  BY <1>2, <1>5, <1>6, <1>8, <1>9, OneMoves

LEMMA StoreResultKeeps ==
    ASSUME HandOver, StoreResult
    PROVE  HandOver'
<1>1. collector.pc = "store"
  BY DEF StoreResult
<1>2. PICK t \in Tasks : t = collector.task
  BY <1>1 DEF HandOver, HandOverTypes
<1>3. /\ CheckFurther(t, scheduled[t]) /\ collector'.pc = "idle" /\ collector'.task = NoTask
      /\ UNCHANGED <<inQueue, running, outQueue, runner>>
  BY <1>2 DEF StoreResult, Idle, pluginVars
<1>4. /\ ~ Queued(t) /\ runner.task # t
      /\ \A p \in Plugins : ~ Handles(p, t)
  BY <1>2 DEF HandOver, Single
<1>5. \A p \in Plugins : ~ Handles(p, t)'
  BY <1>3, <1>4 DEF Handles
<1>6. \A c \in Tasks \ {t} : collector.task # c /\ collector'.task # c
  BY <1>2, <1>3, NoTaskAssumption
<1>7. Alive' => Alive
  BY <1>1, <1>3 DEF Alive
<1>8. /\ Queues(inQueue') /\ Queues(outQueue') /\ running' \in [Plugins -> SUBSET Tasks]
      /\ runner'.task \in (Tasks \ {t}) \cup {NoTask}
      /\ runner'.pc \in {"decide", "store"} <=> runner'.task # NoTask
      /\ collector'.task \in (Tasks \ {t}) \cup {NoTask}
      /\ collector'.pc = "store" <=> collector'.task # NoTask
  BY <1>3, <1>4 DEF HandOver, HandOverTypes
<1> QED
  BY <1>3, <1>4, <1>5, <1>6, <1>7, <1>8, GivenBack

----------------------------------------------------------------------------
(* A task is lost with the child that analyses it, or with the collector. *)

Loses(t) ==
    \/ \E p \in Plugins : KillAnalysis(p, t)
    \/ StoreResultRaises /\ t = collector.task

Loss == StoreResultRaises \/ \E p \in Plugins, t \in Tasks : KillAnalysis(p, t)

LEMMA SomeTaskLost ==
    ASSUME HandOver, Loss
    PROVE  \E t \in Tasks : Loses(t)
<1>1. CASE StoreResultRaises
  <2>1. collector.pc = "store"
    BY <1>1 DEF StoreResultRaises
  <2>2. collector.task \in Tasks
    BY <2>1 DEF HandOver, HandOverTypes
  <2> QED
    BY <1>1, <2>2 DEF Loses
<1>2. CASE \E p \in Plugins, t \in Tasks : KillAnalysis(p, t)
  BY <1>2 DEF Loses
<1> QED
  BY <1>1, <1>2 DEF Loss

LEMMA LossHands ==
    ASSUME HandOver, NEW t \in Tasks, Loses(t)
    PROVE  HandOver' /\ Held(t) /\ ~ Held(t)'
<1>1. CASE \E p \in Plugins : KillAnalysis(p, t)
  <2>1. PICK p \in Plugins : KillAnalysis(p, t)
    BY <1>1
  <2>2. /\ t \in running[p]
        /\ phase' = [phase EXCEPT ![t] = "lost"]
        /\ running' = [running EXCEPT ![p] = @ \ {t}]
        /\ UNCHANGED <<processQueue, inQueue, outQueue, runner, collector>>
    BY <2>1 DEF KillAnalysis
  <2>3. Handles(p, t) /\ Held(t)
    BY <2>2 DEF Handles, Held
  <2>4. /\ ~ Queued(t) /\ runner.task # t /\ collector.task # t
        /\ \A q \in Plugins : Handles(q, t) <=> q = p
        /\ t \notin InOrder(inQueue[p]) /\ t \notin InOrder(outQueue[p])
    BY <2>2, <2>3 DEF HandOver, Single
  <2>5. running \in [Plugins -> SUBSET Tasks]
    BY DEF HandOver, HandOverTypes
  <2>6. /\ running' \in [Plugins -> SUBSET Tasks]
        /\ \A q \in Plugins : \A x : x \in running'[q] <=> x \in running[q] /\ ~ (q = p /\ x = t)
    BY <2>2, <2>5
  <2>7. /\ ~ Queued(t)' /\ runner'.task # t /\ collector'.task # t
        /\ \A q \in Plugins : ~ Handles(q, t)'
    BY <2>2, <2>4, <2>6 DEF Queued, Handles
  <2>8. ~ Held(t)'
    BY <2>7 DEF Held
  <2>9. phase' \in [Tasks -> Phases] /\ phase'[t] = "lost"
    BY <2>2 DEF HandOver, HandOverTypes, Phases
  <2>10. HandOverTypes'
    BY <2>2, <2>6, <2>9 DEF HandOver, HandOverTypes
  <2>11. \A c \in Tasks \ {t} : Same(c)
    BY <2>2, <2>6 DEF Same, Queued, HandOver, HandOverTypes
  <2>12. Alive' => Alive
    BY <2>2 DEF Alive
  <2>13. Single(t)' /\ PhaseAgrees(t)'
    BY <2>7, <2>8, <2>9 DEF Single, PhaseAgrees, Handles
  <2> QED
    BY <2>3, <2>8, <2>10, <2>11, <2>12, <2>13, OneMoves
<1>2. CASE StoreResultRaises /\ t = collector.task
  <2>1. /\ collector'.pc = "dead" /\ collector'.task = NoTask
        /\ UNCHANGED <<phase, processQueue, inQueue, running, outQueue, runner>>
    BY <1>2 DEF StoreResultRaises, Dead, pluginVars
  <2>2. Held(t)
    BY <1>2 DEF Held
  <2>3. /\ ~ Queued(t) /\ runner.task # t /\ \A q \in Plugins : ~ Handles(q, t)
    BY <1>2 DEF HandOver, Single
  <2>4. /\ ~ Queued(t)' /\ runner'.task # t /\ collector'.task # t
        /\ \A q \in Plugins : ~ Handles(q, t)'
    BY <2>1, <2>3, NoTaskAssumption DEF Queued, Handles
  <2>5. ~ Held(t)' /\ ~ Alive'
    BY <2>1, <2>4 DEF Held, Alive
  <2>6. HandOverTypes'
    BY <2>1 DEF HandOver, HandOverTypes
  <2>7. \A c \in Tasks \ {t} : Same(c)
    BY <1>2, <2>1, NoTaskAssumption DEF Same, Queued
  <2>8. Single(t)' /\ PhaseAgrees(t)'
    BY <2>4, <2>5 DEF Single, PhaseAgrees, Handles
  <2> QED
    BY <2>2, <2>5, <2>6, <2>7, <2>8, OneMoves
<1> QED
  BY <1>1, <1>2 DEF Loses

----------------------------------------------------------------------------
(* The invariant, and what follows from it. *)

LEMMA HandOverInit ==
    ASSUME Init
    PROVE  HandOver
<1>1. /\ phase = [t \in Tasks |-> "new"]
      /\ processQueue = << >>
      /\ inQueue = [p \in Plugins |-> << >>]
      /\ running = [p \in Plugins |-> {}]
      /\ outQueue = [p \in Plugins |-> << >>]
      /\ runner.task = NoTask /\ runner.pc = "idle"
      /\ collector.task = NoTask /\ collector.pc = "idle"
  BY DEF Init, Idle
<1>2. Queues(inQueue) /\ Queues(outQueue)
  BY <1>1, EmptyFacts DEF Queues
<1>3. HandOverTypes
  BY <1>1, <1>2, EmptyFacts DEF HandOverTypes, Phases
<1>4. ASSUME NEW t \in Tasks PROVE Single(t) /\ PhaseAgrees(t)
  <2>1. /\ ~ Queued(t) /\ runner.task # t /\ collector.task # t
        /\ \A p \in Plugins : ~ Handles(p, t)
    BY <1>1, EmptyFacts, NoTaskAssumption DEF Queued, Handles
  <2> QED
    BY <1>1, <2>1 DEF Single, PhaseAgrees, Held, Handles
<1> QED
  BY <1>3, <1>4 DEF HandOver

LEMMA HandOverNext ==
    ASSUME HandOver, [Next]_vars
    PROVE  HandOver'
<1>1. CASE \E t \in Tasks : Enter(t) \/ RequestUpdate(t)
  BY <1>1, EnterKeeps
<1>2. CASE RunnerStep
  BY <1>2, RunnerStepKeeps
<1>3. CASE \E p \in Plugins : BeginAnalysis(p) \/ CollectorStep(p)
  BY <1>3, BeginAnalysisKeeps, CollectKeeps, CollectWithoutResultKeeps, CollectorCrashKeeps
     DEF CollectorStep
<1>4. CASE \E p \in Plugins, t \in Tasks : WorkerStep(p, t)
  BY <1>4, WorkerStepKeeps
<1>5. CASE StoreResult
  BY <1>5, StoreResultKeeps
<1>6. CASE \E fw \in Objects : DeleteFirmware(fw)
  BY <1>6, NothingMoves DEF DeleteFirmware, pluginVars, HandOver, HandOverTypes
<1>7. CASE UNCHANGED vars
  BY <1>7, NothingMoves DEF vars, pluginVars, HandOver, HandOverTypes
<1>8. CASE Loss
  BY <1>8, SomeTaskLost, LossHands
<1> QED
  BY <1>1, <1>2, <1>3, <1>4, <1>5, <1>6, <1>7, <1>8 DEF Next, Loss

LEMMA CopiesFacts ==
    ASSUME NEW queue \in Seq(Tasks), Distinct(queue), NEW t
    PROVE  /\ t \in InOrder(queue) => Copies(t, queue) = 1
           /\ t \notin InOrder(queue) => Copies(t, queue) = 0
<1>1. CASE t \in InOrder(queue)
  <2>1. PICK i \in DOMAIN queue : queue[i] = t
    BY <1>1 DEF InOrder
  <2>2. {j \in DOMAIN queue : queue[j] = t} = {i}
    BY <2>1 DEF Distinct
  <2> QED
    BY <1>1, <2>2, FS_Singleton DEF Copies
<1>2. CASE t \notin InOrder(queue)
  <2>1. {j \in DOMAIN queue : queue[j] = t} = {}
    BY <1>2 DEF InOrder
  <2> QED
    BY <1>2, <2>1, FS_EmptySet DEF Copies
<1> QED
  BY <1>1, <1>2

LEMMA HoldersFacts ==
    ASSUME NEW t \in Tasks, Single(t)
    PROVE  Cardinality(Holders(t)) = IF Held(t) THEN 1 ELSE 0
<1>1. CASE ~ Held(t)
  <2>1. Holders(t) = {}
    BY <1>1 DEF Held, Queued, Handles, Holders
  <2> QED
    BY <1>1, <2>1, FS_EmptySet
<1>2. CASE Held(t)
  <2>1. CASE Queued(t) \/ runner.task = t \/ collector.task = t
    <3>1. \A p \in Plugins :
            t \notin InOrder(inQueue[p]) /\ t \notin running[p] /\ t \notin InOrder(outQueue[p])
      BY <2>1 DEF Single, Handles
    <3>2. \E name : Holders(t) = {<<name, NoPlugin>>}
      BY <2>1, <3>1 DEF Single, Queued, Holders
    <3> QED
      BY <1>2, <3>2, FS_Singleton
  <2>2. CASE \E p \in Plugins : Handles(p, t)
    <3>1. PICK p \in Plugins : Handles(p, t)
      BY <2>2
    <3>2. /\ t \notin InOrder(processQueue) /\ runner.task # t /\ collector.task # t
          /\ \A q \in Plugins \ {p} :
                t \notin InOrder(inQueue[q]) /\ t \notin running[q] /\ t \notin InOrder(outQueue[q])
      BY <3>1 DEF Single, Handles, Queued
    <3>3. CASE t \in InOrder(inQueue[p])
      <4>1. Holders(t) = {<<"in", p>>}
        BY <3>2, <3>3 DEF Single, Holders
      <4> QED
        BY <1>2, <4>1, FS_Singleton
    <3>4. CASE t \in running[p]
      <4>1. Holders(t) = {<<"run", p>>}
        BY <3>2, <3>4 DEF Single, Holders
      <4> QED
        BY <1>2, <4>1, FS_Singleton
    <3>5. CASE t \in InOrder(outQueue[p])
      <4>1. Holders(t) = {<<"out", p>>}
        BY <3>2, <3>5 DEF Single, Holders
      <4> QED
        BY <1>2, <4>1, FS_Singleton
    <3> QED
      BY <3>1, <3>3, <3>4, <3>5 DEF Handles
  <2> QED
    BY <1>2, <2>1, <2>2 DEF Held
<1> QED
  BY <1>1, <1>2

LEMMA HandOverImplies ==
    ASSUME HandOver
    PROVE  InOnePlace
<1> SUFFICES ASSUME Alive, NEW t \in Tasks
             PROVE  /\ Cardinality(Holders(t)) = (IF phase[t] = "active" THEN 1 ELSE 0)
                    /\ Copies(t, processQueue) <= 1
                    /\ \A p \in Plugins : Copies(t, inQueue[p]) + Copies(t, outQueue[p]) <= 1
  BY DEF InOnePlace, Alive
<1>1. Single(t) /\ (Held(t) <=> phase[t] = "active")
  BY DEF HandOver, PhaseAgrees
<1>2. Cardinality(Holders(t)) = (IF phase[t] = "active" THEN 1 ELSE 0)
  BY <1>1, HoldersFacts
<1>3. Copies(t, processQueue) <= 1
  BY CopiesFacts DEF HandOver, HandOverTypes
<1>4. ASSUME NEW p \in Plugins PROVE Copies(t, inQueue[p]) + Copies(t, outQueue[p]) <= 1
  <2>1. /\ inQueue[p] \in Seq(Tasks) /\ Distinct(inQueue[p])
        /\ outQueue[p] \in Seq(Tasks) /\ Distinct(outQueue[p])
    BY DEF HandOver, HandOverTypes, Queues
  <2>2. /\ t \in InOrder(inQueue[p]) => Copies(t, inQueue[p]) = 1
        /\ t \notin InOrder(inQueue[p]) => Copies(t, inQueue[p]) = 0
        /\ t \in InOrder(outQueue[p]) => Copies(t, outQueue[p]) = 1
        /\ t \notin InOrder(outQueue[p]) => Copies(t, outQueue[p]) = 0
    BY <2>1, CopiesFacts
  <2> QED
    BY <1>1, <2>2 DEF Single
<1> QED
  BY <1>2, <1>3, <1>4

(***************************************************************************)
(* For any tasks and plugins, any requests, dependencies, failures and     *)
(* numbers of worker processes: as long as the schedule process and the    *)
(* result collector live, an active task is in exactly one queue, worker   *)
(* or process, once, and any other task is in none.                        *)
(***************************************************************************)
THEOREM InOnePlaceTheorem ==
    Spec => []InOnePlace
<1>1. Init => HandOver
  BY HandOverInit
<1>2. HandOver /\ [Next]_vars => HandOver'
  BY HandOverNext
<1>3. HandOver => InOnePlace
  BY HandOverImplies
<1> QED
  BY <1>1, <1>2, <1>3, PTL DEF Spec

----------------------------------------------------------------------------
(***************************************************************************)
(* The data of the tasks and of the database.                              *)
(***************************************************************************)
DataTypes ==
    /\ scheduled \in [Tasks -> Seq(Names)]
    /\ processed \in [Tasks -> [Plugins -> Entry]]
    /\ exception \in [Tasks -> Plugins \cup {NoPlugin}]
    /\ runner \in [pc : {"idle", "decide", "store", "dead"},
                   task : Tasks \cup {NoTask}, plugin : Names \cup {NoPlugin}]
    /\ collector \in [pc : {"idle", "store", "dead"},
                      task : Tasks \cup {NoTask}, plugin : Plugins \cup {NoPlugin}]
    /\ stored \subseteq Objects
    /\ analyses \in [Objects -> [Plugins -> Entry]]
    /\ clock \in [Objects -> Nat]
    /\ planned \in [Tasks -> SUBSET Names]

\* A task in the process queue has a plugin left.
SomethingScheduled == \A t \in Tasks : Queued(t) => scheduled[t] # << >>

\* What is going to be stored is the result of a loaded plugin.
ResultInHand ==
    /\ runner.pc = "store" =>
        runner.plugin \in Plugins /\ Present(processed[runner.task][runner.plugin])
    /\ collector.pc = "store" =>
        collector.plugin \in Plugins /\ Present(processed[collector.task][collector.plugin])

Typed == HandOver /\ DataTypes /\ SomethingScheduled /\ ResultInHand

LEMMA UidFacts == \A t \in Tasks : Uid(t) \in Objects
  BY RequestAssumption DEF Uid

LEMMA EntryFacts ==
    ASSUME DataTypes, NEW u \in Objects, NEW p \in Plugins
    PROVE  /\ Absent \in Entry /\ Empty \in Entry
           /\ OkResult(u, p) \in Entry /\ OkResult(u, p).result = "ok"
           /\ \A kind \in {"skipped", "failed", "unscheduled"} :
                OtherResult(kind, u, p) \in Entry /\ OtherResult(kind, u, p).result = kind
           /\ ~ Present(Absent) /\ Empty.result = "empty"
           /\ Present(Empty) /\ Present(OkResult(u, p))
           /\ \A kind \in {"skipped", "failed", "unscheduled"} : Present(OtherResult(kind, u, p))
<1>1. Version[p] \in Nat /\ SystemVersion[p] \in Nat /\ clock[u] + 1 \in Nat
  BY VersionAssumption DEF DataTypes
<1> QED
  BY <1>1 DEF Absent, Empty, OkResult, OtherResult, Now, Entry, Present

\* A new result of plugin p in the entries of an object or task.
LEMMA NewResult ==
    ASSUME NEW I, NEW f \in [I -> [Plugins -> Entry]], NEW i \in I, NEW p \in Plugins,
           NEW e \in Entry
    PROVE  /\ [f EXCEPT ![i][p] = e] \in [I -> [Plugins -> Entry]]
           /\ \A j \in I \ {i} : [f EXCEPT ![i][p] = e][j] = f[j]
           /\ [f EXCEPT ![i][p] = e][i][p] = e
           /\ \A q \in Plugins \ {p} : [f EXCEPT ![i][p] = e][i][q] = f[i][q]
  OBVIOUS

LEMMA WithFileTypeFacts ==
    ASSUME DataTypes, NEW t \in Tasks
    PROVE  /\ WithFileType(t) \in [Plugins -> Entry]
           /\ \A p \in Plugins : Present(processed[t][p]) => WithFileType(t)[p] = processed[t][p]
           /\ \A p \in Plugins \ {FileType} : WithFileType(t)[p] = processed[t][p]
<1>1. FileType \in Plugins /\ analyses[Uid(t)] \in [Plugins -> Entry]
  BY UidFacts, PluginsAssumption DEF DataTypes
<1> QED
  BY <1>1 DEF WithFileType, DataTypes

LEMMA ReaderFacts ==
    ASSUME HandOver, DataTypes
    PROVE  /\ runner.pc \in {"decide", "store"} => runner.task \in Tasks
           /\ collector.pc = "store" => collector.task \in Tasks
           /\ \A p \in Plugins : inQueue[p] # << >> =>
                /\ Head(inQueue[p]) \in Tasks
                /\ Head(inQueue[p]) \in InOrder(inQueue[p])
           /\ \A p \in Plugins : outQueue[p] # << >> =>
                /\ Head(outQueue[p]) \in Tasks
                /\ Head(outQueue[p]) \in InOrder(outQueue[p])
           /\ processQueue # << >> => Head(processQueue) \in Tasks /\ Queued(Head(processQueue))
<1>1. /\ processQueue # << >> => Head(processQueue) \in Tasks /\ Queued(Head(processQueue))
  BY TailFacts DEF HandOver, HandOverTypes, Queued
<1>2. ASSUME NEW p \in Plugins, inQueue[p] # << >>
      PROVE  Head(inQueue[p]) \in Tasks /\ Head(inQueue[p]) \in InOrder(inQueue[p])
  BY <1>2, TailFacts DEF HandOver, HandOverTypes, Queues
<1>3. ASSUME NEW p \in Plugins, outQueue[p] # << >>
      PROVE  Head(outQueue[p]) \in Tasks /\ Head(outQueue[p]) \in InOrder(outQueue[p])
  BY <1>3, TailFacts DEF HandOver, HandOverTypes, Queues
<1> QED
  BY <1>1, <1>2, <1>3 DEF HandOver, HandOverTypes

LEMMA PlannedList ==
    ASSUME NEW list, list \in Seq(Names), AllLoaded(list),
           NEW mandatory \in BOOLEAN, NEW plan \in Plans(InOrder(list), mandatory)
    PROVE  /\ plan \in Seq(Plugins) /\ plan \in Seq(Names) /\ Distinct(plan)
           /\ InOrder(plan) \subseteq Plugins
           /\ DependencyPreserving(plan) /\ DependenciesIncluded(plan)
<1>1. PluginsKnown /\ Mandatory \subseteq Plugins /\ Dependencies[FileType] = {}
  BY PluginsAssumption DEF PluginsKnown
<1>2. InOrder(list) \in SUBSET Plugins
  BY DEF AllLoaded
<1>3. /\ plan \in Seq(Plugins) /\ Distinct(plan)
      /\ DependencyPreserving(plan) /\ DependenciesIncluded(plan)
  BY <1>1, <1>2, PlansAreSound
<1>4. InOrder(plan) \subseteq Plugins
  BY <1>3 DEF InOrder
<1>5. Plugins \subseteq Names
  BY PluginsAssumption
<1>6. plan \in Seq(Names)
  <2>1. plan \in [1..Len(plan) -> Plugins] /\ Len(plan) \in Nat
    BY <1>3
  <2>2. plan \in [1..Len(plan) -> Names]
    BY <1>5, <2>1
  <2> QED
    BY <2>1, <2>2
<1> QED
  BY <1>3, <1>4, <1>6

LEMMA PlanTypes ==
    ASSUME Typed, NEW t \in Tasks, NEW list \in Seq(Names), AllLoaded(list),
           NEW mandatory \in BOOLEAN, NEW plan \in Plans(InOrder(list), mandatory),
           Plan(t, plan)
    PROVE  /\ scheduled' \in [Tasks -> Seq(Names)]
           /\ planned' \in [Tasks -> SUBSET Names]
<1>1. plan \in Seq(Names) /\ InOrder(plan) \in SUBSET Names
  BY PlannedList, PluginsAssumption
<1> QED
  BY <1>1 DEF Plan, Typed, DataTypes

LEMMA StoreTypes ==
    ASSUME DataTypes, NEW u \in Objects, NEW p \in Plugins, NEW e \in Entry,
           StoreAnalysis(u, p, e)
    PROVE  analyses' \in [Objects -> [Plugins -> Entry]]
<1>1. CASE UNCHANGED analyses
  BY <1>1 DEF DataTypes
<1>2. CASE analyses' = [analyses EXCEPT ![u][p] =
                LET old == @ IN
                IF Present(old) THEN [e EXCEPT !.system = old.system] ELSE e]
  <2>1. analyses[u][p] \in Entry
    BY DEF DataTypes
  <2>2. PICK new \in Entry : analyses' = [analyses EXCEPT ![u][p] = new]
    <3>1. [e EXCEPT !.system = analyses[u][p].system] \in Entry
      BY <2>1 DEF Entry
    <3> QED
      BY <1>2, <3>1
  <2> QED
    BY <2>2, NewResult DEF DataTypes
<1> QED
  BY <1>1, <1>2 DEF StoreAnalysis

LEMMA InitTyped ==
    ASSUME Init
    PROVE  DataTypes /\ SomethingScheduled /\ ResultInHand
<1>1. /\ Absent \in Entry /\ KnownBefore \subseteq Objects
      /\ StoredBefore \in [Objects -> [Plugins -> Entry]]
      /\ \A t \in Tasks : Request[t].plugins \in Seq(Names)
  BY DatabaseAssumption, RequestAssumption DEF Absent, Entry
<1>2. DataTypes
  BY <1>1 DEF Init, DataTypes, Idle
<1>3. SomethingScheduled
  BY EmptyFacts DEF Init, SomethingScheduled, Queued
<1>4. ResultInHand
  BY DEF Init, ResultInHand, Idle
<1> QED
  BY <1>2, <1>3, <1>4

(***************************************************************************)
(* What a step leaves alone of a task, and the steps that concern only one.*)
(***************************************************************************)
Frame(c) ==
    /\ Same(c)
    /\ scheduled'[c] = scheduled[c]
    /\ processed'[c] = processed[c]
    /\ planned'[c] = planned[c]
    /\ runner.task = c => runner' = runner
    /\ collector.task = c => collector' = collector

OnlyMoves(t) == \A c \in Tasks \ {t} : Frame(c)

\* Nobody has the task in hand, after the step.
Released(t) ==
    /\ runner.task # t /\ collector.task # t
    /\ \A p \in Plugins : ~ Handles(p, t)

\* The schedule process or the collector is done with the task, and nothing moved.
GivesBack(t, list) ==
    /\ CheckFurther(t, list) /\ ~ Queued(t)
    /\ OnlyMoves(t)
    /\ Released(t)'
    /\ scheduled'[t] = list

LEMMA CheckFurtherMoves ==
    ASSUME HandOver, NEW t \in Tasks, NEW list, CheckFurther(t, list), ~ Queued(t)
    PROVE  /\ \A c \in Tasks \ {t} : phase'[c] = phase[c] /\ (Queued(c)' <=> Queued(c))
           /\ list = << >> => phase'[t] = "completed" /\ ~ Queued(t)'
           /\ list # << >> => phase'[t] = "active" /\ Queued(t)'
<1>1. /\ \A c \in Tasks \ {t} : phase'[c] = phase[c] /\ (Queued(c)' <=> Queued(c))
      /\ Queued(t)' <=> phase'[t] = "active"
  BY CheckFurtherFacts
<1>2. /\ list = << >> => phase'[t] = "completed"
      /\ list # << >> => phase'[t] = "active"
  BY DEF CheckFurther, HandOver, HandOverTypes
<1> QED
  BY <1>1, <1>2

LEMMA EnterMoves ==
    ASSUME Typed, NEW t \in Tasks, NEW list, phase[t] # "active", CheckFurther(t, list),
           UNCHANGED <<pluginVars, runner, collector>>,
           \A c \in Tasks \ {t} :
                /\ scheduled'[c] = scheduled[c] /\ processed'[c] = processed[c]
                /\ planned'[c] = planned[c],
           scheduled'[t] = list
    PROVE  GivesBack(t, list)
<1>1. ~ Held(t)
  BY DEF Typed, HandOver, PhaseAgrees
<1>2. /\ ~ Queued(t) /\ runner.task # t /\ collector.task # t
      /\ \A p \in Plugins : ~ Handles(p, t)
  BY <1>1 DEF Held
<1>3. UNCHANGED <<inQueue, running, outQueue, runner, collector>>
  BY DEF pluginVars
<1>4. Released(t)'
  BY <1>2, <1>3 DEF Released, Handles
<1>5. \A c \in Tasks \ {t} : phase'[c] = phase[c] /\ (Queued(c)' <=> Queued(c))
  BY <1>2, CheckFurtherMoves DEF Typed
<1>6. OnlyMoves(t)
  BY <1>3, <1>5 DEF OnlyMoves, Frame, Same
<1> QED
  BY <1>2, <1>4, <1>6 DEF GivesBack

LEMMA RunnerMoves ==
    ASSUME Typed, NEW t \in Tasks, runner.task = t,
           CheckFurther(t, scheduled[t]), runner' = Idle,
           UNCHANGED <<pluginVars, collector, scheduled, planned>>,
           \A c \in Tasks \ {t} : processed'[c] = processed[c]
    PROVE  GivesBack(t, scheduled[t])
<1>1. /\ ~ Queued(t) /\ collector.task # t
      /\ \A p \in Plugins : ~ Handles(p, t)
  BY DEF Typed, HandOver, Single
<1>2. UNCHANGED <<inQueue, running, outQueue, collector>>
  BY DEF pluginVars
<1>3. /\ \A c \in Tasks : runner'.task # c
      /\ \A c \in Tasks \ {t} : runner.task # c
  BY NoTaskAssumption DEF Idle
<1>4. Released(t)'
  BY <1>1, <1>2, <1>3 DEF Released, Handles
<1>5. \A c \in Tasks \ {t} : phase'[c] = phase[c] /\ (Queued(c)' <=> Queued(c))
  BY <1>1, CheckFurtherMoves DEF Typed
<1>6. OnlyMoves(t)
  BY <1>2, <1>3, <1>5 DEF OnlyMoves, Frame, Same
<1> QED
  BY <1>1, <1>4, <1>6 DEF GivesBack

LEMMA StoreResultMoves ==
    ASSUME Typed, NEW t \in Tasks, collector.task = t, StoreResult
    PROVE  GivesBack(t, scheduled[t])
<1>1. /\ ~ Queued(t) /\ runner.task # t
      /\ \A p \in Plugins : ~ Handles(p, t)
  BY DEF Typed, HandOver, Single
<1>2. /\ UNCHANGED <<inQueue, running, outQueue, runner, scheduled, processed, planned>>
      /\ CheckFurther(t, scheduled[t]) /\ collector' = Idle
  BY DEF pluginVars, taskVars, StoreResult
<1>3. /\ \A c \in Tasks : collector'.task # c
      /\ \A c \in Tasks \ {t} : collector.task # c
  BY <1>2, NoTaskAssumption DEF Idle
<1>4. Released(t)'
  BY <1>1, <1>2, <1>3 DEF Released, Handles
<1>5. \A c \in Tasks \ {t} : phase'[c] = phase[c] /\ (Queued(c)' <=> Queued(c))
  BY <1>1, <1>2, CheckFurtherMoves DEF Typed
<1>6. OnlyMoves(t)
  BY <1>2, <1>3, <1>5 DEF OnlyMoves, Frame, Same
<1> QED
  BY <1>1, <1>2, <1>4, <1>6 DEF GivesBack

LEMMA CollectWithoutResultMoves ==
    ASSUME Typed, NEW p \in Plugins, NEW t \in Tasks, t = Head(outQueue[p]),
           CollectWithoutResult(p)
    PROVE  GivesBack(t, scheduled[t]) /\ t \in InOrder(outQueue[p])
<1>1. collector.pc = "idle" /\ Get(outQueue, outQueue', p) /\ HandOver
  BY DEF CollectWithoutResult, Get, Typed
<1>2. /\ \A c \in Tasks, q \in Plugins :
            c \in InOrder(outQueue'[q]) <=> c \in InOrder(outQueue[q]) /\ c # t
      /\ ~ Queued(t) /\ runner.task # t
      /\ \A q \in Plugins : t \notin InOrder(inQueue[q]) /\ t \notin running[q]
  BY <1>1, TakenOut
<1>3. /\ CheckFurther(t, scheduled[t])
      /\ UNCHANGED <<inQueue, running, runner, collector, scheduled, processed, planned>>
  BY DEF CollectWithoutResult, taskVars
<1>4. collector.task = NoTask
  BY <1>1 DEF HandOver, HandOverTypes
<1>5. Released(t)'
  BY <1>2, <1>3, <1>4, NoTaskAssumption DEF Released, Handles
<1>6. \A c \in Tasks \ {t} : phase'[c] = phase[c] /\ (Queued(c)' <=> Queued(c))
  BY <1>1, <1>2, <1>3, CheckFurtherMoves
<1>7. OnlyMoves(t)
  BY <1>2, <1>3, <1>6 DEF OnlyMoves, Frame, Same
<1>8. t \in InOrder(outQueue[p])
  BY <1>1, ReaderFacts DEF Typed, Get
<1> QED
  BY <1>2, <1>3, <1>5, <1>7, <1>8 DEF GivesBack

\* A task goes from one hand to the next, with the same plugin.
LEMMA TakeTaskMoves ==
    ASSUME Typed, TakeTask, NEW t \in Tasks, t = Head(processQueue)
    PROVE  /\ OnlyMoves(t)
           /\ Queued(t) /\ Released(t)
           /\ ~ Queued(t)' /\ runner'.task = t /\ collector'.task # t
           /\ \A p \in Plugins : ~ Handles(p, t)'
<1>1. /\ Queued(t)
      /\ InOrder(processQueue') = InOrder(processQueue) \ {t}
  BY TailFacts DEF TakeTask, Typed, HandOver, HandOverTypes, Queued
<1>2. /\ runner.pc = "idle" /\ runner'.pc = "decide" /\ runner'.task = t
      /\ UNCHANGED <<phase, inQueue, running, outQueue, collector, processed, planned>>
  BY DEF TakeTask, At, pluginVars
<1>3. runner.task = NoTask
  BY <1>2 DEF Typed, HandOver, HandOverTypes
<1>4. \A c \in Tasks \ {t} : scheduled'[c] = scheduled[c]
  BY DEF TakeTask, Typed, DataTypes
<1>5. OnlyMoves(t)
  BY <1>1, <1>2, <1>3, <1>4, NoTaskAssumption DEF OnlyMoves, Frame, Same, Queued
<1>6. Released(t)
  BY <1>1 DEF Typed, HandOver, Single, Released
<1> QED
  BY <1>1, <1>2, <1>5, <1>6 DEF Queued, Released, Handles

LEMMA StartPluginMoves ==
    ASSUME Typed, StartPlugin, NEW t \in Tasks, NEW p \in Plugins,
           t = runner.task, p = runner.plugin
    PROVE  /\ OnlyMoves(t)
           /\ ~ Queued(t)' /\ runner'.task # t /\ collector.task # t /\ collector'.task # t
           /\ \A q \in Plugins : ~ Handles(q, t) /\ (Handles(q, t)' <=> q = p)
           /\ \A q \in Plugins : t \notin running'[q]
           /\ \/ /\ Put(inQueue, inQueue', p, t) /\ outQueue' = outQueue
                 /\ t \in InOrder(inQueue'[p])
                 /\ \A q \in Plugins : t \notin InOrder(outQueue'[q])
                 /\ \A q \in Plugins \ {p} : t \notin InOrder(inQueue'[q])
              \/ /\ Put(outQueue, outQueue', p, t) /\ inQueue' = inQueue
                 /\ t \in InOrder(outQueue'[p])
                 /\ \A q \in Plugins : t \notin InOrder(inQueue'[q])
                 /\ \A q \in Plugins \ {p} : t \notin InOrder(outQueue'[q])
<1>1. /\ runner' = Idle
      /\ UNCHANGED <<phase, processQueue, running, collector, scheduled, planned>>
  BY DEF StartPlugin
<1>2. \/ Put(outQueue, outQueue', p, t) /\ inQueue' = inQueue
      \/ Put(inQueue, inQueue', p, t) /\ outQueue' = outQueue
  BY DEF StartPlugin, AddJob, Put
<1>3. /\ ~ Queued(t) /\ collector.task # t
      /\ \A q \in Plugins : ~ Handles(q, t)
  BY DEF Typed, HandOver, Single
<1>4. \A c \in Tasks : runner'.task # c /\ (c # t => runner.task # c)
  BY <1>1, NoTaskAssumption DEF Idle
<1>5. /\ Queues(inQueue) /\ Queues(outQueue)
      /\ \A q \in Plugins : t \notin InOrder(inQueue[q]) /\ t \notin InOrder(outQueue[q])
                            /\ t \notin running[q]
  BY <1>3 DEF Typed, HandOver, HandOverTypes, Handles
<1>6. \A c \in Tasks \ {t} : processed'[c] = processed[c]
  BY DEF StartPlugin, Typed, DataTypes
<1>7. CASE Put(outQueue, outQueue', p, t) /\ inQueue' = inQueue
  <2>1. \A q \in Plugins : \A x :
            x \in InOrder(outQueue'[q]) <=> x \in InOrder(outQueue[q]) \/ (q = p /\ x = t)
    BY <1>5, <1>7, PutFacts
  <2>2. ASSUME NEW c \in Tasks \ {t}  PROVE Frame(c)
    <3>1. \A q \in Plugins : c \in InOrder(outQueue'[q]) <=> c \in InOrder(outQueue[q])
      BY <2>1, <2>2
    <3>2. \A q \in Plugins : /\ c \in InOrder(inQueue'[q]) <=> c \in InOrder(inQueue[q])
                             /\ c \in running'[q] <=> c \in running[q]
      BY <1>1, <1>7
    <3>3. /\ runner'.task # c /\ runner.task # c
          /\ processed'[c] = processed[c]
      BY <1>4, <1>6, <2>2
    <3>4. /\ phase'[c] = phase[c]
          /\ Queued(c)' <=> Queued(c)
          /\ runner'.task = c <=> runner.task = c
          /\ collector'.task = c <=> collector.task = c
      BY <1>1, <3>3 DEF Queued
    <3>5. Same(c)
      BY <3>1, <3>2, <3>4 DEF Same
    <3> QED
      BY <1>1, <3>3, <3>5 DEF Frame
  <2>3. OnlyMoves(t)
    BY <2>2 DEF OnlyMoves
  <2>4. ~ Queued(t)' /\ runner'.task # t /\ collector.task # t /\ collector'.task # t
    BY <1>1, <1>3, <1>4 DEF Queued
  <2>5. /\ t \in InOrder(outQueue'[p])
        /\ \A q \in Plugins : t \notin InOrder(inQueue'[q]) /\ t \notin running'[q]
        /\ \A q \in Plugins \ {p} : t \notin InOrder(outQueue'[q])
    BY <1>1, <1>5, <1>7, <2>1
  <2>6. \A q \in Plugins : ~ Handles(q, t) /\ (Handles(q, t)' <=> q = p)
    BY <1>3, <2>5 DEF Handles
  <2> QED
    BY <1>5, <1>7, <2>3, <2>4, <2>5, <2>6
<1>8. CASE Put(inQueue, inQueue', p, t) /\ outQueue' = outQueue
  <2>1. \A q \in Plugins : \A x :
            x \in InOrder(inQueue'[q]) <=> x \in InOrder(inQueue[q]) \/ (q = p /\ x = t)
    BY <1>5, <1>8, PutFacts
  <2>2. ASSUME NEW c \in Tasks \ {t}  PROVE Frame(c)
    <3>1. \A q \in Plugins : c \in InOrder(inQueue'[q]) <=> c \in InOrder(inQueue[q])
      BY <2>1, <2>2
    <3>2. \A q \in Plugins : /\ c \in InOrder(outQueue'[q]) <=> c \in InOrder(outQueue[q])
                             /\ c \in running'[q] <=> c \in running[q]
      BY <1>1, <1>8
    <3>3. /\ runner'.task # c /\ runner.task # c
          /\ processed'[c] = processed[c]
      BY <1>4, <1>6, <2>2
    <3>4. /\ phase'[c] = phase[c]
          /\ Queued(c)' <=> Queued(c)
          /\ runner'.task = c <=> runner.task = c
          /\ collector'.task = c <=> collector.task = c
      BY <1>1, <3>3 DEF Queued
    <3>5. Same(c)
      BY <3>1, <3>2, <3>4 DEF Same
    <3> QED
      BY <1>1, <3>3, <3>5 DEF Frame
  <2>3. OnlyMoves(t)
    BY <2>2 DEF OnlyMoves
  <2>4. ~ Queued(t)' /\ runner'.task # t /\ collector.task # t /\ collector'.task # t
    BY <1>1, <1>3, <1>4 DEF Queued
  <2>5. /\ t \in InOrder(inQueue'[p])
        /\ \A q \in Plugins : t \notin InOrder(outQueue'[q]) /\ t \notin running'[q]
        /\ \A q \in Plugins \ {p} : t \notin InOrder(inQueue'[q])
    BY <1>1, <1>5, <1>8, <2>1
  <2>6. \A q \in Plugins : ~ Handles(q, t) /\ (Handles(q, t)' <=> q = p)
    BY <1>3, <2>5 DEF Handles
  <2> QED
    BY <1>5, <1>8, <2>3, <2>4, <2>5, <2>6
<1> QED
  BY <1>2, <1>7, <1>8

LEMMA SkipFilteredMoves ==
    ASSUME Typed, SkipFiltered, NEW t \in Tasks, NEW p \in Plugins,
           t = runner.task, p = runner.plugin
    PROVE  /\ OnlyMoves(t) /\ Same(t)
           /\ runner' = At("store", t, p) /\ collector' = collector
           /\ scheduled' = scheduled /\ planned' = planned
           /\ ~ Queued(t) /\ collector.task # t
           /\ \A q \in Plugins : ~ Handles(q, t) /\ ~ Handles(q, t)'
<1>1. /\ runner' = At("store", t, p)
      /\ UNCHANGED <<phase, processQueue, inQueue, running, outQueue, collector,
                     scheduled, planned>>
  BY DEF SkipFiltered, pluginVars
<1>2. \A c \in Tasks \ {t} : processed'[c] = processed[c]
  BY DEF SkipFiltered, Typed, DataTypes
<1>3. \A c \in Tasks : runner'.task = c <=> runner.task = c
  BY <1>1 DEF At
<1>4. OnlyMoves(t) /\ Same(t)
  BY <1>1, <1>2, <1>3 DEF OnlyMoves, Frame, Same, Queued
<1>5. /\ ~ Queued(t) /\ collector.task # t
      /\ \A q \in Plugins : ~ Handles(q, t)
  BY DEF Typed, HandOver, Single
<1>6. \A q \in Plugins : ~ Handles(q, t)'
  BY <1>1, <1>5 DEF Handles
<1> QED
  BY <1>1, <1>4, <1>5, <1>6

\* A worker of plugin p has the task, before and after the step.
AtPlugin(t, p) ==
    /\ ~ Queued(t) /\ runner.task # t /\ collector.task # t
    /\ \A q \in Plugins : Handles(q, t) <=> q = p

LEMMA BeginAnalysisMoves ==
    ASSUME Typed, NEW p \in Plugins, BeginAnalysis(p), NEW t \in Tasks, t = Head(inQueue[p])
    PROVE  /\ OnlyMoves(t) /\ AtPlugin(t, p) /\ AtPlugin(t, p)'
           /\ t \in InOrder(inQueue[p])
           /\ \A q \in Plugins :
                /\ t \notin InOrder(inQueue'[q]) /\ t \notin InOrder(outQueue'[q])
                /\ t \in running'[q] <=> q = p
<1>1. /\ Queues(inQueue) /\ Queues(outQueue) /\ running \in [Plugins -> SUBSET Tasks]
      /\ Get(inQueue, inQueue', p)
  BY DEF Typed, HandOver, HandOverTypes, BeginAnalysis, Get
<1>2. /\ t \in InOrder(inQueue[p])
      /\ \A q \in Plugins : \A x :
            x \in InOrder(inQueue'[q]) <=> x \in InOrder(inQueue[q]) /\ ~ (q = p /\ x = t)
  BY <1>1, GetFacts
<1>3. /\ running' = [running EXCEPT ![p] = @ \cup {t}]
      /\ UNCHANGED <<phase, processQueue, outQueue, runner, collector, scheduled, planned>>
  BY DEF BeginAnalysis
<1>4. \A q \in Plugins : \A x : x \in running'[q] <=> x \in running[q] \/ (q = p /\ x = t)
  BY <1>1, <1>3
<1>5. Single(t) /\ Handles(p, t)
  BY <1>2 DEF Typed, HandOver, Handles
<1>6. AtPlugin(t, p)
  BY <1>5 DEF Single, AtPlugin
<1>7. \A q \in Plugins : t \in InOrder(inQueue[q]) => q = p
  BY <1>6 DEF AtPlugin, Handles
<1>8. \A q \in Plugins : t \notin running[q] /\ t \notin InOrder(outQueue[q])
  BY <1>2, <1>5, <1>6 DEF AtPlugin, Handles, Single
<1>9. \A q \in Plugins :
        /\ t \notin InOrder(inQueue'[q]) /\ t \notin InOrder(outQueue'[q])
        /\ t \in running'[q] <=> q = p
  BY <1>2, <1>3, <1>4, <1>7, <1>8
<1>10. AtPlugin(t, p)'
  BY <1>3, <1>6, <1>9 DEF AtPlugin, Handles, Queued
<1>11. \A c \in Tasks \ {t} : processed'[c] = processed[c]
  BY DEF BeginAnalysis, Typed, DataTypes
<1>12. OnlyMoves(t)
  BY <1>2, <1>3, <1>4, <1>11 DEF OnlyMoves, Frame, Same, Queued
<1> QED
  BY <1>2, <1>6, <1>9, <1>10, <1>12

LEMMA RunningAtPlugin ==
    ASSUME HandOver, NEW p \in Plugins, NEW t \in Tasks, t \in running[p]
    PROVE  /\ AtPlugin(t, p)
           /\ \A q \in Plugins :
                /\ t \notin InOrder(inQueue[q]) /\ t \notin InOrder(outQueue[q])
                /\ t \in running[q] <=> q = p
<1>1. Single(t) /\ Handles(p, t)
  BY DEF HandOver, Handles
<1>2. AtPlugin(t, p)
  BY <1>1 DEF Single, AtPlugin
<1> QED
  BY <1>1, <1>2 DEF AtPlugin, Single, Handles

LEMMA AnalyzeMoves ==
    ASSUME Typed, NEW p \in Plugins, NEW t \in Tasks, Analyze(p, t)
    PROVE  /\ OnlyMoves(t) /\ AtPlugin(t, p) /\ AtPlugin(t, p)'
           /\ \A q \in Plugins :
                /\ t \notin InOrder(inQueue'[q]) /\ t \notin InOrder(outQueue'[q])
                /\ t \in running'[q] <=> q = p
<1>1. UNCHANGED <<phase, processQueue, inQueue, running, outQueue, runner, collector,
                  scheduled, planned>>
  BY DEF Analyze, pluginVars
<1>2. /\ AtPlugin(t, p)
      /\ \A q \in Plugins :
            /\ t \notin InOrder(inQueue[q]) /\ t \notin InOrder(outQueue[q])
            /\ t \in running[q] <=> q = p
  BY RunningAtPlugin DEF Typed, Analyze
<1>3. AtPlugin(t, p)'
  BY <1>1, <1>2 DEF AtPlugin, Handles, Queued
<1>4. \A c \in Tasks \ {t} : processed'[c] = processed[c]
  BY DEF Analyze, Typed, DataTypes
<1>5. OnlyMoves(t)
  BY <1>1, <1>4 DEF OnlyMoves, Frame, Same, Queued
<1> QED
  BY <1>1, <1>2, <1>3, <1>5

LEMMA DeliverMoves ==
    ASSUME Typed, NEW p \in Plugins, NEW t \in Tasks, t \in running[p], Deliver(p, t),
           UNCHANGED <<phase, processQueue, inQueue, runner, collector, scheduled, planned>>,
           \A c \in Tasks \ {t} : processed'[c] = processed[c]
    PROVE  /\ OnlyMoves(t) /\ AtPlugin(t, p) /\ AtPlugin(t, p)'
           /\ \A q \in Plugins :
                /\ t \notin InOrder(inQueue'[q]) /\ t \notin running'[q]
                /\ t \in InOrder(outQueue'[q]) <=> q = p
<1>1. /\ AtPlugin(t, p)
      /\ \A q \in Plugins :
            /\ t \notin InOrder(inQueue[q]) /\ t \notin InOrder(outQueue[q])
            /\ t \in running[q] <=> q = p
  BY RunningAtPlugin DEF Typed
<1>2. /\ Queues(outQueue) /\ running \in [Plugins -> SUBSET Tasks]
      /\ Put(outQueue, outQueue', p, t)
      /\ running' = [running EXCEPT ![p] = @ \ {t}]
  BY DEF Typed, HandOver, HandOverTypes, Deliver, Put
<1>3. \A q \in Plugins : \A x :
        x \in InOrder(outQueue'[q]) <=> x \in InOrder(outQueue[q]) \/ (q = p /\ x = t)
  BY <1>1, <1>2, PutFacts
<1>4. \A q \in Plugins : \A x : x \in running'[q] <=> x \in running[q] /\ ~ (q = p /\ x = t)
  BY <1>2
<1>5. \A q \in Plugins :
        /\ t \notin InOrder(inQueue'[q]) /\ t \notin running'[q]
        /\ t \in InOrder(outQueue'[q]) <=> q = p
  BY <1>1, <1>3, <1>4
<1>6. AtPlugin(t, p)'
  BY <1>1, <1>5 DEF AtPlugin, Handles, Queued
<1>7. OnlyMoves(t)
  BY <1>3, <1>4 DEF OnlyMoves, Frame, Same, Queued
<1> QED
  BY <1>1, <1>5, <1>6, <1>7

LEMMA CollectMoves ==
    ASSUME Typed, NEW p \in Plugins, Collect(p), NEW t \in Tasks, t = Head(outQueue[p])
    PROVE  /\ OnlyMoves(t) /\ AtPlugin(t, p) /\ t \in InOrder(outQueue[p])
           /\ collector' = At("store", t, p)
           /\ ~ Queued(t)' /\ runner'.task # t
           /\ \A q \in Plugins : ~ Handles(q, t)'
<1>1. collector.pc = "idle" /\ Get(outQueue, outQueue', p) /\ HandOver
  BY DEF Collect, Get, Typed
<1>2. /\ \A c \in Tasks, q \in Plugins :
            c \in InOrder(outQueue'[q]) <=> c \in InOrder(outQueue[q]) /\ c # t
      /\ ~ Queued(t) /\ runner.task # t
      /\ \A q \in Plugins : t \notin InOrder(inQueue[q]) /\ t \notin running[q]
  BY <1>1, TakenOut
<1>3. /\ collector' = At("store", t, p)
      /\ UNCHANGED <<phase, processQueue, inQueue, running, runner, planned>>
  BY DEF Collect
<1>4. collector.task = NoTask
  BY <1>1 DEF HandOver, HandOverTypes
<1>5. /\ \A c \in Tasks \ {t} : processed'[c] = processed[c] /\ scheduled'[c] = scheduled[c]
  <2>1. CASE exception[t] = NoPlugin
    BY <2>1 DEF Collect, taskVars
  <2>2. CASE exception[t] # NoPlugin
    BY <2>2 DEF Collect, Typed, DataTypes
  <2> QED
    BY <2>1, <2>2
<1>6. OnlyMoves(t)
  BY <1>2, <1>3, <1>4, <1>5, NoTaskAssumption DEF OnlyMoves, Frame, Same, Queued, At
<1>7. t \in InOrder(outQueue[p])
  BY <1>1, ReaderFacts DEF Typed, Get
<1>8. AtPlugin(t, p)
  BY <1>1, <1>7 DEF HandOver, Single, AtPlugin, Handles
<1> QED
  BY <1>2, <1>3, <1>6, <1>7, <1>8 DEF Queued, Handles

----------------------------------------------------------------------------
(***************************************************************************)
(* The dependencies of a plugin are respected and the results get stored.  *)
(* The invariant follows a task through the places where it can be.        *)
(***************************************************************************)
InHand(t, p) ==
    \/ runner.task = t /\ runner.plugin = p
    \/ collector.task = t /\ collector.plugin = p
    \/ Handles(p, t)

\* There is a result of d that a plugin may run on, or d runs on images only.
Fine(t, d) ==
    ImageOnly(t, d) \/ (Present(processed[t][d]) /\ processed[t][d].result # "failed")

AllFine(t, p) == \A d \in Dependencies[p] : Fine(t, d)

\* What is left of the list is in order, and what it needs is there or ahead.
ListInv(t) ==
    /\ InOrder(scheduled[t]) \subseteq Plugins
    /\ Distinct(scheduled[t]) /\ DependencyPreserving(scheduled[t])
    /\ \A p \in InOrder(scheduled[t]) :
        /\ ~ InHand(t, p)
        /\ \A d \in Dependencies[p] :
            d \in InOrder(scheduled[t]) \/ InHand(t, d) \/ Fine(t, d)

Needed(t, p) == \E q \in InOrder(scheduled[t]) : p \in Dependencies[q]

RunnerInv(t) ==
    runner.task = t =>
        /\ runner.plugin \in Plugins
        /\ runner.pc = "decide" => AllFine(t, runner.plugin)
        /\ runner.pc = "store" => Fine(t, runner.plugin)

CollectorInv(t) ==
    collector.task = t => (Needed(t, collector.plugin) => Fine(t, collector.plugin))

PluginInv(t, p) ==
    /\ t \in InOrder(inQueue[p]) => AllFine(t, p) /\ ~ ImageOnly(t, p)
    /\ t \in running[p] => AllFine(t, p) /\ ~ ImageOnly(t, p)
    /\ t \in InOrder(outQueue[p]) => Fine(t, p)

\* The dependency d failed in this run, and that is final.
FailedIn(t, d) ==
    /\ processed[t][d].result = "failed" /\ d \notin InOrder(scheduled[t])
    /\ InHand(t, d) => collector.task = t

Accounted(t, p) ==
    \/ p \in InOrder(scheduled[t]) \/ InHand(t, p)
    \/ Uid(t) \in stored /\ Present(analyses[Uid(t)][p])
    \/ p \in Unstorable \/ ImageOnly(t, p)
    \/ \E d \in Dependencies[p] : FailedIn(t, d)

StoredInv(t) ==
    Lasting(Uid(t)) =>
        /\ (\E p \in Plugins : InHand(t, p)) => Uid(t) \in stored
        /\ \A p \in planned[t] \cap Plugins : Accounted(t, p)

PhaseInv(t) ==
    /\ phase[t] \in {"new", "requested", "updating"} => scheduled[t] = Request[t].plugins
    /\ phase[t] = "updating" => Request[t].entry = "update"
    /\ phase[t] = "completed" => scheduled[t] = << >>
    /\ phase[t] = "new" => \A p \in Plugins : ~ Present(processed[t][p])
    /\ phase[t] \in {"requested", "updating"} /\ Lasting(Uid(t)) => Uid(t) \in stored

ResultsOf(t) ==
    /\ PhaseInv(t)
    /\ SoundList(t) =>
        /\ RunnerInv(t) /\ CollectorInv(t) /\ \A p \in Plugins : PluginInv(t, p)
        /\ Held(t) => ListInv(t)
        /\ Held(t) \/ phase[t] = "completed" => StoredInv(t)

ResultsInv == \A t \in Tasks : ResultsOf(t)

LEMMA NoHolder ==
    ASSUME NEW t \in Tasks
    PROVE  /\ ~ Held(t) <=> Released(t) /\ ~ Queued(t)
           /\ Released(t) => \A p : p \in Plugins => ~ InHand(t, p)
  BY DEF Held, Released, InHand

\* Steps after which nobody holds the task.
Leaves(t) == OnlyMoves(t) /\ ~ Held(t)'

LEMMA OutsideMoves ==
    ASSUME Typed, NEW t \in Tasks, RequestUpdate(t) \/ EntryCrash(t)
    PROVE  Leaves(t)
<1>1. /\ UNCHANGED <<processQueue, inQueue, running, outQueue, runner, collector,
                     scheduled, planned>>
      /\ \A c \in Tasks \ {t} : processed'[c] = processed[c]
  <2>1. CASE RequestUpdate(t)
    BY <2>1 DEF RequestUpdate, pluginVars, Typed, DataTypes
  <2>2. CASE EntryCrash(t)
    BY <2>2 DEF EntryCrash, pluginVars, taskVars
  <2> QED
    BY <2>1, <2>2
<1>2. phase[t] # "active" /\ \A c \in Tasks \ {t} : phase'[c] = phase[c]
  BY DEF RequestUpdate, EntryCrash, Typed, HandOver, HandOverTypes
<1>3. OnlyMoves(t)
  BY <1>1, <1>2 DEF OnlyMoves, Frame, Same, Queued
<1>4. ~ Held(t)
  BY <1>2 DEF Typed, HandOver, PhaseAgrees
<1>5. ~ Held(t)'
  BY <1>1, <1>4 DEF Held, Queued, Handles
<1> QED
  BY <1>3, <1>5 DEF Leaves

LEMMA AbandonTaskMoves ==
    ASSUME Typed, AbandonTask, NEW t \in Tasks, t = Head(processQueue)
    PROVE  Leaves(t)
<1>1. /\ Queued(t)
      /\ InOrder(processQueue') = InOrder(processQueue) \ {t}
  BY TailFacts DEF AbandonTask, Typed, HandOver, HandOverTypes, Queued
<1>2. /\ UNCHANGED <<inQueue, running, outQueue, runner, collector,
                     scheduled, processed, planned>>
      /\ \A c \in Tasks \ {t} : phase'[c] = phase[c]
  BY DEF AbandonTask, pluginVars, taskVars
<1>3. OnlyMoves(t)
  BY <1>1, <1>2 DEF OnlyMoves, Frame, Same, Queued
<1>4. Released(t)
  BY <1>1 DEF Typed, HandOver, Single, Released
<1>5. Released(t)' /\ ~ Queued(t)'
  BY <1>1, <1>2, <1>4 DEF Released, Handles, Queued
<1>6. ~ Held(t)'
  BY <1>5 DEF Held, Released
<1> QED
  BY <1>3, <1>6 DEF Leaves

LEMMA RunnerCrashMoves ==
    ASSUME Typed, RunnerCrash, NEW t \in Tasks, t = runner.task
    PROVE  Leaves(t)
<1>1. /\ UNCHANGED <<phase, processQueue, inQueue, running, outQueue, collector,
                     scheduled, processed, planned>>
      /\ runner' = Dead
  BY DEF RunnerCrash, pluginVars, taskVars
<1>2. \A c \in Tasks : runner'.task # c /\ (c # t => runner.task # c)
  BY <1>1, NoTaskAssumption DEF Dead
<1>3. OnlyMoves(t)
  BY <1>1, <1>2 DEF OnlyMoves, Frame, Same, Queued
<1>4. /\ ~ Queued(t) /\ collector.task # t
      /\ \A p \in Plugins : ~ Handles(p, t)
  BY DEF Typed, HandOver, Single
<1>5. ~ Held(t)'
  BY <1>1, <1>2, <1>4 DEF Held, Queued, Handles
<1> QED
  BY <1>3, <1>5 DEF Leaves

LEMMA CollectorCrashMoves ==
    ASSUME Typed, NEW p \in Plugins, CollectorCrash(p), NEW t \in Tasks, t = Head(outQueue[p])
    PROVE  Leaves(t)
<1>1. collector.pc = "idle" /\ Get(outQueue, outQueue', p) /\ HandOver
  BY DEF CollectorCrash, Get, Typed
<1>2. /\ \A c \in Tasks, q \in Plugins :
            c \in InOrder(outQueue'[q]) <=> c \in InOrder(outQueue[q]) /\ c # t
      /\ ~ Queued(t) /\ runner.task # t
      /\ \A q \in Plugins : t \notin InOrder(inQueue[q]) /\ t \notin running[q]
  BY <1>1, TakenOut
<1>3. /\ UNCHANGED <<phase, processQueue, inQueue, running, runner,
                     scheduled, processed, planned>>
      /\ collector' = Dead
  BY DEF CollectorCrash, taskVars
<1>4. \A c \in Tasks : collector'.task # c /\ collector.task # c
  BY <1>1, <1>3, NoTaskAssumption DEF HandOver, HandOverTypes, Dead
<1>5. OnlyMoves(t)
  BY <1>2, <1>3, <1>4 DEF OnlyMoves, Frame, Same, Queued
<1>6. ~ Held(t)'
  BY <1>2, <1>3, <1>4 DEF Held, Queued, Handles
<1> QED
  BY <1>5, <1>6 DEF Leaves

LEMMA LossMoves ==
    ASSUME Typed, NEW t \in Tasks, Loses(t)
    PROVE  /\ Leaves(t) /\ Held(t)
           /\ phase'[t] \in {"active", "lost"}
           /\ UNCHANGED <<taskVars, dbVars, clock, planned>>
           /\ \A p \in Plugins : running'[p] \subseteq running[p]
<1>1. HandOver /\ Held(t) /\ ~ Held(t)' /\ phase[t] = "active"
  BY LossHands DEF Typed, HandOver, PhaseAgrees
<1>2. CASE \E p \in Plugins : KillAnalysis(p, t)
  <2>1. PICK p \in Plugins : KillAnalysis(p, t)
    BY <1>2
  <2>2. /\ phase' = [phase EXCEPT ![t] = "lost"]
        /\ running' = [running EXCEPT ![p] = @ \ {t}]
        /\ UNCHANGED <<processQueue, inQueue, outQueue, runner, collector>>
        /\ UNCHANGED <<taskVars, dbVars, clock, planned>>
    BY <2>1 DEF KillAnalysis
  <2>3. /\ phase'[t] = "lost"
        /\ \A c \in Tasks \ {t} : phase'[c] = phase[c]
        /\ \A q \in Plugins : \A x : x \in running'[q] <=> x \in running[q] /\ ~ (q = p /\ x = t)
    BY <2>2, <1>1 DEF HandOver, HandOverTypes
  <2>4. OnlyMoves(t)
    BY <2>2, <2>3 DEF OnlyMoves, Frame, Same, Queued, taskVars
  <2> QED
    BY <1>1, <2>2, <2>3, <2>4 DEF Leaves
<1>3. CASE StoreResultRaises /\ t = collector.task
  <2>1. /\ collector' = Dead
        /\ UNCHANGED <<phase, taskVars, processQueue, inQueue, running, outQueue, runner,
                       dbVars, clock, planned>>
    BY <1>3 DEF StoreResultRaises, pluginVars
  <2>2. \A c \in Tasks : collector'.task # c /\ (c # t => collector.task # c)
    BY <1>3, <2>1, NoTaskAssumption DEF Dead
  <2>3. OnlyMoves(t)
    BY <2>1, <2>2 DEF OnlyMoves, Frame, Same, Queued, taskVars
  <2> QED
    BY <1>1, <2>1, <2>3 DEF Leaves
<1> QED
  BY <1>2, <1>3 DEF Loses

----------------------------------------------------------------------------
(* The types of the data are kept. *)

LEMMA EnterTypes ==
    ASSUME Typed, NEW t \in Tasks, Enter(t) \/ RequestUpdate(t)
    PROVE  DataTypes'
<1>1. Uid(t) \in Objects /\ analyses[Uid(t)] \in [Plugins -> Entry]
  BY UidFacts DEF Typed, DataTypes
<1>2. CASE StartAnalysisOfObject(t)
  <2>1. /\ scheduled' \in [Tasks -> Seq(Names)]
        /\ planned' \in [Tasks -> SUBSET Names]
    BY <1>2, PlanTypes, RequestAssumption DEF StartAnalysisOfObject
  <2> QED
    BY <1>2, <2>1 DEF StartAnalysisOfObject, Typed, DataTypes, dbVars
<1>3. CASE UpdateAnalysisOfSingleObject(t)
  <2>1. scheduled[t] \in Seq(Names)
    BY DEF Typed, DataTypes
  <2>2. /\ scheduled' \in [Tasks -> Seq(Names)]
        /\ planned' \in [Tasks -> SUBSET Names]
    BY <1>3, <2>1, PlanTypes DEF UpdateAnalysisOfSingleObject
  <2> QED
    BY <1>3, <2>2 DEF UpdateAnalysisOfSingleObject, Typed, DataTypes, dbVars
<1>4. CASE UpdateAnalysisOfChild(t)
  <2>1. PICK root \in Request[t].after :
            /\ AllLoaded(scheduled[root])
            /\ \E plan \in Plans(InOrder(scheduled[root]), FALSE) : Plan(t, plan)
    BY <1>4 DEF UpdateAnalysisOfChild
  <2>2. scheduled[root] \in Seq(Names)
    BY RequestAssumption DEF Typed, DataTypes
  <2>3. /\ scheduled' \in [Tasks -> Seq(Names)]
        /\ planned' \in [Tasks -> SUBSET Names]
    BY <2>1, <2>2, PlanTypes
  <2>4. processed' \in [Tasks -> [Plugins -> Entry]]
    BY <1>1, <1>4 DEF UpdateAnalysisOfChild, Typed, DataTypes
  <2> QED
    BY <1>4, <2>3, <2>4 DEF UpdateAnalysisOfChild, Typed, DataTypes, dbVars
<1>5. CASE UpdateAnalysisOfRoot(t)
  <2>1. InOrder(scheduled[t]) \in SUBSET Names
    BY DEF Typed, DataTypes, InOrder
  <2>2. planned' \in [Tasks -> SUBSET Names]
    BY <1>5, <2>1 DEF UpdateAnalysisOfRoot, Typed, DataTypes
  <2> QED
    BY <1>5, <2>2 DEF UpdateAnalysisOfRoot, Typed, DataTypes, dbVars, taskVars
<1>6. CASE BeginUpdate(t)
  <2>1. /\ stored' \subseteq Objects
        /\ analyses' \in [Objects -> [Plugins -> Entry]]
    BY <1>1, <1>6 DEF BeginUpdate, AddObject, Typed, DataTypes
  <2> QED
    BY <1>6, <2>1 DEF BeginUpdate, Typed, DataTypes, taskVars
<1>7. CASE EntryCrash(t)
  BY <1>7 DEF EntryCrash, Typed, DataTypes, taskVars, dbVars
<1>8. CASE RequestUpdate(t)
  BY <1>1, <1>8 DEF RequestUpdate, Typed, DataTypes, dbVars
<1> QED
  BY <1>2, <1>3, <1>4, <1>5, <1>6, <1>7, <1>8 DEF Enter

LEMMA PopFacts ==
    ASSUME NEW S, NEW q \in Seq(S), q # << >>
    PROVE  /\ Len(q) \in Nat \ {0} /\ Len(q) \in DOMAIN q
           /\ q[Len(q)] \in S
           /\ SubSeq(q, 1, Len(q) - 1) \in Seq(S)
           /\ DOMAIN q = 1..Len(q)
           /\ DOMAIN SubSeq(q, 1, Len(q) - 1) = 1..(Len(q) - 1)
           /\ \A i \in 1..(Len(q) - 1) : SubSeq(q, 1, Len(q) - 1)[i] = q[i]
<1>1. Len(q) \in Nat \ {0}
  OBVIOUS
<1> QED
  BY <1>1

LEMMA TakeTaskTypes ==
    ASSUME Typed, TakeTask
    PROVE  DataTypes'
<1>1. PICK t \in Tasks : t = Head(processQueue) /\ Queued(t)
  BY ReaderFacts DEF TakeTask, Typed
<1>2. scheduled[t] # << >> /\ scheduled[t] \in Seq(Names)
  BY <1>1 DEF Typed, SomethingScheduled, DataTypes
<1>3. PICK n \in Nat, p \in Names :
        /\ n = Len(scheduled[t]) /\ p = scheduled[t][n]
        /\ SubSeq(scheduled[t], 1, n - 1) \in Seq(Names)
  BY <1>2, PopFacts
<1>4. /\ runner' = At("decide", t, p)
      /\ scheduled' = [scheduled EXCEPT ![t] = SubSeq(@, 1, n - 1)]
      /\ UNCHANGED <<processed, exception, collector, clock, planned>>
      /\ AddObject(t)
  BY <1>1, <1>3 DEF TakeTask
<1>5. scheduled' \in [Tasks -> Seq(Names)]
  BY <1>3, <1>4 DEF Typed, DataTypes
<1>6. Uid(t) \in Objects
  BY UidFacts
<1>7. stored' \subseteq Objects /\ analyses' \in [Objects -> [Plugins -> Entry]]
  BY <1>4, <1>6 DEF AddObject, Typed, DataTypes
<1> QED
  BY <1>4, <1>5, <1>7 DEF Typed, DataTypes, At

LEMMA RunnerTypes ==
    ASSUME Typed, RunnerStep
    PROVE  DataTypes'
<1>1. CASE AbandonTask
  BY <1>1 DEF AbandonTask, Typed, DataTypes, taskVars, dbVars
<1>2. CASE SkipUnknownPlugin
  BY <1>2 DEF SkipUnknownPlugin, Typed, DataTypes, taskVars, dbVars, Idle
<1>3. CASE RunnerCrash
  BY <1>3 DEF RunnerCrash, Typed, DataTypes, taskVars, dbVars, Dead
<1>4. CASE SkipUpToDate
  <2>1. PICK t \in Tasks, p \in Plugins : t = runner.task /\ p = runner.plugin
    BY <1>4, ReaderFacts DEF SkipUpToDate, Typed
  <2>2. analyses[Uid(t)][p] \in Entry
    BY UidFacts DEF Typed, DataTypes
  <2>3. processed' \in [Tasks -> [Plugins -> Entry]]
    BY <1>4, <2>1, <2>2, NewResult DEF SkipUpToDate, Typed, DataTypes
  <2> QED
    BY <1>4, <2>3 DEF SkipUpToDate, Typed, DataTypes, dbVars, Idle
<1>5. CASE SkipFiltered
  <2>1. PICK t \in Tasks, p \in Plugins : t = runner.task /\ p = runner.plugin
    BY <1>5, ReaderFacts DEF SkipFiltered, Typed
  <2>2. Uid(t) \in Objects /\ OtherResult("skipped", Uid(t), p) \in Entry
        /\ WithFileType(t) \in [Plugins -> Entry]
    BY UidFacts, EntryFacts, WithFileTypeFacts DEF Typed
  <2>3. /\ processed' = [processed EXCEPT
            ![t] = [WithFileType(t) EXCEPT ![p] = OtherResult("skipped", Uid(t), p)]]
        /\ clock' = [clock EXCEPT ![Uid(t)] = @ + 1]
        /\ runner' = At("store", t, p)
        /\ UNCHANGED <<scheduled, exception, collector, stored, analyses, planned>>
    BY <1>5, <2>1 DEF SkipFiltered, dbVars
  <2>4. processed' \in [Tasks -> [Plugins -> Entry]]
    BY <2>2, <2>3 DEF Typed, DataTypes
  <2>5. clock' \in [Objects -> Nat]
    BY <2>2, <2>3 DEF Typed, DataTypes
  <2>6. runner' \in [pc : {"idle", "decide", "store", "dead"},
                     task : Tasks \cup {NoTask}, plugin : Names \cup {NoPlugin}]
    BY <2>1, <2>3, PluginsAssumption DEF At
  <2> QED
    BY <2>3, <2>4, <2>5, <2>6 DEF Typed, DataTypes
<1>6. CASE StartPlugin
  <2>1. PICK t \in Tasks, p \in Plugins : t = runner.task /\ p = runner.plugin
    BY <1>6, ReaderFacts DEF StartPlugin, Typed
  <2>2. WithFileType(t) \in [Plugins -> Entry] /\ processed[t] \in [Plugins -> Entry]
    BY WithFileTypeFacts DEF Typed, DataTypes
  <2>3. \E results \in [Plugins -> Entry] : processed' = [processed EXCEPT ![t] = results]
    BY <1>6, <2>1, <2>2 DEF StartPlugin
  <2>4. processed' \in [Tasks -> [Plugins -> Entry]]
    BY <2>3 DEF Typed, DataTypes
  <2> QED
    BY <1>6, <2>4 DEF StartPlugin, Typed, DataTypes, dbVars, Idle
<1>7. CASE StoreSkipped
  <2>1. PICK t \in Tasks, p \in Plugins : t = runner.task /\ p = runner.plugin
    BY <1>7, ReaderFacts DEF StoreSkipped, Typed, ResultInHand
  <2>2. Uid(t) \in Objects /\ processed[t][p] \in Entry
    BY UidFacts DEF Typed, DataTypes
  <2>3. analyses' \in [Objects -> [Plugins -> Entry]]
    BY <1>7, <2>1, <2>2, StoreTypes DEF StoreSkipped, Typed
  <2> QED
    BY <1>7, <2>3 DEF StoreSkipped, Typed, DataTypes, taskVars, Idle
<1> QED
  BY <1>1, <1>2, <1>3, <1>4, <1>5, <1>6, <1>7, TakeTaskTypes DEF RunnerStep

LEMMA WorkerTypes ==
    ASSUME Typed, NEW p \in Plugins, NEW t \in Tasks,
           (BeginAnalysis(p) /\ t = Head(inQueue[p])) \/ WorkerStep(p, t)
    PROVE  DataTypes'
<1>1. /\ Uid(t) \in Objects /\ Empty \in Entry /\ OkResult(Uid(t), p) \in Entry
  BY UidFacts, EntryFacts DEF Typed
<1>2. CASE BeginAnalysis(p) /\ t = Head(inQueue[p])
  <2>1. processed' \in [Tasks -> [Plugins -> Entry]]
    BY <1>1, <1>2, NewResult DEF BeginAnalysis, Typed, DataTypes
  <2> QED
    BY <1>2, <2>1 DEF BeginAnalysis, Typed, DataTypes, dbVars
<1>3. CASE Analyze(p, t)
  <2>1. processed' \in [Tasks -> [Plugins -> Entry]]
    BY <1>1, <1>3, NewResult DEF Analyze, Typed, DataTypes
  <2>2. clock' \in [Objects -> Nat]
    BY <1>1, <1>3 DEF Analyze, Typed, DataTypes
  <2> QED
    BY <1>3, <2>1, <2>2 DEF Analyze, Typed, DataTypes, dbVars
<1>4. CASE FinishAnalysis(p, t)
  BY <1>4 DEF FinishAnalysis, Typed, DataTypes, dbVars, taskVars
<1>5. CASE FailAnalysis(p, t)
  <2>1. processed' \in [Tasks -> [Plugins -> Entry]]
    BY <1>1, <1>5, NewResult DEF FailAnalysis, Typed, DataTypes
  <2>2. exception' \in [Tasks -> Plugins \cup {NoPlugin}]
    BY <1>5 DEF FailAnalysis, Typed, DataTypes
  <2> QED
    BY <1>5, <2>1, <2>2 DEF FailAnalysis, Typed, DataTypes, dbVars
<1> QED
  BY <1>2, <1>3, <1>4, <1>5 DEF WorkerStep

LEMMA CollectTypes ==
    ASSUME Typed, NEW p \in Plugins, Collect(p)
    PROVE  DataTypes'
<1>1. PICK t \in Tasks : t = Head(outQueue[p])
  BY ReaderFacts DEF Collect, Typed
<1>2. PICK dependents : dependents = Dependents(p, scheduled[t])
  OBVIOUS
<1>3. /\ collector' = At("store", t, p)
      /\ UNCHANGED <<runner, stored, analyses, planned>>
  BY <1>1 DEF Collect, dbVars
<1>4. CASE exception[t] = NoPlugin
  BY <1>1, <1>3, <1>4 DEF Collect, taskVars, Typed, DataTypes, At
<1>5. CASE exception[t] # NoPlugin
  <2>1. /\ processed' = [processed EXCEPT ![t] =
                    [q \in Plugins |->
                        IF q \in dependents THEN OtherResult("unscheduled", Uid(t), q)
                        ELSE IF q = p THEN OtherResult("failed", Uid(t), p)
                        ELSE @[q]]]
        /\ scheduled' = [scheduled EXCEPT ![t] = Without(@, dependents)]
        /\ exception' = [exception EXCEPT ![t] = NoPlugin]
        /\ clock' = [clock EXCEPT ![Uid(t)] = @ + 1]
    BY <1>1, <1>2, <1>5 DEF Collect
  <2>2. Uid(t) \in Objects
    BY UidFacts
  <2>3. \A q \in Plugins : /\ OtherResult("unscheduled", Uid(t), q) \in Entry
                           /\ OtherResult("failed", Uid(t), q) \in Entry
                           /\ processed[t][q] \in Entry
    BY <2>2, EntryFacts DEF Typed, DataTypes
  <2>4. processed' \in [Tasks -> [Plugins -> Entry]]
    BY <2>1, <2>3 DEF Typed, DataTypes
  <2>5. Without(scheduled[t], dependents) \in Seq(Names)
    BY WithoutFacts DEF Typed, DataTypes
  <2>6. /\ scheduled' \in [Tasks -> Seq(Names)]
        /\ exception' \in [Tasks -> Plugins \cup {NoPlugin}]
        /\ clock' \in [Objects -> Nat]
    BY <2>1, <2>2, <2>5 DEF Typed, DataTypes
  <2> QED
    BY <1>3, <2>4, <2>6 DEF Typed, DataTypes, At
<1> QED
  BY <1>4, <1>5

LEMMA StepTypes ==
    ASSUME Typed, Next
    PROVE  DataTypes'
<1>1. ASSUME NEW t \in Tasks, Enter(t) \/ RequestUpdate(t) PROVE DataTypes'
  BY <1>1, EnterTypes
<1>2. CASE RunnerStep
  BY <1>2, RunnerTypes
<1>3. ASSUME NEW p \in Plugins, BeginAnalysis(p) \/ CollectorStep(p) PROVE DataTypes'
  <2>1. CASE BeginAnalysis(p)
    BY <2>1, WorkerTypes, ReaderFacts DEF BeginAnalysis, Typed
  <2>2. CASE Collect(p)
    BY <2>2, CollectTypes
  <2>3. CASE CollectWithoutResult(p)
    BY <2>3 DEF CollectWithoutResult, Typed, DataTypes, taskVars, dbVars
  <2>4. CASE CollectorCrash(p)
    BY <2>4 DEF CollectorCrash, Typed, DataTypes, taskVars, dbVars, Dead
  <2> QED
    BY <1>3, <2>1, <2>2, <2>3, <2>4 DEF CollectorStep
<1>4. ASSUME NEW p \in Plugins, NEW t \in Tasks, WorkerStep(p, t) PROVE DataTypes'
  BY <1>4, WorkerTypes
<1>5. CASE StoreResult
  <2>1. PICK t \in Tasks, p \in Plugins : t = collector.task /\ p = collector.plugin
    BY <1>5, ReaderFacts DEF StoreResult, Typed, ResultInHand
  <2>2. Uid(t) \in Objects /\ processed[t][p] \in Entry
    BY UidFacts DEF Typed, DataTypes
  <2>3. analyses' \in [Objects -> [Plugins -> Entry]]
    BY <1>5, <2>1, <2>2, StoreTypes DEF StoreResult, Typed
  <2> QED
    BY <1>5, <2>3 DEF StoreResult, Typed, DataTypes, taskVars, Idle
<1>6. ASSUME NEW fw \in Objects, DeleteFirmware(fw) PROVE DataTypes'
  <2>1. [p \in Plugins |-> Absent] \in [Plugins -> Entry]
    BY DEF Absent, Entry
  <2>2. /\ stored' \subseteq Objects
        /\ analyses' \in [Objects -> [Plugins -> Entry]]
    BY <1>6, <2>1 DEF DeleteFirmware, Typed, DataTypes
  <2> QED
    BY <1>6, <2>2 DEF DeleteFirmware, Typed, DataTypes, taskVars
<1>7. CASE Loss
  <2>1. PICK t \in Tasks : Loses(t)
    BY <1>7, SomeTaskLost DEF Typed
  <2>2. UNCHANGED <<taskVars, dbVars, clock, planned>>
    BY <2>1, LossMoves
  <2>3. /\ runner' = runner
        /\ collector' \in {collector, Dead}
    BY <2>1 DEF Loses, KillAnalysis, StoreResultRaises
  <2> QED
    BY <2>2, <2>3 DEF Typed, DataTypes, taskVars, dbVars, Dead
<1> QED
  BY <1>1, <1>2, <1>3, <1>4, <1>5, <1>6, <1>7 DEF Next, Loss

----------------------------------------------------------------------------
(* A queued task has a plugin left, and what is going to be stored is there. *)

LEMMA EntryMoves ==
    ASSUME Typed, NEW t \in Tasks,
           \/ StartAnalysisOfObject(t) \/ UpdateAnalysisOfSingleObject(t)
           \/ UpdateAnalysisOfChild(t) \/ UpdateAnalysisOfRoot(t)
    PROVE  GivesBack(t, scheduled'[t])
<1>1. scheduled \in [Tasks -> Seq(Names)] /\ planned \in [Tasks -> SUBSET Names]
      /\ processed \in [Tasks -> [Plugins -> Entry]]
  BY DEF Typed, DataTypes
<1>2. ASSUME NEW plan, Plan(t, plan)
      PROVE  /\ scheduled'[t] = plan /\ CheckFurther(t, plan)
             /\ \A c \in Tasks \ {t} : scheduled'[c] = scheduled[c] /\ planned'[c] = planned[c]
  BY <1>1, <1>2 DEF Plan
<1>3. CASE StartAnalysisOfObject(t)
  <2>1. /\ phase[t] # "active" /\ UNCHANGED <<processed, pluginVars, runner, collector>>
        /\ \E plan : Plan(t, plan)
    BY <1>3 DEF StartAnalysisOfObject
  <2> QED
    BY <1>2, <2>1, EnterMoves
<1>4. CASE UpdateAnalysisOfSingleObject(t)
  <2>1. /\ phase[t] # "active" /\ UNCHANGED <<processed, pluginVars, runner, collector>>
        /\ \E plan : Plan(t, plan)
    BY <1>4 DEF UpdateAnalysisOfSingleObject
  <2> QED
    BY <1>2, <2>1, EnterMoves
<1>5. CASE UpdateAnalysisOfChild(t)
  <2>1. /\ phase[t] # "active" /\ UNCHANGED <<pluginVars, runner, collector>>
        /\ \A c \in Tasks \ {t} : processed'[c] = processed[c]
        /\ \E plan : Plan(t, plan)
    BY <1>1, <1>5 DEF UpdateAnalysisOfChild
  <2> QED
    BY <1>2, <2>1, EnterMoves
<1>6. CASE UpdateAnalysisOfRoot(t)
  <2>1. /\ phase[t] # "active" /\ UNCHANGED <<pluginVars, runner, collector, scheduled, processed>>
        /\ \A c \in Tasks \ {t} : planned'[c] = planned[c]
        /\ CheckFurther(t, scheduled[t])
    BY <1>1, <1>6 DEF UpdateAnalysisOfRoot, taskVars
  <2> QED
    BY <2>1, EnterMoves
<1> QED
  BY <1>3, <1>4, <1>5, <1>6

LEMMA RunnerGives ==
    ASSUME Typed, SkipUnknownPlugin \/ SkipUpToDate \/ StoreSkipped,
           NEW t \in Tasks, t = runner.task
    PROVE  GivesBack(t, scheduled[t]) /\ scheduled' = scheduled /\ planned' = planned
<1>1. /\ CheckFurther(t, scheduled[t]) /\ runner' = Idle
      /\ UNCHANGED <<pluginVars, collector, scheduled, planned>>
  BY DEF SkipUnknownPlugin, SkipUpToDate, StoreSkipped, taskVars
<1>2. \A c \in Tasks \ {t} : processed'[c] = processed[c]
  <2>1. CASE SkipUnknownPlugin \/ StoreSkipped
    BY <2>1 DEF SkipUnknownPlugin, StoreSkipped, taskVars
  <2>2. CASE SkipUpToDate
    BY <2>2 DEF SkipUpToDate, Typed, DataTypes
  <2> QED
    BY <2>1, <2>2
<1> QED
  BY <1>1, <1>2, RunnerMoves

LEMMA GivesBackQueued ==
    ASSUME Typed, NEW t \in Tasks, GivesBack(t, scheduled'[t])
    PROVE  /\ Queued(t)' => scheduled'[t] # << >>
           /\ phase'[t] \in {"active", "completed"}
           /\ phase'[t] = "completed" => scheduled'[t] = << >>
           /\ phase'[t] = "active" => Held(t)'
<1>1. /\ scheduled'[t] = << >> => phase'[t] = "completed" /\ ~ Queued(t)'
      /\ scheduled'[t] # << >> => phase'[t] = "active" /\ Queued(t)'
  BY CheckFurtherMoves DEF GivesBack, Typed
<1> QED
  BY <1>1 DEF Held

LEMMA MovedResults ==
    ASSUME Typed, HandOver', NEW t \in Tasks, OnlyMoves(t),
           Queued(t)' => scheduled'[t] # << >>,
           runner'.task = t /\ runner'.pc = "store" =>
                runner'.plugin \in Plugins /\ Present(processed'[t][runner'.plugin]),
           collector'.task = t /\ collector'.pc = "store" =>
                collector'.plugin \in Plugins /\ Present(processed'[t][collector'.plugin])
    PROVE  SomethingScheduled' /\ ResultInHand'
<1>1. SomethingScheduled'
  <2>1. ASSUME NEW c \in Tasks, Queued(c)' PROVE scheduled'[c] # << >>
    <3>1. CASE c = t
      BY <2>1, <3>1
    <3>2. CASE c # t
      BY <2>1, <3>2 DEF OnlyMoves, Frame, Same, Typed, SomethingScheduled
    <3> QED
      BY <3>1, <3>2
  <2> QED
    BY <2>1 DEF SomethingScheduled
<1>2. ASSUME runner'.pc = "store"
      PROVE  runner'.plugin \in Plugins /\ Present(processed'[runner'.task][runner'.plugin])
  <2>1. runner'.task \in Tasks
    BY <1>2 DEF HandOver, HandOverTypes
  <2>2. CASE runner'.task # t
    <3>1. runner' = runner /\ processed'[runner.task] = processed[runner.task]
      BY <2>1, <2>2 DEF OnlyMoves, Frame, Same
    <3> QED
      BY <1>2, <3>1 DEF Typed, ResultInHand
  <2> QED
    BY <1>2, <2>2
<1>3. ASSUME collector'.pc = "store"
      PROVE  /\ collector'.plugin \in Plugins
             /\ Present(processed'[collector'.task][collector'.plugin])
  <2>1. collector'.task \in Tasks
    BY <1>3 DEF HandOver, HandOverTypes
  <2>2. CASE collector'.task # t
    <3>1. collector' = collector /\ processed'[collector.task] = processed[collector.task]
      BY <2>1, <2>2 DEF OnlyMoves, Frame, Same
    <3> QED
      BY <1>3, <3>1 DEF Typed, ResultInHand
  <2> QED
    BY <1>3, <2>2
<1>4. ResultInHand'
  BY <1>2, <1>3 DEF ResultInHand, Present
<1> QED
  BY <1>1, <1>4

LEMMA StillResults ==
    ASSUME Typed, UNCHANGED <<processQueue, runner, collector, scheduled, processed>>
    PROVE  SomethingScheduled' /\ ResultInHand'
<1>1. SomethingScheduled'
  BY DEF Typed, SomethingScheduled, Queued
<1>2. ResultInHand'
  BY DEF Typed, ResultInHand, Present
<1> QED
  BY <1>1, <1>2

LEMMA GivesBackResults ==
    ASSUME Typed, HandOver', NEW t \in Tasks, GivesBack(t, scheduled'[t])
    PROVE  SomethingScheduled' /\ ResultInHand'
<1>1. Queued(t)' => scheduled'[t] # << >>
  BY GivesBackQueued
<1>2. OnlyMoves(t) /\ runner'.task # t /\ collector'.task # t
  BY DEF GivesBack, Released
<1> QED
  BY <1>1, <1>2, MovedResults

LEMMA LeavesResults ==
    ASSUME Typed, HandOver', NEW t \in Tasks, Leaves(t)
    PROVE  SomethingScheduled' /\ ResultInHand'
<1>1. OnlyMoves(t) /\ ~ Queued(t)' /\ runner'.task # t /\ collector'.task # t
  BY DEF Leaves, Held
<1> QED
  BY <1>1, MovedResults

LEMMA AtPluginResults ==
    ASSUME Typed, HandOver', NEW t \in Tasks, NEW p, OnlyMoves(t), AtPlugin(t, p)'
    PROVE  SomethingScheduled' /\ ResultInHand'
<1>1. ~ Queued(t)' /\ runner'.task # t /\ collector'.task # t
  BY DEF AtPlugin
<1> QED
  BY <1>1, MovedResults

LEMMA RunnerResults ==
    ASSUME Typed, HandOver', RunnerStep
    PROVE  SomethingScheduled' /\ ResultInHand'
<1>1. CASE TakeTask
  <2>1. PICK t \in Tasks : t = Head(processQueue)
    BY <1>1, ReaderFacts DEF TakeTask, Typed
  <2>2. OnlyMoves(t) /\ ~ Queued(t)' /\ collector'.task # t /\ runner'.pc = "decide"
    BY <1>1, <2>1, TakeTaskMoves DEF TakeTask, At
  <2> QED
    BY <2>2, MovedResults
<1>2. CASE AbandonTask
  BY <1>2, ReaderFacts, AbandonTaskMoves, LeavesResults DEF AbandonTask, Typed
<1>3. CASE SkipUnknownPlugin \/ SkipUpToDate \/ StoreSkipped
  <2>1. PICK t \in Tasks : t = runner.task
    BY <1>3, ReaderFacts DEF SkipUnknownPlugin, SkipUpToDate, StoreSkipped, Typed
  <2> QED
    BY <1>3, <2>1, RunnerGives, GivesBackResults
<1>4. CASE SkipFiltered
  <2>1. PICK t \in Tasks, p \in Plugins : t = runner.task /\ p = runner.plugin
    BY <1>4, ReaderFacts DEF SkipFiltered, Typed
  <2>2. /\ OnlyMoves(t) /\ runner' = At("store", t, p) /\ collector'.task # t /\ ~ Queued(t)'
    BY <1>4, <2>1, SkipFilteredMoves DEF Same
  <2>3. runner'.plugin = p
    BY <2>2 DEF At
  <2>4. /\ WithFileType(t) \in [Plugins -> Entry]
        /\ Present(OtherResult("skipped", Uid(t), p))
    BY UidFacts, EntryFacts, WithFileTypeFacts DEF Typed
  <2>5. processed'[t][p] = OtherResult("skipped", Uid(t), p)
    BY <1>4, <2>1, <2>4 DEF SkipFiltered, Typed, DataTypes
  <2> QED
    BY <2>2, <2>3, <2>4, <2>5, MovedResults
<1>5. CASE StartPlugin
  <2>1. PICK t \in Tasks, p \in Plugins : t = runner.task /\ p = runner.plugin
    BY <1>5, ReaderFacts DEF StartPlugin, Typed
  <2>2. /\ OnlyMoves(t) /\ runner'.task # t /\ collector'.task # t /\ ~ Queued(t)'
    BY <1>5, <2>1, StartPluginMoves
  <2> QED
    BY <2>2, MovedResults
<1>6. CASE RunnerCrash
  BY <1>6, ReaderFacts, RunnerCrashMoves, LeavesResults DEF RunnerCrash, Typed
<1> QED
  BY <1>1, <1>2, <1>3, <1>4, <1>5, <1>6 DEF RunnerStep

\* The worker's step on a result, as it is needed for the other tasks and this one.
LEMMA WorkerMoves ==
    ASSUME Typed, NEW p \in Plugins, NEW t \in Tasks, WorkerStep(p, t)
    PROVE  /\ OnlyMoves(t) /\ AtPlugin(t, p) /\ AtPlugin(t, p)' /\ t \in running[p]
           /\ \A q \in Plugins : t \notin InOrder(inQueue'[q])
           /\ \A q \in Plugins \ {p} : t \notin running'[q] /\ t \notin InOrder(outQueue'[q])
           /\ scheduled' = scheduled /\ planned' = planned
           /\ stored' = stored /\ analyses' = analyses
           /\ processed'[t][p].result \in {"empty", "ok"} /\ Present(processed'[t][p])
           /\ \A q \in Plugins \ {p} : processed'[t][q] = processed[t][q]
<1>1. /\ Uid(t) \in Objects /\ processed \in [Tasks -> [Plugins -> Entry]]
      /\ Empty.result = "empty" /\ Present(Empty)
      /\ OkResult(Uid(t), p).result = "ok" /\ Present(OkResult(Uid(t), p))
  BY UidFacts, EntryFacts DEF Typed, DataTypes
<1>2. CASE Analyze(p, t)
  <2>1. /\ OnlyMoves(t) /\ AtPlugin(t, p) /\ AtPlugin(t, p)'
        /\ \A q \in Plugins :
            /\ t \notin InOrder(inQueue'[q]) /\ t \notin InOrder(outQueue'[q])
            /\ t \in running'[q] <=> q = p
    BY <1>2, AnalyzeMoves
  <2>2. processed' = [processed EXCEPT ![t][p] = OkResult(Uid(t), p)]
    BY <1>2 DEF Analyze
  <2> QED
    BY <1>1, <1>2, <2>1, <2>2 DEF Analyze, dbVars
<1>3. CASE FinishAnalysis(p, t)
  <2>1. /\ OnlyMoves(t) /\ AtPlugin(t, p) /\ AtPlugin(t, p)'
        /\ \A q \in Plugins :
            /\ t \notin InOrder(inQueue'[q]) /\ t \notin running'[q]
            /\ t \in InOrder(outQueue'[q]) <=> q = p
    BY <1>3, DeliverMoves DEF FinishAnalysis, taskVars
  <2> QED
    BY <1>1, <1>3, <2>1 DEF FinishAnalysis, dbVars, taskVars, Present
<1>4. CASE FailAnalysis(p, t)
  <2>1. processed' = [processed EXCEPT ![t][p] = Empty]
    BY <1>4 DEF FailAnalysis
  <2>2. \A c \in Tasks \ {t} : processed'[c] = processed[c]
    BY <1>1, <2>1
  <2>3. /\ OnlyMoves(t) /\ AtPlugin(t, p) /\ AtPlugin(t, p)'
        /\ \A q \in Plugins :
            /\ t \notin InOrder(inQueue'[q]) /\ t \notin running'[q]
            /\ t \in InOrder(outQueue'[q]) <=> q = p
    BY <1>4, <2>2, DeliverMoves DEF FailAnalysis
  <2> QED
    BY <1>1, <1>4, <2>1, <2>3 DEF FailAnalysis, dbVars
<1> QED
  BY <1>2, <1>3, <1>4 DEF WorkerStep

\* The two outcomes of the collector's step.
LEMMA CollectData ==
    ASSUME Typed, NEW p \in Plugins, Collect(p), NEW t \in Tasks, t = Head(outQueue[p])
    PROVE  \/ /\ scheduled'[t] = scheduled[t] /\ processed'[t] = processed[t]
              /\ Present(processed[t][p])
           \/ \E dependents :
                /\ dependents = Dependents(p, scheduled[t])
                /\ scheduled'[t] = Without(scheduled[t], dependents)
                /\ \A q \in Plugins : processed'[t][q] =
                        IF q \in dependents THEN OtherResult("unscheduled", Uid(t), q)
                        ELSE IF q = p THEN OtherResult("failed", Uid(t), p)
                        ELSE processed[t][q]
<1>1. CASE exception[t] = NoPlugin
  BY <1>1 DEF Collect, taskVars
<1>2. CASE exception[t] # NoPlugin
  <2> DEFINE dependents == Dependents(p, scheduled[t])
             entries == [q \in Plugins |->
                            IF q \in dependents THEN OtherResult("unscheduled", Uid(t), q)
                            ELSE IF q = p THEN OtherResult("failed", Uid(t), p)
                            ELSE processed[t][q]]
             left == Without(scheduled[t], dependents)
  <2>1. /\ processed' = [processed EXCEPT ![t] = entries]
        /\ scheduled' = [scheduled EXCEPT ![t] = left]
    BY <1>2 DEF Collect
  <2>2. DOMAIN processed = Tasks /\ DOMAIN scheduled = Tasks
    BY DEF Typed, DataTypes
  <2>3. processed'[t] = entries /\ scheduled'[t] = left
    <3> HIDE DEF entries, left
    <3> QED
      BY <2>1, <2>2
  <2>4. \A q \in Plugins : processed'[t][q] =
                        IF q \in dependents THEN OtherResult("unscheduled", Uid(t), q)
                        ELSE IF q = p THEN OtherResult("failed", Uid(t), p)
                        ELSE processed[t][q]
    BY <2>3
  <2> QED
    BY <2>3, <2>4
<1> QED
  BY <1>1, <1>2

LEMMA CollectorResults ==
    ASSUME Typed, HandOver', NEW p \in Plugins, CollectorStep(p)
    PROVE  SomethingScheduled' /\ ResultInHand'
<1>1. CASE Collect(p)
  <2>1. PICK t \in Tasks : t = Head(outQueue[p])
    BY <1>1, ReaderFacts DEF Collect, Typed
  <2>2. /\ OnlyMoves(t) /\ collector' = At("store", t, p)
        /\ ~ Queued(t)' /\ runner'.task # t
    BY <1>1, <2>1, CollectMoves
  <2>3. Uid(t) \in Objects /\ \A q \in Plugins : \A kind \in {"failed", "unscheduled"} :
            Present(OtherResult(kind, Uid(t), q))
    BY UidFacts, EntryFacts DEF Typed
  <2>4. Present(processed'[t][p])
    BY <1>1, <2>1, <2>3, CollectData
  <2>5. collector'.plugin = p
    BY <2>2 DEF At
  <2> QED
    BY <2>2, <2>4, <2>5, MovedResults
<1>2. CASE CollectWithoutResult(p)
  <2>1. PICK t \in Tasks : t = Head(outQueue[p])
    BY <1>2, ReaderFacts DEF CollectWithoutResult, Typed
  <2>2. GivesBack(t, scheduled[t]) /\ scheduled' = scheduled
    BY <1>2, <2>1, CollectWithoutResultMoves DEF CollectWithoutResult, taskVars
  <2> QED
    BY <2>2, GivesBackResults
<1>3. CASE CollectorCrash(p)
  BY <1>3, ReaderFacts, CollectorCrashMoves, LeavesResults DEF CollectorCrash, Typed
<1> QED
  BY <1>1, <1>2, <1>3 DEF CollectorStep

LEMMA TypedNext ==
    ASSUME Typed, [Next]_vars
    PROVE  Typed'
<1>1. HandOver'
  BY HandOverNext DEF Typed
<1>2. ASSUME UNCHANGED vars PROVE Typed'
  <2>1. SomethingScheduled' /\ ResultInHand'
    BY <1>2, StillResults DEF vars, taskVars
  <2>2. DataTypes'
    BY <1>2 DEF vars, taskVars, dbVars, Typed, DataTypes
  <2> QED
    BY <1>1, <2>1, <2>2 DEF Typed
<1>3. ASSUME NEW t \in Tasks, Enter(t) \/ RequestUpdate(t)
      PROVE  SomethingScheduled' /\ ResultInHand'
  <2>1. CASE RequestUpdate(t) \/ EntryCrash(t)
    BY <1>1, <2>1, OutsideMoves, LeavesResults
  <2>2. CASE BeginUpdate(t)
    BY <2>2, StillResults DEF BeginUpdate, taskVars
  <2> QED
    BY <1>1, <1>3, <2>1, <2>2, EntryMoves, GivesBackResults DEF Enter
<1>4. ASSUME NEW p \in Plugins, BeginAnalysis(p)
      PROVE  SomethingScheduled' /\ ResultInHand'
  <2>1. PICK t \in Tasks : t = Head(inQueue[p])
    BY <1>4, ReaderFacts DEF BeginAnalysis, Typed
  <2>2. OnlyMoves(t) /\ AtPlugin(t, p)'
    BY <1>4, <2>1, BeginAnalysisMoves
  <2> QED
    BY <1>1, <2>2, AtPluginResults
<1>5. ASSUME NEW p \in Plugins, NEW t \in Tasks, WorkerStep(p, t)
      PROVE  SomethingScheduled' /\ ResultInHand'
  <2>1. OnlyMoves(t) /\ AtPlugin(t, p)'
    BY <1>5, WorkerMoves
  <2> QED
    BY <1>1, <2>1, AtPluginResults
<1>6. ASSUME StoreResult PROVE SomethingScheduled' /\ ResultInHand'
  <2>1. PICK t \in Tasks : t = collector.task
    BY <1>6, ReaderFacts DEF StoreResult, Typed
  <2>2. GivesBack(t, scheduled[t]) /\ scheduled' = scheduled
    BY <1>6, <2>1, StoreResultMoves DEF StoreResult, taskVars
  <2>3. GivesBack(t, scheduled'[t])
    BY <2>2
  <2> QED
    BY <1>1, <2>3, GivesBackResults
<1>7. ASSUME NEW fw \in Objects, DeleteFirmware(fw) PROVE SomethingScheduled' /\ ResultInHand'
  BY <1>7, StillResults DEF DeleteFirmware, taskVars
<1>8. ASSUME NEW p \in Plugins, CollectorStep(p) PROVE SomethingScheduled' /\ ResultInHand'
  BY <1>1, <1>8, CollectorResults
<1>9. ASSUME RunnerStep PROVE SomethingScheduled' /\ ResultInHand'
  BY <1>1, <1>9, RunnerResults
<1>10. ASSUME Loss PROVE SomethingScheduled' /\ ResultInHand'
  BY <1>1, <1>10, SomeTaskLost, LossMoves, LeavesResults DEF Typed
<1>11. ASSUME Next PROVE SomethingScheduled' /\ ResultInHand'
  BY <1>3, <1>4, <1>5, <1>6, <1>7, <1>8, <1>9, <1>10, <1>11 DEF Next, Loss
<1> QED
  BY <1>1, <1>2, <1>11, StepTypes DEF Typed

----------------------------------------------------------------------------
(* What is in the database stays there, unless its firmware can be deleted.  *)

Grows(u) ==
    Lasting(u) /\ u \in stored =>
        /\ u \in stored'
        /\ \A p \in Plugins : Present(analyses[u][p]) => Present(analyses'[u][p])

LEMMA AddObjectGrows ==
    ASSUME Typed, NEW t \in Tasks, AddObject(t), NEW u \in Objects
    PROVE  Grows(u)
<1>1. u \in stored => analyses'[u] = analyses[u]
  BY DEF AddObject, Typed, DataTypes
<1> QED
  BY <1>1 DEF AddObject, Grows

LEMMA StoreAnalysisGrows ==
    ASSUME Typed, NEW v \in Objects, NEW p \in Plugins, NEW e \in Entry, Present(e),
           StoreAnalysis(v, p, e), UNCHANGED stored, NEW u \in Objects
    PROVE  /\ Grows(u)
           /\ v \in stored => Present(analyses'[v][p]) \/ p \in Unstorable
<1>1. CASE UNCHANGED analyses /\ (v \notin stored \/ (p \in Unstorable /\ e.result = "ok"))
  BY <1>1 DEF Grows
<1>2. CASE analyses' = [analyses EXCEPT ![v][p] =
                LET old == @ IN
                IF Present(old) THEN [e EXCEPT !.system = old.system] ELSE e]
  <2>1. PICK new \in Entry : /\ analyses' = [analyses EXCEPT ![v][p] = new]
                             /\ new.result = e.result
    <3>1. analyses[v][p] \in Entry
      BY DEF Typed, DataTypes
    <3>2. /\ [e EXCEPT !.system = analyses[v][p].system] \in Entry
          /\ [e EXCEPT !.system = analyses[v][p].system].result = e.result
      BY <3>1 DEF Entry
    <3> QED
      BY <1>2, <3>2
  <2>2. /\ \A w \in Objects \ {v} : analyses'[w] = analyses[w]
        /\ analyses'[v][p] = new
        /\ \A q \in Plugins \ {p} : analyses'[v][q] = analyses[v][q]
    BY <2>1 DEF Typed, DataTypes
  <2>3. Present(new)
    BY <2>1 DEF Present
  <2> QED
    BY <2>2, <2>3 DEF Grows
<1> QED
  BY <1>1, <1>2 DEF StoreAnalysis

LEMMA StepGrows ==
    ASSUME Typed, [Next]_vars, NEW u \in Objects
    PROVE  Grows(u)
<1>1. ASSUME UNCHANGED <<stored, analyses>> PROVE Grows(u)
  BY <1>1 DEF Grows
<1>2. CASE UNCHANGED vars
  BY <1>1, <1>2 DEF vars, dbVars
<1>3. ASSUME NEW t \in Tasks, Enter(t) \/ RequestUpdate(t) PROVE Grows(u)
  <2>1. CASE BeginUpdate(t)
    BY <2>1, AddObjectGrows DEF BeginUpdate
  <2> QED
    BY <1>1, <1>3, <2>1 DEF Enter, StartAnalysisOfObject, UpdateAnalysisOfSingleObject,
        UpdateAnalysisOfChild, UpdateAnalysisOfRoot, EntryCrash, RequestUpdate, dbVars
<1>4. CASE RunnerStep
  <2>1. CASE TakeTask
    BY <2>1, ReaderFacts, AddObjectGrows DEF TakeTask, Typed
  <2>2. CASE StoreSkipped
    <3>1. PICK t \in Tasks, p \in Plugins : t = runner.task /\ p = runner.plugin
      BY <2>2, ReaderFacts DEF StoreSkipped, Typed, ResultInHand
    <3>2. Uid(t) \in Objects /\ processed[t][p] \in Entry /\ Present(processed[t][p])
      BY <2>2, <3>1, UidFacts DEF StoreSkipped, Typed, DataTypes, ResultInHand
    <3> QED
      BY <2>2, <3>1, <3>2, StoreAnalysisGrows DEF StoreSkipped
  <2> QED
    BY <1>1, <1>4, <2>1, <2>2 DEF RunnerStep, AbandonTask, SkipUnknownPlugin, SkipUpToDate,
        SkipFiltered, StartPlugin, RunnerCrash, dbVars
<1>5. ASSUME NEW p \in Plugins, BeginAnalysis(p) \/ CollectorStep(p) PROVE Grows(u)
  BY <1>1, <1>5 DEF BeginAnalysis, CollectorStep, Collect, CollectWithoutResult,
        CollectorCrash, dbVars
<1>6. ASSUME NEW p \in Plugins, NEW t \in Tasks, WorkerStep(p, t) PROVE Grows(u)
  BY <1>1, <1>6, WorkerMoves
<1>7. CASE StoreResult
  <2>1. PICK t \in Tasks, p \in Plugins : t = collector.task /\ p = collector.plugin
    BY <1>7, ReaderFacts DEF StoreResult, Typed, ResultInHand
  <2>2. Uid(t) \in Objects /\ processed[t][p] \in Entry /\ Present(processed[t][p])
    BY <1>7, <2>1, UidFacts DEF StoreResult, Typed, DataTypes, ResultInHand
  <2> QED
    BY <1>7, <2>1, <2>2, StoreAnalysisGrows DEF StoreResult
<1>8. ASSUME NEW fw \in Objects, DeleteFirmware(fw) PROVE Grows(u)
  <2>1. ASSUME Lasting(u), u \in stored PROVE u \in stored' /\ analyses'[u] = analyses[u]
    BY <1>8, <2>1 DEF DeleteFirmware, Lasting
  <2> QED
    BY <2>1 DEF Grows
<1>9. CASE Loss
  BY <1>1, <1>9, SomeTaskLost, LossMoves DEF Typed, dbVars
<1> QED
  BY <1>2, <1>3, <1>4, <1>5, <1>6, <1>7, <1>8, <1>9 DEF Next, Loss

----------------------------------------------------------------------------
(* The invariant of one task. *)

LEMMA DependenciesLoaded == \A p \in Plugins : Dependencies[p] \subseteq Plugins
  BY PluginsAssumption

LEMMA FrameKeeps ==
    ASSUME NEW c \in Tasks, ResultsOf(c), Frame(c), Grows(Uid(c))
    PROVE  ResultsOf(c)'
<1>1. /\ phase'[c] = phase[c] /\ scheduled'[c] = scheduled[c]
      /\ processed'[c] = processed[c] /\ planned'[c] = planned[c]
  BY DEF Frame, Same
<1>2. PhaseInv(c)'
  BY <1>1 DEF ResultsOf, PhaseInv, Grows, Lasting, Uid
<1>3. \A p \in Plugins : Handles(p, c)' <=> Handles(p, c)
  BY DEF Frame, Same, Handles
<1>4. Held(c)' <=> Held(c)
  BY <1>3 DEF Frame, Same, Held
<1>5. /\ runner'.task = c => runner' = runner /\ runner.task = c
      /\ collector'.task = c => collector' = collector /\ collector.task = c
      /\ runner.task = c => runner' = runner
      /\ collector.task = c => collector' = collector
  BY DEF Frame, Same
<1>6. \A p \in Plugins : InHand(c, p)' <=> InHand(c, p)
  BY <1>3, <1>5 DEF InHand
<1>7. \A d : Fine(c, d)' <=> Fine(c, d)
  BY <1>1 DEF Fine, ImageOnly, Present
<1>8. \A p : AllFine(c, p)' <=> AllFine(c, p)
  BY <1>7 DEF AllFine
<1>9. \A p : Needed(c, p)' <=> Needed(c, p)
  BY <1>1 DEF Needed
<1> SUFFICES ASSUME SoundList(c)
             PROVE  /\ RunnerInv(c)' /\ CollectorInv(c)' /\ \A p \in Plugins : PluginInv(c, p)'
                    /\ Held(c)' => ListInv(c)'
                    /\ Held(c)' \/ phase'[c] = "completed" => StoredInv(c)'
  BY <1>2 DEF ResultsOf, SoundList
<1>10. /\ RunnerInv(c) /\ CollectorInv(c) /\ \A p \in Plugins : PluginInv(c, p)
       /\ Held(c) => ListInv(c)
       /\ Held(c) \/ phase[c] = "completed" => StoredInv(c)
  BY DEF ResultsOf
<1>11. RunnerInv(c)' /\ CollectorInv(c)'
  BY <1>5, <1>7, <1>8, <1>9, <1>10 DEF RunnerInv, CollectorInv
<1>12. ASSUME NEW p \in Plugins PROVE PluginInv(c, p)'
  <2>1. /\ c \in InOrder(inQueue'[p]) <=> c \in InOrder(inQueue[p])
        /\ c \in running'[p] <=> c \in running[p]
        /\ c \in InOrder(outQueue'[p]) <=> c \in InOrder(outQueue[p])
        /\ ImageOnly(c, p)' <=> ImageOnly(c, p)
    BY DEF Frame, Same, ImageOnly
  <2> QED
    BY <1>7, <1>8, <1>10, <2>1 DEF PluginInv
<1>13. ASSUME Held(c) PROVE ListInv(c)'
  <2>1. ListInv(c)
    BY <1>10, <1>13
  <2> QED
    BY <1>1, <1>6, <1>7, <2>1, DependenciesLoaded DEF ListInv, Distinct, DependencyPreserving
<1>14. ASSUME StoredInv(c) PROVE StoredInv(c)'
  <2>1. ASSUME NEW p \in Plugins, NEW d \in Dependencies[p], FailedIn(c, d)
        PROVE  FailedIn(c, d)'
    BY <1>1, <1>5, <1>6, <2>1, DependenciesLoaded DEF FailedIn
  <2>2. ASSUME Lasting(Uid(c)), NEW p \in Plugins, Accounted(c, p) PROVE Accounted(c, p)'
    <3>1. CASE p \in InOrder(scheduled[c]) \/ InHand(c, p)
      BY <1>1, <1>6, <3>1 DEF Accounted
    <3>2. CASE Uid(c) \in stored /\ Present(analyses[Uid(c)][p])
      <4>1. Uid(c) \in stored' /\ Present(analyses'[Uid(c)][p])
        BY <2>2, <3>2 DEF Grows
      <4> QED
        BY <4>1 DEF Accounted, Uid, Present
    <3>3. CASE p \in Unstorable \/ ImageOnly(c, p)
      BY <3>3 DEF Accounted, ImageOnly
    <3>4. CASE \E d \in Dependencies[p] : FailedIn(c, d)
      BY <2>1, <3>4 DEF Accounted
    <3> QED
      BY <2>2, <3>1, <3>2, <3>3, <3>4 DEF Accounted
  <2>3. ASSUME Lasting(Uid(c)), Uid(c) \in stored PROVE Uid(c) \in stored'
    BY <2>3 DEF Grows
  <2> QED
    BY <1>1, <1>6, <1>14, <2>2, <2>3 DEF StoredInv, Lasting, Uid
<1> QED
  BY <1>1, <1>4, <1>10, <1>11, <1>12, <1>13, <1>14

LEMMA OnlyMovesKeeps ==
    ASSUME Typed, ResultsInv, [Next]_vars, NEW t \in Tasks, OnlyMoves(t), ResultsOf(t)'
    PROVE  ResultsInv'
<1>1. ASSUME NEW c \in Tasks \ {t} PROVE ResultsOf(c)'
  <2>1. ResultsOf(c) /\ Frame(c) /\ Uid(c) \in Objects
    BY UidFacts DEF ResultsInv, OnlyMoves
  <2>2. Grows(Uid(c))
    BY <2>1, StepGrows
  <2> QED
    BY <2>1, <2>2, FrameKeeps
<1>2. \A c \in Tasks : ResultsOf(c)'
  BY <1>1
<1> QED
  BY <1>2 DEF ResultsInv

\* A task that nobody holds, and that is not completed.
LEMMA LeavesKeeps ==
    ASSUME NEW t \in Tasks, ~ Held(t)', PhaseInv(t)', phase'[t] # "completed"
    PROVE  ResultsOf(t)'
<1>1. /\ runner'.task # t /\ collector'.task # t
      /\ \A p \in Plugins : ~ Handles(p, t)'
  BY DEF Held
<1>2. RunnerInv(t)' /\ CollectorInv(t)' /\ \A p \in Plugins : PluginInv(t, p)'
  BY <1>1 DEF RunnerInv, CollectorInv, PluginInv, Handles
<1> QED
  BY <1>2 DEF ResultsOf

\* A task that is back in the queue, or completed.
LEMMA GivesBackKeeps ==
    ASSUME Typed, NEW t \in Tasks, GivesBack(t, scheduled'[t]),
           SoundList(t) =>
                /\ InOrder(scheduled'[t]) \subseteq Plugins
                /\ Distinct(scheduled'[t]) /\ DependencyPreserving(scheduled'[t])
                /\ \A p \in InOrder(scheduled'[t]) : \A d \in Dependencies[p] :
                        d \in InOrder(scheduled'[t]) \/ Fine(t, d)'
                /\ Lasting(Uid(t)) => \A p \in planned'[t] \cap Plugins : Accounted(t, p)'
    PROVE  ResultsOf(t)'
<1>1. /\ phase'[t] \in {"active", "completed"}
      /\ phase'[t] = "completed" => scheduled'[t] = << >>
  BY GivesBackQueued
<1>2. /\ runner'.task # t /\ collector'.task # t
      /\ \A p \in Plugins : ~ Handles(p, t)'
  BY DEF GivesBack, Released
<1>3. \A p \in Plugins : ~ InHand(t, p)'
  BY <1>2 DEF InHand
<1>4. PhaseInv(t)'
  BY <1>1 DEF PhaseInv
<1>5. RunnerInv(t)' /\ CollectorInv(t)' /\ \A p \in Plugins : PluginInv(t, p)'
  BY <1>2 DEF RunnerInv, CollectorInv, PluginInv, Handles
<1>6. ASSUME SoundList(t) PROVE ListInv(t)' /\ StoredInv(t)'
  <2>1. ListInv(t)'
    BY <1>3, <1>6 DEF ListInv
  <2>2. StoredInv(t)'
    BY <1>3, <1>6 DEF StoredInv, Lasting, Uid
  <2> QED
    BY <2>1, <2>2
<1> QED
  BY <1>4, <1>5, <1>6 DEF ResultsOf, SoundList

\* A task that somebody holds.
LEMMA HeldKeeps ==
    ASSUME HandOver', NEW t \in Tasks, Held(t)',
           SoundList(t) =>
                /\ RunnerInv(t)' /\ CollectorInv(t)' /\ \A p \in Plugins : PluginInv(t, p)'
                /\ ListInv(t)' /\ StoredInv(t)'
    PROVE  ResultsOf(t)'
<1>1. phase'[t] = "active"
  BY DEF HandOver, PhaseAgrees
<1>2. PhaseInv(t)'
  BY <1>1 DEF PhaseInv
<1> QED
  BY <1>2 DEF ResultsOf, SoundList

\* A task that goes from hand to hand, or stays in one.
LEMMA HandToHand ==
    ASSUME NEW t \in Tasks, ListInv(t), StoredInv(t), Grows(Uid(t)),
           scheduled'[t] = scheduled[t], planned'[t] = planned[t],
           \A p \in Plugins : InHand(t, p)' <=> InHand(t, p),
           \A d \in Plugins : Fine(t, d) => Fine(t, d)',
           \A d \in Plugins : FailedIn(t, d) => FailedIn(t, d)'
    PROVE  ListInv(t)' /\ StoredInv(t)'
<1>1. ListInv(t)'
  BY DependenciesLoaded DEF ListInv, Distinct, DependencyPreserving
<1>2. ASSUME Lasting(Uid(t)), NEW p \in Plugins, Accounted(t, p) PROVE Accounted(t, p)'
  <2>1. CASE p \in InOrder(scheduled[t]) \/ InHand(t, p)
    BY <2>1 DEF Accounted
  <2>2. CASE Uid(t) \in stored /\ Present(analyses[Uid(t)][p])
    <3>1. Uid(t) \in stored' /\ Present(analyses'[Uid(t)][p])
      BY <1>2, <2>2 DEF Grows
    <3> QED
      BY <3>1 DEF Accounted, Uid, Present
  <2>3. CASE p \in Unstorable \/ ImageOnly(t, p)
    BY <2>3 DEF Accounted, ImageOnly
  <2>4. CASE \E d \in Dependencies[p] : FailedIn(t, d)
    BY <2>4, DependenciesLoaded DEF Accounted
  <2> QED
    BY <1>2, <2>1, <2>2, <2>3, <2>4 DEF Accounted
<1>3. ASSUME Lasting(Uid(t)), Uid(t) \in stored PROVE Uid(t) \in stored'
  BY <1>3 DEF Grows
<1>4. StoredInv(t)'
  BY <1>2, <1>3 DEF StoredInv, Lasting, Uid
<1> QED
  BY <1>1, <1>4

----------------------------------------------------------------------------
(* The entry points. *)

LEMMA SoundFacts ==
    ASSUME NEW t \in Tasks, SoundList(t), Request[t].entry = "update"
    PROVE  /\ InOrder(Request[t].plugins) \subseteq Plugins
           /\ Distinct(Request[t].plugins)
           /\ DependencyPreserving(Request[t].plugins)
           /\ DependenciesIncluded(Request[t].plugins)
  BY DEF SoundList

\* The whole list is scheduled.
LEMMA EnterKeepsResults ==
    ASSUME Typed, NEW t \in Tasks, GivesBack(t, scheduled'[t]),
           planned'[t] = InOrder(scheduled'[t]),
           SoundList(t) =>
                /\ InOrder(scheduled'[t]) \subseteq Plugins
                /\ Distinct(scheduled'[t]) /\ DependencyPreserving(scheduled'[t])
                /\ DependenciesIncluded(scheduled'[t])
    PROVE  ResultsOf(t)'
<1>1. \A p \in planned'[t] : Accounted(t, p)'
  BY DEF Accounted
<1> QED
  BY <1>1, GivesBackKeeps DEF DependenciesIncluded

LEMMA EnterResults ==
    ASSUME Typed, Typed', ResultsInv, NEW t \in Tasks, Enter(t) \/ RequestUpdate(t)
    PROVE  ResultsInv'
<1>1. Next
  BY DEF Next
<1>2. PhaseInv(t)
  BY DEF ResultsInv, ResultsOf
<1>3. ASSUME NEW list \in Seq(Names), AllLoaded(list), NEW mandatory \in BOOLEAN,
             NEW plan \in Plans(InOrder(list), mandatory), Plan(t, plan),
             GivesBack(t, scheduled'[t])
      PROVE  ResultsInv'
  <2>1. /\ InOrder(plan) \subseteq Plugins /\ Distinct(plan)
        /\ DependencyPreserving(plan) /\ DependenciesIncluded(plan)
    BY <1>3, PlannedList
  <2>2. scheduled'[t] = plan /\ planned'[t] = InOrder(plan)
    BY <1>3 DEF Plan, Typed, DataTypes
  <2>3. ResultsOf(t)'
    BY <1>3, <2>1, <2>2, EnterKeepsResults
  <2>4. OnlyMoves(t)
    BY <1>3 DEF GivesBack
  <2> QED
    BY <1>1, <2>3, <2>4, OnlyMovesKeeps
<1>4. CASE StartAnalysisOfObject(t)
  <2>1. Request[t].plugins \in Seq(Names)
    BY RequestAssumption
  <2> QED
    BY <1>3, <1>4, <2>1, EntryMoves DEF StartAnalysisOfObject
<1>5. CASE UpdateAnalysisOfSingleObject(t)
  <2>1. scheduled[t] \in Seq(Names)
    BY DEF Typed, DataTypes
  <2> QED
    BY <1>3, <1>5, <2>1, EntryMoves DEF UpdateAnalysisOfSingleObject
<1>6. CASE UpdateAnalysisOfChild(t)
  <2>1. PICK root \in Request[t].after :
            /\ AllLoaded(scheduled[root])
            /\ \E plan \in Plans(InOrder(scheduled[root]), FALSE) : Plan(t, plan)
    BY <1>6 DEF UpdateAnalysisOfChild
  <2>2. scheduled[root] \in Seq(Names)
    BY RequestAssumption DEF Typed, DataTypes
  <2> QED
    BY <1>3, <1>6, <2>1, <2>2, EntryMoves
<1>7. CASE UpdateAnalysisOfRoot(t)
  <2>1. /\ GivesBack(t, scheduled'[t]) /\ scheduled' = scheduled
        /\ planned'[t] = InOrder(scheduled[t]) /\ phase[t] = "updating"
    BY <1>7, EntryMoves DEF UpdateAnalysisOfRoot, taskVars, Typed, DataTypes
  <2>2. scheduled[t] = Request[t].plugins /\ Request[t].entry = "update"
    BY <1>2, <2>1 DEF PhaseInv
  <2>3. ResultsOf(t)'
    BY <2>1, <2>2, SoundFacts, EnterKeepsResults
  <2>4. OnlyMoves(t)
    BY <2>1 DEF GivesBack
  <2> QED
    BY <1>1, <2>3, <2>4, OnlyMovesKeeps
<1>8. CASE RequestUpdate(t) \/ EntryCrash(t)
  <2>1. Leaves(t)
    BY <1>8, OutsideMoves
  <2>2. /\ phase'[t] \in {"requested", "crashed"} /\ scheduled' = scheduled
        /\ phase'[t] = "requested" => phase[t] = "new" /\ Uid(t) \in stored'
    BY <1>8 DEF RequestUpdate, EntryCrash, taskVars, dbVars, Typed, HandOver, HandOverTypes
  <2>3. PhaseInv(t)' /\ phase'[t] # "completed"
    BY <1>2, <2>2 DEF PhaseInv, Uid
  <2>4. ResultsOf(t)'
    BY <2>1, <2>3, LeavesKeeps DEF Leaves
  <2> QED
    BY <1>1, <2>1, <2>4, OnlyMovesKeeps DEF Leaves
<1>9. CASE BeginUpdate(t)
  <2>1. /\ UNCHANGED <<scheduled, processed, planned, processQueue, inQueue, running,
                       outQueue, runner, collector>>
        /\ phase[t] = "requested" /\ phase'[t] = "updating" /\ Request[t].entry = "update"
        /\ Uid(t) \in stored'
        /\ \A c \in Tasks \ {t} : phase'[c] # phase[c] => phase'[c] = "excluded" /\ phase[c] = "new"
    BY <1>9 DEF BeginUpdate, AddObject, taskVars, pluginVars
  <2>2. ASSUME NEW c \in Tasks PROVE ResultsOf(c)'
    <3>1. CASE c # t /\ phase'[c] = phase[c]
      <4>1. Frame(c) /\ Uid(c) \in Objects /\ ResultsOf(c)
        BY <2>1, <3>1, UidFacts DEF Frame, Same, Queued, ResultsInv
      <4> QED
        BY <1>1, <4>1, StepGrows, FrameKeeps
    <3>2. CASE c = t \/ phase'[c] # phase[c]
      <4>1. phase[c] # "active" /\ phase'[c] \in {"updating", "excluded"}
        BY <2>1, <3>2
      <4>2. ~ Held(c)
        BY <4>1 DEF Typed, HandOver, PhaseAgrees
      <4>3. ~ Held(c)'
        BY <2>1, <4>2 DEF Held, Queued, Handles
      <4>4. PhaseInv(c)'
        BY <1>2, <2>1, <3>2 DEF PhaseInv, Uid
      <4> QED
        BY <4>1, <4>3, <4>4, LeavesKeeps
    <3> QED
      BY <3>1, <3>2
  <2> QED
    BY <2>2 DEF ResultsInv
<1> QED
  BY <1>4, <1>5, <1>6, <1>7, <1>8, <1>9 DEF Enter

----------------------------------------------------------------------------
(* The schedule process. *)

\* What the invariant says of the task in the schedule process.
LEMMA RunnerFacts ==
    ASSUME Typed, ResultsInv, NEW t \in Tasks, t = runner.task, SoundList(t)
    PROVE  /\ runner.plugin \in Plugins /\ Held(t)
           /\ RunnerInv(t) /\ ListInv(t) /\ StoredInv(t)
           /\ \A d \in Plugins : InHand(t, d) <=> d = runner.plugin
<1>1. Held(t)
  BY DEF Held
<1>2. RunnerInv(t) /\ ListInv(t) /\ StoredInv(t)
  BY <1>1 DEF ResultsInv, ResultsOf
<1>3. collector.task # t /\ \A p \in Plugins : ~ Handles(p, t)
  BY DEF Typed, HandOver, Single
<1>4. \A d \in Plugins : InHand(t, d) <=> d = runner.plugin
  BY <1>3 DEF InHand
<1> QED
  BY <1>1, <1>2, <1>4 DEF RunnerInv

\* The plugin that is popped is the last one, and nothing left needs to come before it.
LEMMA TakeTaskPops ==
    ASSUME Typed, TakeTask, NEW t \in Tasks, t = Head(processQueue)
    PROVE  \E p \in Names :
            /\ runner' = At("decide", t, p) /\ p \in InOrder(scheduled[t])
            /\ InOrder(scheduled[t]) = InOrder(scheduled'[t]) \cup {p}
            /\ Distinct(scheduled[t]) =>
                Distinct(scheduled'[t]) /\ p \notin InOrder(scheduled'[t])
            /\ DependencyPreserving(scheduled[t]) =>
                /\ DependencyPreserving(scheduled'[t])
                /\ Dependencies[p] \cap InOrder(scheduled[t]) = {}
<1>1. Queued(t) /\ scheduled[t] # << >> /\ scheduled[t] \in Seq(Names)
  BY TakeTaskMoves DEF Typed, SomethingScheduled, DataTypes
<1>2. PICK list : list = scheduled[t]
  OBVIOUS
<1>3. /\ Len(list) \in Nat \ {0} /\ list[Len(list)] \in Names
      /\ DOMAIN list = 1..Len(list)
      /\ DOMAIN SubSeq(list, 1, Len(list) - 1) = 1..(Len(list) - 1)
      /\ \A i \in 1..(Len(list) - 1) : SubSeq(list, 1, Len(list) - 1)[i] = list[i]
  BY <1>1, <1>2, PopFacts
<1>4. PICK n \in Nat \ {0} : \E rest : n = Len(list) /\ rest = SubSeq(list, 1, n - 1)
  BY <1>3
<1>4a. PICK rest : n = Len(list) /\ rest = SubSeq(list, 1, n - 1)
  BY <1>4
<1>5. PICK p \in Names : p = list[n]
  BY <1>3, <1>4a
<1>6.  /\ DOMAIN list = 1..n /\ DOMAIN rest = 1..(n - 1)
       /\ \A i \in 1..(n - 1) : rest[i] = list[i]
  BY <1>3, <1>4a
<1>7. runner' = At("decide", t, p) /\ scheduled'[t] = rest
  BY <1>2, <1>4a, <1>5 DEF TakeTask, Typed, DataTypes
<1>8. /\ DOMAIN rest \subseteq DOMAIN list /\ n \in DOMAIN list /\ n \notin DOMAIN rest
      /\ \A i \in DOMAIN list : i \in DOMAIN rest \/ i = n
      /\ \A i \in DOMAIN rest : rest[i] = list[i]
      /\ \A i \in DOMAIN list : ~ (n < i)
      /\ list[n] = p
  BY <1>5, <1>6
<1>9. InOrder(list) = InOrder(rest) \cup {p}
  BY <1>8 DEF InOrder
<1>10. ASSUME Distinct(list) PROVE Distinct(rest) /\ p \notin InOrder(rest)
  BY <1>8, <1>10 DEF InOrder, Distinct
<1>11. ASSUME DependencyPreserving(list)
       PROVE  DependencyPreserving(rest) /\ Dependencies[p] \cap InOrder(list) = {}
  <2>1. ASSUME NEW i \in DOMAIN list, list[i] \in Dependencies[p] PROVE FALSE
    BY <1>8, <1>11, <2>1 DEF DependencyPreserving
  <2>2. DependencyPreserving(rest)
    BY <1>8, <1>11 DEF DependencyPreserving
  <2> QED
    BY <2>1, <2>2 DEF InOrder
<1> QED
  BY <1>2, <1>7, <1>9, <1>10, <1>11

LEMMA TakeTaskResults ==
    ASSUME Typed, Typed', ResultsInv, TakeTask
    PROVE  ResultsInv'
<1>1. PICK t \in Tasks : t = Head(processQueue)
  BY ReaderFacts DEF TakeTask, Typed
<1>2. /\ OnlyMoves(t) /\ Queued(t) /\ Released(t)
      /\ ~ Queued(t)' /\ runner'.task = t /\ collector'.task # t
      /\ \A p \in Plugins : ~ Handles(p, t)'
  BY <1>1, TakeTaskMoves
<1>3. PICK p \in Names :
        /\ runner' = At("decide", t, p) /\ p \in InOrder(scheduled[t])
        /\ InOrder(scheduled[t]) = InOrder(scheduled'[t]) \cup {p}
        /\ Distinct(scheduled[t]) => Distinct(scheduled'[t]) /\ p \notin InOrder(scheduled'[t])
        /\ DependencyPreserving(scheduled[t]) =>
            /\ DependencyPreserving(scheduled'[t])
            /\ Dependencies[p] \cap InOrder(scheduled[t]) = {}
  BY <1>1, TakeTaskPops
<1>4. PICK rest : scheduled'[t] = rest
  OBVIOUS
<1>5. /\ runner' = At("decide", t, p)
      /\ UNCHANGED <<processed, planned>>
      /\ AddObject(t)
  BY <1>1, <1>3 DEF TakeTask
<1>6. runner'.plugin = p /\ runner'.pc = "decide" /\ Held(t)'
  BY <1>2, <1>5 DEF At, Held
<1>7. ASSUME SoundList(t)
      PROVE  /\ RunnerInv(t)' /\ CollectorInv(t)' /\ \A q \in Plugins : PluginInv(t, q)'
             /\ ListInv(t)' /\ StoredInv(t)'
  <2>1. ListInv(t) /\ StoredInv(t)
    BY <1>2, <1>7 DEF ResultsInv, ResultsOf, Held
  <2>2. \A q \in Plugins : ~ InHand(t, q)
    BY <1>2 DEF Released, InHand
  <2>3. /\ InOrder(scheduled[t]) = InOrder(rest) \cup {p} /\ p \notin InOrder(rest)
        /\ Distinct(rest) /\ DependencyPreserving(rest)
        /\ p \in Plugins /\ InOrder(rest) \subseteq Plugins
        /\ \A d \in Dependencies[p] : d \notin InOrder(scheduled[t])
    BY <1>3, <1>4, <2>1 DEF ListInv
  <2>4. \A d : Fine(t, d)' <=> Fine(t, d)
    BY <1>5 DEF Fine, ImageOnly, Present
  <2>5. \A d \in Plugins : InHand(t, d)' <=> d = p
    BY <1>2, <1>6 DEF InHand
  <2>6. AllFine(t, p)
    BY <2>1, <2>2, <2>3, DependenciesLoaded DEF ListInv, AllFine
  <2>7. RunnerInv(t)'
    BY <1>6, <2>3, <2>4, <2>6 DEF RunnerInv, AllFine
  <2>8. CollectorInv(t)' /\ \A q \in Plugins : PluginInv(t, q)'
    BY <1>2 DEF CollectorInv, PluginInv, Handles
  <2>9. ListInv(t)'
    BY <1>4, <2>1, <2>2, <2>3, <2>4, <2>5, DependenciesLoaded DEF ListInv
  <2>10. ASSUME NEW d \in Plugins, FailedIn(t, d) PROVE FailedIn(t, d)'
    BY <1>4, <1>5, <2>3, <2>5, <2>10 DEF FailedIn
  <2>11. ASSUME Lasting(Uid(t)), NEW q \in planned[t] \cap Plugins PROVE Accounted(t, q)'
    <3>1. Accounted(t, q)
      BY <2>1, <2>11 DEF StoredInv
    <3>2. Uid(t) \in Objects
      BY UidFacts
    <3>3. CASE q \in InOrder(scheduled[t]) \/ InHand(t, q)
      BY <1>4, <1>5, <2>2, <2>3, <2>5, <3>3 DEF Accounted
    <3>4. CASE Uid(t) \in stored /\ Present(analyses[Uid(t)][q])
      <4>1. Grows(Uid(t))
        BY <1>5, <3>2, AddObjectGrows
      <4>2. Uid(t) \in stored' /\ Present(analyses'[Uid(t)][q])
        BY <2>11, <3>4, <4>1 DEF Grows
      <4> QED
        BY <4>2 DEF Accounted, Uid, Present
    <3>5. CASE q \in Unstorable \/ ImageOnly(t, q)
      BY <3>5 DEF Accounted, ImageOnly
    <3>6. CASE \E d \in Dependencies[q] : FailedIn(t, d)
      BY <2>10, <3>6, DependenciesLoaded DEF Accounted
    <3> QED
      BY <3>1, <3>3, <3>4, <3>5, <3>6 DEF Accounted
  <2>12. StoredInv(t)'
    BY <1>5, <2>11 DEF StoredInv, AddObject, Lasting, Uid
  <2> QED
    BY <2>7, <2>8, <2>9, <2>12
<1>8. ResultsOf(t)'
  BY <1>6, <1>7, HeldKeeps DEF Typed
<1> QED
  BY <1>2, <1>8, OnlyMovesKeeps DEF Next, RunnerStep

LEMMA AbandonTaskResults ==
    ASSUME Typed, ResultsInv, AbandonTask
    PROVE  ResultsInv'
<1>1. PICK t \in Tasks : t = Head(processQueue)
  BY ReaderFacts DEF AbandonTask, Typed
<1>2. Leaves(t)
  BY <1>1, AbandonTaskMoves
<1>3. phase'[t] = "abandoned"
  BY <1>1 DEF AbandonTask, Typed, HandOver, HandOverTypes
<1>4. ResultsOf(t)'
  BY <1>2, <1>3, LeavesKeeps DEF Leaves, PhaseInv
<1> QED
  BY <1>2, <1>4, OnlyMovesKeeps DEF Leaves, Next, RunnerStep

LEMMA RunnerCrashResults ==
    ASSUME Typed, ResultsInv, RunnerCrash
    PROVE  ResultsInv'
<1>1. PICK t \in Tasks : t = runner.task
  BY ReaderFacts DEF RunnerCrash, Typed
<1>2. Leaves(t)
  BY <1>1, RunnerCrashMoves
<1>3. phase'[t] = "active"
  BY <1>1 DEF RunnerCrash, Typed, HandOver, PhaseAgrees, Held
<1>4. ResultsOf(t)'
  BY <1>2, <1>3, LeavesKeeps DEF Leaves, PhaseInv
<1> QED
  BY <1>2, <1>4, OnlyMovesKeeps DEF Leaves, Next, RunnerStep

\* The task goes back and the plugin p it was taken out for is accounted for.
LEMMA BackAccounted ==
    ASSUME NEW t \in Tasks, NEW p \in Plugins, ListInv(t), StoredInv(t), Grows(Uid(t)),
           \A d \in Plugins : InHand(t, d) <=> d = p,
           Released(t)',
           scheduled'[t] = scheduled[t], planned'[t] = planned[t],
           \A d \in Plugins \ {p} : processed'[t][d] = processed[t][d],
           Needed(t, p) => Fine(t, p)',
           collector.task = t => processed'[t][p] = processed[t][p],
           Lasting(Uid(t)) => \/ Uid(t) \in stored' /\ Present(analyses'[Uid(t)][p])
                              \/ p \in Unstorable \/ ImageOnly(t, p)
    PROVE  /\ InOrder(scheduled'[t]) \subseteq Plugins
           /\ Distinct(scheduled'[t]) /\ DependencyPreserving(scheduled'[t])
           /\ \A q \in InOrder(scheduled'[t]) : \A d \in Dependencies[q] :
                   d \in InOrder(scheduled'[t]) \/ Fine(t, d)'
           /\ Lasting(Uid(t)) => \A q \in planned'[t] \cap Plugins : Accounted(t, q)'
<1>1. \A d \in Plugins \ {p} : Fine(t, d) => Fine(t, d)'
  BY DEF Fine, ImageOnly, Present
<1>2. ASSUME NEW q \in InOrder(scheduled[t]), NEW d \in Dependencies[q]
      PROVE  d \in InOrder(scheduled[t]) \/ Fine(t, d)'
  <2>1. d \in Plugins
    BY DependenciesLoaded DEF ListInv
  <2>2. CASE d = p
    BY <2>2 DEF Needed
  <2>3. CASE d # p
    BY <1>1, <2>1, <2>3 DEF ListInv
  <2> QED
    BY <2>2, <2>3
<1>3. \A d \in Plugins : ~ InHand(t, d)'
  BY DEF Released, InHand
<1>4. ASSUME NEW d \in Plugins, FailedIn(t, d) PROVE FailedIn(t, d)'
  <2>1. processed'[t][d] = processed[t][d]
    BY <1>4 DEF FailedIn
  <2> QED
    BY <1>3, <1>4, <2>1 DEF FailedIn
<1>5. ASSUME Lasting(Uid(t)), NEW q \in planned[t] \cap Plugins PROVE Accounted(t, q)'
  <2>1. Accounted(t, q)
    BY <1>5 DEF StoredInv
  <2>2. CASE q \in InOrder(scheduled[t])
    BY <2>2 DEF Accounted
  <2>3. CASE InHand(t, q)
    <3>1. q = p
      BY <2>3
    <3> QED
      BY <1>5, <3>1 DEF Accounted, Uid, Present, ImageOnly
  <2>4. CASE Uid(t) \in stored /\ Present(analyses[Uid(t)][q])
    <3>1. Uid(t) \in stored' /\ Present(analyses'[Uid(t)][q])
      BY <1>5, <2>4 DEF Grows
    <3> QED
      BY <3>1 DEF Accounted, Uid, Present
  <2>5. CASE q \in Unstorable \/ ImageOnly(t, q)
    BY <2>5 DEF Accounted, ImageOnly
  <2>6. CASE \E d \in Dependencies[q] : FailedIn(t, d)
    BY <1>4, <2>6, DependenciesLoaded DEF Accounted
  <2> QED
    BY <2>1, <2>2, <2>3, <2>4, <2>5, <2>6 DEF Accounted
<1> QED
  BY <1>2, <1>5 DEF ListInv

LEMMA RunnerGivesResults ==
    ASSUME Typed, Typed', ResultsInv, SkipUnknownPlugin \/ SkipUpToDate \/ StoreSkipped
    PROVE  ResultsInv'
<1>1. PICK t \in Tasks : t = runner.task
  BY ReaderFacts DEF SkipUnknownPlugin, SkipUpToDate, StoreSkipped, Typed
<1>2. /\ GivesBack(t, scheduled[t]) /\ scheduled' = scheduled /\ planned' = planned
      /\ OnlyMoves(t) /\ Released(t)'
  BY <1>1, RunnerGives DEF GivesBack
<1>3. Next
  BY DEF Next, RunnerStep
<1>4. Uid(t) \in Objects /\ Grows(Uid(t))
  BY <1>3, UidFacts, StepGrows
<1>5. collector.task # t
  BY <1>1 DEF Typed, HandOver, Single
<1>6. ASSUME SoundList(t)
      PROVE  /\ InOrder(scheduled'[t]) \subseteq Plugins
             /\ Distinct(scheduled'[t]) /\ DependencyPreserving(scheduled'[t])
             /\ \A q \in InOrder(scheduled'[t]) : \A d \in Dependencies[q] :
                   d \in InOrder(scheduled'[t]) \/ Fine(t, d)'
             /\ Lasting(Uid(t)) => \A q \in planned'[t] \cap Plugins : Accounted(t, q)'
  <2>1. PICK p \in Plugins :
            /\ p = runner.plugin /\ RunnerInv(t) /\ ListInv(t) /\ StoredInv(t)
            /\ \A d \in Plugins : InHand(t, d) <=> d = p
    BY <1>1, <1>6, RunnerFacts
  <2>2. Lasting(Uid(t)) => Uid(t) \in stored
    BY <2>1 DEF StoredInv
  <2>3. CASE SkipUnknownPlugin
    BY <2>1, <2>3 DEF SkipUnknownPlugin
  <2>4. CASE SkipUpToDate
    <3>1. /\ UpToDate(Uid(t), p) /\ UNCHANGED <<stored, analyses>>
          /\ processed' = IF p \in RemainingDependencies(InOrder(scheduled[t]))
                          THEN [processed EXCEPT ![t][p] = analyses[Uid(t)][p]]
                          ELSE processed
      BY <1>1, <2>1, <2>4 DEF SkipUpToDate, dbVars
    <3>2. analyses[Uid(t)][p].result \in {"ok", "skipped"}
      BY <3>1 DEF UpToDate, VersionCurrent
    <3>3. \A d \in Plugins \ {p} : processed'[t][d] = processed[t][d]
      BY <3>1 DEF Typed, DataTypes
    <3>4. ASSUME Needed(t, p) PROVE Fine(t, p)'
      <4>1. p \notin InOrder(scheduled[t])
        BY <2>1 DEF ListInv
      <4>2. p \in RemainingDependencies(InOrder(scheduled[t]))
        BY <3>4, <4>1 DEF Needed, RemainingDependencies
      <4>3. processed'[t][p] = analyses[Uid(t)][p]
        BY <3>1, <4>2 DEF Typed, DataTypes
      <4> QED
        BY <3>2, <4>3 DEF Fine, Present
    <3>5. Lasting(Uid(t)) => Uid(t) \in stored' /\ Present(analyses'[Uid(t)][p])
      BY <2>2, <3>1, <3>2 DEF Present
    <3> QED
      BY <1>2, <1>4, <1>5, <2>1, <3>3, <3>4, <3>5, BackAccounted
  <2>5. CASE StoreSkipped
    <3>1. /\ runner.pc = "store" /\ StoreAnalysis(Uid(t), p, processed[t][p])
          /\ UNCHANGED <<stored, processed>>
      BY <1>1, <2>1, <2>5 DEF StoreSkipped, taskVars
    <3>2. Present(processed[t][p]) /\ processed[t][p] \in Entry
      BY <1>1, <2>1, <3>1 DEF Typed, ResultInHand, DataTypes
    <3>3. Uid(t) \in stored => Present(analyses'[Uid(t)][p]) \/ p \in Unstorable
      BY <1>4, <3>1, <3>2, StoreAnalysisGrows
    <3>4. Fine(t, p)'
      BY <1>1, <2>1, <3>1 DEF RunnerInv, Fine, ImageOnly, Present
    <3> QED
      BY <1>2, <1>4, <1>5, <2>1, <2>2, <3>1, <3>3, <3>4, BackAccounted
  <2> QED
    BY <2>3, <2>4, <2>5
<1>7. ResultsOf(t)'
  BY <1>2, <1>6, GivesBackKeeps
<1> QED
  BY <1>2, <1>3, <1>7, OnlyMovesKeeps

LEMMA SkipFilteredResults ==
    ASSUME Typed, Typed', ResultsInv, SkipFiltered
    PROVE  ResultsInv'
<1>1. PICK t \in Tasks, p \in Plugins : t = runner.task /\ p = runner.plugin
  BY ReaderFacts DEF SkipFiltered, Typed
<1>2. /\ OnlyMoves(t) /\ runner' = At("store", t, p) /\ collector' = collector
      /\ scheduled' = scheduled /\ planned' = planned /\ collector.task # t
      /\ \A q \in Plugins : ~ Handles(q, t) /\ ~ Handles(q, t)'
  BY <1>1, SkipFilteredMoves
<1>3. runner'.task = t /\ runner'.plugin = p /\ runner'.pc = "store" /\ Held(t)'
  BY <1>2 DEF At, Held
<1>4. Next
  BY DEF Next, RunnerStep
<1>5. Uid(t) \in Objects /\ Grows(Uid(t))
  BY <1>4, UidFacts, StepGrows
<1>6. /\ WithFileType(t) \in [Plugins -> Entry]
      /\ \A d \in Plugins : Present(processed[t][d]) => WithFileType(t)[d] = processed[t][d]
  BY WithFileTypeFacts DEF Typed
<1>7. /\ processed'[t][p] = OtherResult("skipped", Uid(t), p)
      /\ \A d \in Plugins \ {p} : processed'[t][d] = WithFileType(t)[d]
  BY <1>1, <1>6 DEF SkipFiltered, Typed, DataTypes
<1>8. \A d \in Plugins \ {p} : Present(processed[t][d]) => processed'[t][d] = processed[t][d]
  BY <1>6, <1>7
<1>9. Present(processed'[t][p]) /\ processed'[t][p].result = "skipped"
  BY <1>5, <1>7, EntryFacts DEF Typed
<1>10. ASSUME SoundList(t)
       PROVE  /\ RunnerInv(t)' /\ CollectorInv(t)' /\ \A q \in Plugins : PluginInv(t, q)'
              /\ ListInv(t)' /\ StoredInv(t)'
  <2>1. /\ ListInv(t) /\ StoredInv(t)
        /\ \A d \in Plugins : InHand(t, d) <=> d = p
    BY <1>1, <1>10, RunnerFacts
  <2>2. \A d \in Plugins : InHand(t, d)' <=> InHand(t, d)
    BY <1>2, <1>3, <2>1 DEF InHand
  <2>3. \A d \in Plugins : Fine(t, d) => Fine(t, d)'
    BY <1>8, <1>9 DEF Fine, ImageOnly, Present
  <2>4. ASSUME NEW d \in Plugins, FailedIn(t, d) PROVE FailedIn(t, d)'
    <3>1. d # p /\ Present(processed[t][d])
      BY <1>2, <2>1, <2>4 DEF FailedIn, Present
    <3>2. processed'[t][d] = processed[t][d]
      BY <1>8, <3>1
    <3> QED
      BY <1>2, <2>2, <2>4, <3>2 DEF FailedIn
  <2>5. ListInv(t)' /\ StoredInv(t)'
    BY <1>2, <1>5, <2>1, <2>2, <2>3, <2>4, HandToHand
  <2>6. RunnerInv(t)'
    BY <1>3, <1>9 DEF RunnerInv, Fine, Present
  <2>7. CollectorInv(t)' /\ \A q \in Plugins : PluginInv(t, q)'
    BY <1>2 DEF CollectorInv, PluginInv, Handles
  <2> QED
    BY <2>5, <2>6, <2>7
<1>11. ResultsOf(t)'
  BY <1>3, <1>10, HeldKeeps DEF Typed
<1> QED
  BY <1>2, <1>4, <1>11, OnlyMovesKeeps

\* A plugin for every file needs no plugin for images only.
LEMMA ImageOnlyFacts ==
    ASSUME NEW t \in Tasks, NEW p \in Plugins, ~ ImageOnly(t, p)
    PROVE  \A d \in Dependencies[p] : ~ ImageOnly(t, d)
  BY RecursiveAssumption DEF ImageOnly

LEMMA StartPluginResults ==
    ASSUME Typed, Typed', ResultsInv, StartPlugin
    PROVE  ResultsInv'
<1>1. PICK t \in Tasks, p \in Plugins : t = runner.task /\ p = runner.plugin
  BY ReaderFacts DEF StartPlugin, Typed
<1>2. /\ OnlyMoves(t) /\ runner'.task # t /\ collector'.task # t /\ collector.task # t
      /\ \A q \in Plugins : ~ Handles(q, t) /\ (Handles(q, t)' <=> q = p)
      /\ \A q \in Plugins : t \notin running'[q]
      /\ \A q \in Plugins \ {p} : t \notin InOrder(inQueue'[q]) /\ t \notin InOrder(outQueue'[q])
      /\ \/ t \notin InOrder(outQueue'[p]) /\ t \in InOrder(inQueue'[p]) /\ outQueue' = outQueue
         \/ t \notin InOrder(inQueue'[p]) /\ t \in InOrder(outQueue'[p]) /\ inQueue' = inQueue
  BY <1>1, StartPluginMoves
<1>3. PICK results : /\ results = (IF AsksFilter(p) THEN WithFileType(t) ELSE processed[t])
                     /\ AddJob(t, p, results) /\ processed' = [processed EXCEPT ![t] = results]
                     /\ UNCHANGED <<scheduled, planned>>
                     /\ runner.pc = "decide"
  BY <1>1 DEF StartPlugin
<1>4. Next /\ Held(t)'
  BY <1>1, <1>2 DEF Next, RunnerStep, Held
<1>5. Uid(t) \in Objects /\ Grows(Uid(t))
  BY <1>4, UidFacts, StepGrows
<1>6. /\ results \in [Plugins -> Entry] /\ processed'[t] = results
      /\ \A d \in Plugins : Present(processed[t][d]) => results[d] = processed[t][d]
  BY <1>3, WithFileTypeFacts DEF Typed, DataTypes
<1>7. ASSUME SoundList(t)
      PROVE  /\ RunnerInv(t)' /\ CollectorInv(t)' /\ \A q \in Plugins : PluginInv(t, q)'
             /\ ListInv(t)' /\ StoredInv(t)'
  <2>1. /\ RunnerInv(t) /\ ListInv(t) /\ StoredInv(t)
        /\ \A d \in Plugins : InHand(t, d) <=> d = p
    BY <1>1, <1>7, RunnerFacts
  <2>2. \A d \in Plugins : InHand(t, d)' <=> InHand(t, d)
    BY <1>2, <2>1 DEF InHand
  <2>3. \A d \in Plugins : Fine(t, d) => Fine(t, d)'
    BY <1>6 DEF Fine, ImageOnly, Present
  <2>4. ASSUME NEW d \in Plugins, FailedIn(t, d) PROVE FailedIn(t, d)'
    <3>1. Present(processed[t][d])
      BY <2>4 DEF FailedIn, Present
    <3>2. processed'[t][d] = processed[t][d]
      BY <1>6, <3>1
    <3> QED
      BY <1>2, <1>3, <2>1, <2>2, <2>4, <3>2 DEF FailedIn
  <2>5. ListInv(t)' /\ StoredInv(t)'
    BY <1>3, <1>5, <2>1, <2>2, <2>3, <2>4, HandToHand
  <2>6. AllFine(t, p)
    BY <1>1, <1>3, <2>1 DEF RunnerInv
  <2>7. AllFine(t, p)'
    BY <2>3, <2>6, DependenciesLoaded DEF AllFine
  <2>8. CASE t \notin InOrder(outQueue'[p]) /\ t \in InOrder(inQueue'[p]) /\ outQueue' = outQueue
    <3>1. ~ ImageOnly(t, p)
      <4>1. CASE DependenciesUnfulfilled(results, p) \/ ImageOnly(t, p)
        <5>1. outQueue' = [outQueue EXCEPT ![p] = Append(@, t)]
          BY <1>3, <4>1 DEF AddJob
        <5>2. outQueue[p] \in Seq(Tasks) /\ outQueue \in [Plugins -> Seq(Tasks)]
          BY DEF Typed, HandOver, HandOverTypes, Queues
        <5>3. t \in InOrder(Append(outQueue[p], t))
          BY <5>2, AppendFacts
        <5> QED
          BY <2>8, <5>1, <5>2, <5>3
      <4> QED
        BY <4>1
    <3> QED
      BY <1>2, <2>5, <2>7, <2>8, <3>1 DEF RunnerInv, CollectorInv, PluginInv, ImageOnly
  <2>9. CASE t \notin InOrder(inQueue'[p]) /\ t \in InOrder(outQueue'[p]) /\ inQueue' = inQueue
    <3>1. ImageOnly(t, p)
      <4>1. CASE ~ (DependenciesUnfulfilled(results, p) \/ ImageOnly(t, p))
        <5>1. inQueue' = [inQueue EXCEPT ![p] = Append(@, t)]
          BY <1>3, <4>1 DEF AddJob
        <5>2. inQueue[p] \in Seq(Tasks) /\ inQueue \in [Plugins -> Seq(Tasks)]
          BY DEF Typed, HandOver, HandOverTypes, Queues
        <5>3. t \in InOrder(Append(inQueue[p], t))
          BY <5>2, AppendFacts
        <5> QED
          BY <2>9, <5>1, <5>2, <5>3
      <4>2. CASE DependenciesUnfulfilled(results, p)
        <5>1. PICK d \in Dependencies[p] : ~ Present(results[d])
          BY <4>2 DEF DependenciesUnfulfilled
        <5>2. Fine(t, d) /\ d \in Plugins
          BY <2>6, DependenciesLoaded DEF AllFine
        <5>3. ImageOnly(t, d)
          BY <1>6, <5>1, <5>2 DEF Fine
        <5> QED
          BY <5>3, ImageOnlyFacts
      <4> QED
        BY <4>1, <4>2
    <3> QED
      BY <1>2, <2>5, <2>9, <3>1 DEF RunnerInv, CollectorInv, PluginInv, ImageOnly, Fine
  <2> QED
    BY <1>2, <2>8, <2>9
<1>8. ResultsOf(t)'
  BY <1>4, <1>7, HeldKeeps DEF Typed
<1> QED
  BY <1>2, <1>4, <1>8, OnlyMovesKeeps

----------------------------------------------------------------------------
(* The workers of the plugins. *)

LEMMA PluginFacts ==
    ASSUME ResultsInv, NEW t \in Tasks, NEW p \in Plugins, AtPlugin(t, p), SoundList(t)
    PROVE  /\ PluginInv(t, p) /\ ListInv(t) /\ StoredInv(t)
           /\ \A d \in Plugins : InHand(t, d) <=> d = p
           /\ collector.task # t /\ runner.task # t
<1>1. Held(t)
  BY DEF AtPlugin, Held
<1> QED
  BY <1>1 DEF AtPlugin, InHand, ResultsInv, ResultsOf

\* The worker gives its plugin a result that is there and has not failed.
LEMMA AtPluginKeeps ==
    ASSUME Typed, Typed', ResultsInv, [Next]_vars, NEW t \in Tasks, NEW p \in Plugins,
           OnlyMoves(t), AtPlugin(t, p), AtPlugin(t, p)',
           t \in InOrder(inQueue[p]) \/ t \in running[p],
           \A q \in Plugins : t \notin InOrder(inQueue'[q]),
           \A q \in Plugins \ {p} : t \notin running'[q] /\ t \notin InOrder(outQueue'[q]),
           scheduled' = scheduled, planned' = planned,
           Present(processed'[t][p]), processed'[t][p].result # "failed",
           \A q \in Plugins \ {p} : processed'[t][q] = processed[t][q]
    PROVE  ResultsInv'
<1>1. Uid(t) \in Objects /\ Grows(Uid(t))
  BY UidFacts, StepGrows
<1>2. Held(t)' /\ runner'.task # t /\ collector'.task # t
  BY DEF AtPlugin, Held
<1>3. ASSUME SoundList(t)
      PROVE  /\ RunnerInv(t)' /\ CollectorInv(t)' /\ \A q \in Plugins : PluginInv(t, q)'
             /\ ListInv(t)' /\ StoredInv(t)'
  <2>1. /\ PluginInv(t, p) /\ ListInv(t) /\ StoredInv(t)
        /\ \A d \in Plugins : InHand(t, d) <=> d = p
        /\ collector.task # t
    BY <1>3, PluginFacts
  <2>2. \A d \in Plugins : InHand(t, d)' <=> InHand(t, d)
    BY <1>2, <2>1 DEF InHand, AtPlugin
  <2>3. \A d \in Plugins : Fine(t, d) => Fine(t, d)'
    BY DEF Fine, ImageOnly, Present
  <2>4. ASSUME NEW d \in Plugins, FailedIn(t, d) PROVE FailedIn(t, d)'
    BY <2>1, <2>2, <2>4 DEF FailedIn
  <2>5. ListInv(t)' /\ StoredInv(t)'
    BY <1>1, <2>1, <2>2, <2>3, <2>4, HandToHand
  <2>6. AllFine(t, p) /\ ~ ImageOnly(t, p)
    BY <2>1 DEF PluginInv
  <2>7. AllFine(t, p)' /\ ~ ImageOnly(t, p)' /\ Fine(t, p)'
    BY <2>3, <2>6, DependenciesLoaded DEF AllFine, ImageOnly, Fine, Present
  <2>8. \A q \in Plugins : PluginInv(t, q)'
    BY <2>7 DEF PluginInv
  <2>9. RunnerInv(t)' /\ CollectorInv(t)'
    BY <1>2 DEF RunnerInv, CollectorInv
  <2> QED
    BY <2>5, <2>8, <2>9
<1>4. ResultsOf(t)'
  BY <1>2, <1>3, HeldKeeps DEF Typed
<1> QED
  BY <1>4, OnlyMovesKeeps

LEMMA BeginAnalysisResults ==
    ASSUME Typed, Typed', ResultsInv, NEW p \in Plugins, BeginAnalysis(p)
    PROVE  ResultsInv'
<1>1. PICK t \in Tasks : t = Head(inQueue[p])
  BY ReaderFacts DEF BeginAnalysis, Typed
<1>2. /\ OnlyMoves(t) /\ AtPlugin(t, p) /\ AtPlugin(t, p)'
      /\ t \in InOrder(inQueue[p])
      /\ \A q \in Plugins :
            /\ t \notin InOrder(inQueue'[q]) /\ t \notin InOrder(outQueue'[q])
            /\ t \in running'[q] <=> q = p
  BY <1>1, BeginAnalysisMoves
<1>3. /\ processed'[t][p] = Empty
      /\ \A q \in Plugins \ {p} : processed'[t][q] = processed[t][q]
      /\ scheduled' = scheduled /\ planned' = planned
  BY <1>1 DEF BeginAnalysis, Typed, DataTypes
<1>4. Present(processed'[t][p]) /\ processed'[t][p].result # "failed"
  BY <1>3 DEF Empty, Absent, Present
<1>5. Next
  BY DEF Next
<1> QED
  BY <1>2, <1>3, <1>4, <1>5, AtPluginKeeps

LEMMA WorkerResults ==
    ASSUME Typed, Typed', ResultsInv, NEW p \in Plugins, NEW t \in Tasks, WorkerStep(p, t)
    PROVE  ResultsInv'
<1>1. Next
  BY DEF Next
<1>2. /\ OnlyMoves(t) /\ AtPlugin(t, p) /\ AtPlugin(t, p)' /\ t \in running[p]
      /\ \A q \in Plugins : t \notin InOrder(inQueue'[q])
      /\ \A q \in Plugins \ {p} : t \notin running'[q] /\ t \notin InOrder(outQueue'[q])
      /\ scheduled' = scheduled /\ planned' = planned
      /\ processed'[t][p].result # "failed" /\ Present(processed'[t][p])
      /\ \A q \in Plugins \ {p} : processed'[t][q] = processed[t][q]
  BY WorkerMoves
<1> QED
  BY <1>1, <1>2, AtPluginKeeps

----------------------------------------------------------------------------
(* The result collector. *)

\* What is left of a list without the dependents of the plugin that failed.
LEMMA CollectResults ==
    ASSUME Typed, Typed', ResultsInv, NEW p \in Plugins, Collect(p)
    PROVE  ResultsInv'
<1>1. PICK t \in Tasks : t = Head(outQueue[p])
  BY ReaderFacts DEF Collect, Typed
<1>2. /\ OnlyMoves(t) /\ AtPlugin(t, p) /\ t \in InOrder(outQueue[p])
      /\ collector' = At("store", t, p)
      /\ ~ Queued(t)' /\ runner'.task # t
      /\ \A q \in Plugins : ~ Handles(q, t)'
  BY <1>1, CollectMoves
<1>3. /\ collector'.task = t /\ collector'.plugin = p /\ planned' = planned
      /\ stored' = stored /\ analyses' = analyses
  BY <1>2 DEF At, Collect, dbVars
<1>4. Next /\ Held(t)'
  BY <1>3 DEF Next, CollectorStep, Held
<1>5. Uid(t) \in Objects /\ Grows(Uid(t))
  BY <1>4, UidFacts, StepGrows
<1>6. ASSUME SoundList(t)
      PROVE  /\ RunnerInv(t)' /\ CollectorInv(t)' /\ \A q \in Plugins : PluginInv(t, q)'
             /\ ListInv(t)' /\ StoredInv(t)'
  <2>1. /\ PluginInv(t, p) /\ ListInv(t) /\ StoredInv(t)
        /\ \A d \in Plugins : InHand(t, d) <=> d = p
        /\ collector.task # t
    BY <1>2, <1>6, PluginFacts
  <2>2. \A d \in Plugins : InHand(t, d)' <=> d = p
    BY <1>2, <1>3 DEF InHand
  <2>3. RunnerInv(t)' /\ \A q \in Plugins : PluginInv(t, q)'
    BY <1>2 DEF RunnerInv, PluginInv, Handles
  <2>4. CASE scheduled'[t] = scheduled[t] /\ processed'[t] = processed[t]
    <3>1. \A d \in Plugins : Fine(t, d)' <=> Fine(t, d)
      BY <2>4 DEF Fine, ImageOnly, Present
    <3>2. ASSUME NEW d \in Plugins, FailedIn(t, d) PROVE FailedIn(t, d)'
      BY <1>3, <2>2, <2>4, <3>2 DEF FailedIn
    <3>3. ListInv(t)' /\ StoredInv(t)'
      BY <1>3, <1>5, <2>1, <2>2, <2>4, <3>1, <3>2, HandToHand
    <3>4. Fine(t, p)'
      BY <1>2, <2>1, <3>1 DEF PluginInv
    <3>5. CollectorInv(t)'
      BY <1>3, <3>4 DEF CollectorInv
    <3> QED
      BY <2>3, <3>3, <3>5
  <2>5. ASSUME NEW dependents, dependents = Dependents(p, scheduled[t]),
               scheduled'[t] = Without(scheduled[t], dependents),
               \A q \in Plugins : processed'[t][q] =
                        IF q \in dependents THEN OtherResult("unscheduled", Uid(t), q)
                        ELSE IF q = p THEN OtherResult("failed", Uid(t), p)
                        ELSE processed[t][q]
        PROVE  /\ RunnerInv(t)' /\ CollectorInv(t)' /\ \A q \in Plugins : PluginInv(t, q)'
               /\ ListInv(t)' /\ StoredInv(t)'
    <3>1. /\ InOrder(scheduled[t]) \subseteq Plugins
          /\ Distinct(scheduled[t]) /\ DependencyPreserving(scheduled[t])
          /\ scheduled[t] \in Seq(Names)
          /\ p \notin InOrder(scheduled[t])
      BY <2>1 DEF ListInv, Typed, DataTypes
    <3>2. /\ InOrder(scheduled'[t]) = InOrder(scheduled[t]) \ dependents
          /\ Distinct(scheduled'[t]) /\ DependencyPreserving(scheduled'[t])
      BY <2>5, <3>1, WithoutFacts
    <3>3. /\ \A q : q \in dependents <=> q \in InOrder(scheduled[t]) /\ p \in Dependencies[q]
          /\ p \notin dependents
      BY <2>5, <3>1 DEF Dependents
    <3>4. \A d \in dependents : Fine(t, d)'
      <4>1. ASSUME NEW d \in dependents PROVE Fine(t, d)'
        <5>1. d \in Plugins
          BY <3>1, <3>3
        <5>2. processed'[t][d] = OtherResult("unscheduled", Uid(t), d)
          BY <2>5, <5>1
        <5>3. Present(processed'[t][d]) /\ processed'[t][d].result = "unscheduled"
          BY <1>5, <5>1, <5>2, EntryFacts DEF Typed
        <5> QED
          BY <5>3 DEF Fine, Present
      <4> QED
        BY <4>1
    <3>5. \A d \in Plugins \ {p} : Fine(t, d) => Fine(t, d)'
      <4>1. ASSUME NEW d \in Plugins \ {p}, Fine(t, d), d \notin dependents PROVE Fine(t, d)'
        <5>1. processed'[t][d] = processed[t][d]
          BY <2>5, <4>1
        <5> QED
          BY <4>1, <5>1 DEF Fine, ImageOnly, Present
      <4> QED
        BY <3>4, <4>1
    <3>6. processed'[t][p].result = "failed"
      BY <1>5, <2>5, <3>3, EntryFacts DEF Typed
    <3>7. FailedIn(t, p)'
      BY <1>3, <3>1, <3>2, <3>6 DEF FailedIn
    <3>8. ASSUME NEW d \in Plugins, FailedIn(t, d) PROVE FailedIn(t, d)'
      <4>1. d # p /\ d \notin InOrder(scheduled[t])
        BY <2>1, <3>8 DEF FailedIn
      <4>2. processed'[t][d] = processed[t][d]
        BY <2>5, <3>3, <4>1
      <4> QED
        BY <1>3, <3>2, <3>8, <4>1, <4>2 DEF FailedIn
    <3>9. CollectorInv(t)'
      BY <1>3, <3>2, <3>3 DEF CollectorInv, Needed
    <3>10. ListInv(t)'
      <4>1. ASSUME NEW q \in InOrder(scheduled[t]) \ dependents, NEW d \in Dependencies[q]
            PROVE  /\ ~ InHand(t, q)'
                   /\ d \in InOrder(scheduled'[t]) \/ InHand(t, d)' \/ Fine(t, d)'
        <5>1. q \in Plugins /\ d \in Plugins /\ q # p /\ d # p
          BY <3>1, <3>3, <4>1, DependenciesLoaded
        <5>2. d \in InOrder(scheduled[t]) \/ Fine(t, d)
          BY <2>1, <4>1, <5>1 DEF ListInv
        <5> QED
          BY <2>2, <3>2, <3>4, <3>5, <5>1, <5>2
      <4>2. \A q \in InOrder(scheduled[t]) \ dependents : ~ InHand(t, q)'
        BY <2>2, <3>1
      <4> QED
        BY <3>1, <3>2, <4>1, <4>2 DEF ListInv
    <3>11. ASSUME Lasting(Uid(t)), NEW q \in planned[t] \cap Plugins PROVE Accounted(t, q)'
      <4>1. Accounted(t, q)
        BY <2>1, <3>11 DEF StoredInv
      <4>2. CASE q \in dependents
        BY <3>3, <3>7, <4>2 DEF Accounted
      <4>3. CASE q \in InOrder(scheduled[t]) /\ q \notin dependents
        BY <3>2, <4>3 DEF Accounted
      <4>4. CASE InHand(t, q)
        BY <2>1, <2>2, <4>4 DEF Accounted
      <4>5. CASE Uid(t) \in stored /\ Present(analyses[Uid(t)][q])
        BY <1>3, <4>5 DEF Accounted, Uid, Present
      <4>6. CASE q \in Unstorable \/ ImageOnly(t, q)
        BY <4>6 DEF Accounted, ImageOnly
      <4>7. CASE \E d \in Dependencies[q] : FailedIn(t, d)
        BY <3>8, <4>7, DependenciesLoaded DEF Accounted
      <4> QED
        BY <4>1, <4>2, <4>3, <4>4, <4>5, <4>6, <4>7 DEF Accounted
    <3>12. Lasting(Uid(t)) => Uid(t) \in stored
      BY <2>1 DEF StoredInv
    <3>13. StoredInv(t)'
      BY <1>3, <3>11, <3>12 DEF StoredInv, Lasting, Uid
    <3> QED
      BY <2>3, <3>9, <3>10, <3>13
  <2> QED
    BY <1>1, <2>4, <2>5, CollectData
<1>7. ResultsOf(t)'
  BY <1>4, <1>6, HeldKeeps DEF Typed
<1> QED
  BY <1>2, <1>4, <1>7, OnlyMovesKeeps

LEMMA CollectWithoutResultResults ==
    ASSUME Typed, Typed', ResultsInv, NEW p \in Plugins, CollectWithoutResult(p)
    PROVE  ResultsInv'
<1>1. PICK t \in Tasks : t = Head(outQueue[p])
  BY ReaderFacts DEF CollectWithoutResult, Typed
<1>2. /\ GivesBack(t, scheduled[t]) /\ t \in InOrder(outQueue[p])
      /\ ~ Present(processed[t][p])
      /\ UNCHANGED <<scheduled, processed, planned, stored, analyses>>
  BY <1>1, CollectWithoutResultMoves DEF CollectWithoutResult, taskVars, dbVars
<1>3. AtPlugin(t, p)
  BY <1>2 DEF Typed, HandOver, Single, AtPlugin, Handles
<1>4. Next
  BY DEF Next, CollectorStep
<1>5. Grows(Uid(t)) /\ OnlyMoves(t) /\ Released(t)'
  BY <1>2, <1>4, UidFacts, StepGrows DEF GivesBack
<1>6. ASSUME SoundList(t)
      PROVE  /\ InOrder(scheduled'[t]) \subseteq Plugins
             /\ Distinct(scheduled'[t]) /\ DependencyPreserving(scheduled'[t])
             /\ \A q \in InOrder(scheduled'[t]) : \A d \in Dependencies[q] :
                   d \in InOrder(scheduled'[t]) \/ Fine(t, d)'
             /\ Lasting(Uid(t)) => \A q \in planned'[t] \cap Plugins : Accounted(t, q)'
  <2>1. /\ PluginInv(t, p) /\ ListInv(t) /\ StoredInv(t)
        /\ \A d \in Plugins : InHand(t, d) <=> d = p
    BY <1>3, <1>6, PluginFacts
  <2>2. ImageOnly(t, p)
    BY <1>2, <2>1 DEF PluginInv, Fine
  <2>3. Fine(t, p)'
    BY <2>2 DEF Fine, ImageOnly
  <2> QED
    BY <1>2, <1>5, <2>1, <2>2, <2>3, BackAccounted
<1>7. ResultsOf(t)'
  BY <1>2, <1>6, GivesBackKeeps
<1> QED
  BY <1>4, <1>5, <1>7, OnlyMovesKeeps

LEMMA StoreResultResults ==
    ASSUME Typed, Typed', ResultsInv, StoreResult
    PROVE  ResultsInv'
<1>1. PICK t \in Tasks, p \in Plugins : t = collector.task /\ p = collector.plugin
  BY ReaderFacts DEF StoreResult, Typed, ResultInHand
<1>2. /\ GivesBack(t, scheduled[t]) /\ collector.pc = "store"
      /\ StoreAnalysis(Uid(t), p, processed[t][p])
      /\ UNCHANGED <<scheduled, processed, planned, stored>>
  BY <1>1, StoreResultMoves DEF StoreResult, taskVars
<1>3. /\ Held(t) /\ runner.task # t
      /\ \A d \in Plugins : InHand(t, d) <=> d = p
  BY <1>1 DEF Held, Typed, HandOver, Single, InHand
<1>4. Next
  BY DEF Next
<1>5. Uid(t) \in Objects /\ Grows(Uid(t)) /\ OnlyMoves(t) /\ Released(t)'
  BY <1>2, <1>4, UidFacts, StepGrows DEF GivesBack
<1>6. Present(processed[t][p]) /\ processed[t][p] \in Entry
  BY <1>1, <1>2 DEF Typed, ResultInHand, DataTypes
<1>7. Uid(t) \in stored => Present(analyses'[Uid(t)][p]) \/ p \in Unstorable
  BY <1>2, <1>5, <1>6, StoreAnalysisGrows
<1>8. ASSUME SoundList(t)
      PROVE  /\ InOrder(scheduled'[t]) \subseteq Plugins
             /\ Distinct(scheduled'[t]) /\ DependencyPreserving(scheduled'[t])
             /\ \A q \in InOrder(scheduled'[t]) : \A d \in Dependencies[q] :
                   d \in InOrder(scheduled'[t]) \/ Fine(t, d)'
             /\ Lasting(Uid(t)) => \A q \in planned'[t] \cap Plugins : Accounted(t, q)'
  <2>1. CollectorInv(t) /\ ListInv(t) /\ StoredInv(t)
    BY <1>3, <1>8 DEF ResultsInv, ResultsOf
  <2>2. Lasting(Uid(t)) => Uid(t) \in stored
    BY <1>3, <2>1 DEF StoredInv
  <2>3. Needed(t, p) => Fine(t, p)'
    BY <1>1, <1>2, <2>1 DEF CollectorInv, Fine, ImageOnly, Present
  <2> QED
    BY <1>2, <1>3, <1>5, <1>7, <2>1, <2>2, <2>3, BackAccounted
<1>9. ResultsOf(t)'
  BY <1>2, <1>8, GivesBackKeeps
<1> QED
  BY <1>4, <1>5, <1>9, OnlyMovesKeeps

LEMMA CollectorCrashResults ==
    ASSUME Typed, ResultsInv, NEW p \in Plugins, CollectorCrash(p)
    PROVE  ResultsInv'
<1>1. PICK t \in Tasks : t = Head(outQueue[p]) /\ t \in InOrder(outQueue[p])
  BY ReaderFacts DEF CollectorCrash, Typed
<1>2. Leaves(t)
  BY <1>1, CollectorCrashMoves
<1>3. phase'[t] = "active"
  BY <1>1 DEF CollectorCrash, Typed, HandOver, PhaseAgrees, Held, Handles
<1>4. ResultsOf(t)'
  BY <1>2, <1>3, LeavesKeeps DEF Leaves, PhaseInv
<1> QED
  BY <1>2, <1>4, OnlyMovesKeeps DEF Leaves, Next, CollectorStep

LEMMA LossResults ==
    ASSUME Typed, ResultsInv, [Next]_vars, Loss
    PROVE  ResultsInv'
<1>1. PICK t \in Tasks : Leaves(t) /\ phase'[t] \in {"active", "lost"}
  BY SomeTaskLost, LossMoves DEF Typed
<1>2. ResultsOf(t)'
  BY <1>1, LeavesKeeps DEF Leaves, PhaseInv
<1> QED
  BY <1>1, <1>2, OnlyMovesKeeps DEF Leaves

----------------------------------------------------------------------------
(* The invariant, and what follows from it. *)

LEMMA ResultsInit ==
    ASSUME Init
    PROVE  ResultsInv
<1>1. ASSUME NEW t \in Tasks PROVE ResultsOf(t)
  <2>1. /\ phase[t] = "new" /\ scheduled[t] = Request[t].plugins
        /\ runner.task # t /\ collector.task # t
        /\ \A p \in Plugins : t \notin InOrder(inQueue[p]) /\ t \notin running[p]
                              /\ t \notin InOrder(outQueue[p])
        /\ ~ Queued(t)
    BY EmptyFacts, NoTaskAssumption DEF Init, Idle, Queued
  <2>2. ~ Held(t)
    BY <2>1 DEF Held, Handles
  <2>3. \A p \in Plugins : ~ Present(processed[t][p])
    BY DEF Init, Present, Absent
  <2> QED
    BY <2>1, <2>2, <2>3 DEF ResultsOf, PhaseInv, RunnerInv, CollectorInv, PluginInv
<1> QED
  BY <1>1 DEF ResultsInv

\* Nothing happens to any task.
LEMMA NothingResults ==
    ASSUME Typed, ResultsInv, [Next]_vars,
           UNCHANGED <<phase, scheduled, processed, planned, processQueue, inQueue, running,
                       outQueue, runner, collector>>
    PROVE  ResultsInv'
<1>1. ASSUME NEW t \in Tasks PROVE ResultsOf(t)'
  <2>1. Frame(t) /\ Uid(t) \in Objects /\ ResultsOf(t)
    BY UidFacts DEF Frame, Same, Queued, ResultsInv
  <2> QED
    BY <2>1, StepGrows, FrameKeeps
<1> QED
  BY <1>1 DEF ResultsInv

LEMMA ResultsNext ==
    ASSUME Typed, ResultsInv, [Next]_vars
    PROVE  ResultsInv'
<1>1. Typed'
  BY TypedNext
<1>2. CASE \E t \in Tasks : Enter(t) \/ RequestUpdate(t)
  BY <1>1, <1>2, EnterResults
<1>3. CASE RunnerStep
  BY <1>1, <1>3, TakeTaskResults, AbandonTaskResults, RunnerCrashResults, RunnerGivesResults,
     SkipFilteredResults, StartPluginResults DEF RunnerStep
<1>4. ASSUME NEW p \in Plugins, BeginAnalysis(p) \/ CollectorStep(p) PROVE ResultsInv'
  BY <1>1, <1>4, BeginAnalysisResults, CollectResults, CollectWithoutResultResults,
     CollectorCrashResults DEF CollectorStep
<1>5. ASSUME NEW p \in Plugins, NEW t \in Tasks, WorkerStep(p, t) PROVE ResultsInv'
  BY <1>1, <1>5, WorkerResults
<1>6. CASE StoreResult
  BY <1>1, <1>6, StoreResultResults
<1>7. CASE \E fw \in Objects : DeleteFirmware(fw)
  BY <1>7, NothingResults DEF DeleteFirmware, taskVars, pluginVars
<1>8. CASE UNCHANGED vars
  BY <1>8, NothingResults DEF vars, taskVars, pluginVars
<1>9. CASE Loss
  BY <1>9, LossResults
<1> QED
  BY <1>2, <1>3, <1>4, <1>5, <1>6, <1>7, <1>8, <1>9 DEF Next, Loss

LEMMA TypedImplies ==
    ASSUME Typed
    PROVE  TypeOK
  BY DEF Typed, HandOver, HandOverTypes, Queues, DataTypes, TypeOK

LEMMA DependenciesFollow ==
    ASSUME Typed, ResultsInv
    PROVE  DependenciesRespected
<1>1. DependenciesPresent
  <2> SUFFICES ASSUME runner.pc = "decide", runner.plugin \in Plugins, SoundList(runner.task),
                      NEW d \in Dependencies[runner.plugin]
               PROVE  Present(processed[runner.task][d]) \/ ImageOnly(runner.task, d)
    BY DEF DependenciesPresent
  <2>1. PICK t \in Tasks : t = runner.task
    BY ReaderFacts DEF Typed
  <2>2. RunnerInv(t)
    BY <2>1 DEF ResultsInv, ResultsOf
  <2>3. Fine(t, d)
    BY <2>1, <2>2 DEF RunnerInv, AllFine
  <2> QED
    BY <2>1, <2>3 DEF Fine
<1>2. ASSUME NEW p \in Plugins, NEW t \in running[p], SoundList(t), NEW d \in Dependencies[p]
      PROVE  processed[t][d].result # "failed"
  <2>1. t \in Tasks
    BY DEF Typed, HandOver, HandOverTypes
  <2>2. AllFine(t, p) /\ ~ ImageOnly(t, p)
    BY <1>2, <2>1 DEF ResultsInv, ResultsOf, PluginInv
  <2>3. Fine(t, d) /\ ~ ImageOnly(t, d)
    BY <2>1, <2>2, ImageOnlyFacts DEF AllFine
  <2> QED
    BY <2>3 DEF Fine
<1> QED
  BY <1>1, <1>2, TypedImplies DEF DependenciesRespected, NoRunOnFailedDependency

LEMMA ResultsFollow ==
    ASSUME Typed, ResultsInv
    PROVE  ResultsStoredUnlessDependencyFailed
<1> SUFFICES ASSUME NEW t \in Tasks, phase[t] = "completed", Lasting(Uid(t)), SoundList(t),
                    NEW p \in planned[t] \cap Plugins
             PROVE  \/ Uid(t) \in stored /\ Present(analyses[Uid(t)][p])
                    \/ p \in Unstorable \/ ImageOnly(t, p)
                    \/ \E d \in Dependencies[p] : processed[t][d].result = "failed"
  BY DEF ResultsStoredUnlessDependencyFailed
<1>1. StoredInv(t) /\ scheduled[t] = << >>
  BY DEF ResultsInv, ResultsOf, PhaseInv
<1>2. ~ Held(t)
  BY DEF Typed, HandOver, PhaseAgrees
<1>3. ~ InHand(t, p)
  BY <1>2, NoHolder
<1>4. p \notin InOrder(scheduled[t])
  BY <1>1, EmptyFacts
<1>5. Accounted(t, p)
  BY <1>1 DEF StoredInv
<1> QED
  BY <1>3, <1>4, <1>5 DEF Accounted, FailedIn

(***************************************************************************)
(* For any plugins, dependencies, requests, failures and interleavings:    *)
(* when the schedule process considers a plugin of a scheduled list, each  *)
(* of its dependencies has a result (unless it runs on images only), and no*)
(* worker has a plugin whose dependency raised or timed out in this run.   *)
(***************************************************************************)
THEOREM DependenciesRespectedTheorem ==
    Spec => []DependenciesRespected
<1>1. Init => Typed /\ ResultsInv
  BY HandOverInit, InitTyped, ResultsInit DEF Typed
<1>2. (Typed /\ ResultsInv) /\ [Next]_vars => (Typed /\ ResultsInv)'
  BY TypedNext, ResultsNext
<1>3. Typed /\ ResultsInv => DependenciesRespected
  BY DependenciesFollow
<1> QED
  BY <1>1, <1>2, <1>3, PTL DEF Spec

(***************************************************************************)
(* And every planned plugin of a completed task has left a result in the   *)
(* database, but for those that could not be run on the file or whose      *)
(* result could not be stored, and the dependents of one that failed.      *)
(***************************************************************************)
THEOREM ResultsStoredTheorem ==
    Spec => []ResultsStoredUnlessDependencyFailed
<1>1. Init => Typed /\ ResultsInv
  BY HandOverInit, InitTyped, ResultsInit DEF Typed
<1>2. (Typed /\ ResultsInv) /\ [Next]_vars => (Typed /\ ResultsInv)'
  BY TypedNext, ResultsNext
<1>3. Typed /\ ResultsInv => ResultsStoredUnlessDependencyFailed
  BY ResultsFollow
<1> QED
  BY <1>1, <1>2, <1>3, PTL DEF Spec
----------------------------------------------------------------------------
(***************************************************************************)
(* The scheduler implements the service: each step is, for the one task it *)
(* concerns, an action of the service, and nothing for all the others.     *)
(***************************************************************************)
TodoOf(t) == IF ServiceStatus(t) = "open" THEN InOrder(scheduled[t]) ELSE {}
BusyOf(t) == IF ServiceStatus(t) = "open" THEN Busy(t) ELSE NoPlugin

\* To the service nothing happens to the task.
SameService(t) ==
    /\ ServiceStatus(t)' = ServiceStatus(t)
    /\ TodoOf(t)' = TodoOf(t)
    /\ BusyOf(t)' = BusyOf(t)

\* The actions of the service, as they are seen by the one task they concern.
Accepted(t) ==
    /\ ServiceStatus(t) = "waiting"
    /\ TodoOf(t)' = ServiceWanted[t]
    /\ ServiceStatus(t)' = IF ServiceWanted[t] = {} THEN "closed" ELSE "open"
    /\ BusyOf(t)' = BusyOf(t)

Considered(t, p) ==
    /\ ServiceStatus(t) = "open" /\ BusyOf(t) = NoPlugin
    /\ p \in TodoOf(t)
    /\ Request[t].entry # "update" => p \in Plugins /\ Dependencies[p] \cap TodoOf(t) = {}
    /\ BusyOf(t)' = p
    /\ TodoOf(t)' = TodoOf(t) \ {p}
    /\ ServiceStatus(t)' = ServiceStatus(t)

Withdrawn(t) ==
    /\ ServiceStatus(t) = "open" /\ BusyOf(t) # NoPlugin
    /\ TodoOf(t) \subseteq Plugins
    /\ TodoOf(t)' = {p \in TodoOf(t) : BusyOf(t) \notin Dependencies[p]}
    /\ ServiceStatus(t)' = ServiceStatus(t)
    /\ BusyOf(t)' = BusyOf(t)

Finished(t) ==
    /\ ServiceStatus(t) = "open" /\ BusyOf(t) # NoPlugin
    /\ BusyOf(t)' = NoPlugin
    /\ ServiceStatus(t)' = IF TodoOf(t) = {} THEN "closed" ELSE "open"
    /\ TodoOf(t)' = TodoOf(t)

GivenUp(t) ==
    /\ ServiceStatus(t) \in {"waiting", "open"}
    /\ ServiceStatus(t)' = "lost"
    /\ TodoOf(t)' = {}
    /\ BusyOf(t)' = NoPlugin

ServiceMoves(t) ==
    \/ SameService(t)
    \/ Accepted(t)
    \/ \E p \in Names : Considered(t, p)
    \/ Withdrawn(t)
    \/ Finished(t)
    \/ GivenUp(t)

LEMMA ServiceStep ==
    ASSUME NEW t \in Tasks, ServiceMoves(t), \A c \in Tasks \ {t} : SameService(c)
    PROVE  [Service!Next]_(Service!vars)
<1> DEFINE status == [c \in Tasks |-> ServiceStatus(c)]
           todo == [c \in Tasks |-> TodoOf(c)]
           busy == [c \in Tasks |-> BusyOf(c)]
<1>1. \A x : /\ (ServiceStatus(t)' = x => status' = [status EXCEPT ![t] = x])
             /\ (TodoOf(t)' = x => todo' = [todo EXCEPT ![t] = x])
             /\ (BusyOf(t)' = x => busy' = [busy EXCEPT ![t] = x])
  BY DEF SameService
<1>2. /\ status[t] = ServiceStatus(t) /\ todo[t] = TodoOf(t) /\ busy[t] = BusyOf(t)
      /\ ServiceStatus(t)' = ServiceStatus(t) => status' = status
      /\ TodoOf(t)' = TodoOf(t) => todo' = todo
      /\ BusyOf(t)' = BusyOf(t) => busy' = busy
  BY DEF SameService
<1>3. Service!vars = <<status, todo, busy>> /\ Service!vars' = <<status', todo', busy'>>
  BY DEF Service!vars, TodoOf, BusyOf
<1>4. CASE SameService(t)
  BY <1>2, <1>3, <1>4 DEF SameService
<1>5. ASSUME Accepted(t) PROVE Service!Next
  <2>1. Service!Accept(t) <=>
            /\ status[t] = "waiting"
            /\ todo' = [todo EXCEPT ![t] = ServiceWanted[t]]
            /\ status' = [status EXCEPT ![t] = IF ServiceWanted[t] = {} THEN "closed" ELSE "open"]
            /\ busy' = busy
    BY DEF Service!Accept, TodoOf, BusyOf
  <2>2. Service!Accept(t)
    BY <1>1, <1>2, <1>5, <2>1 DEF Accepted
  <2> QED
    BY <2>2 DEF Service!Next
<1>6. ASSUME NEW p \in Names, Considered(t, p) PROVE Service!Next
  <2>1. Service!Consider(t, p) <=>
            /\ status[t] = "open" /\ busy[t] = NoPlugin
            /\ p \in todo[t]
            /\ t \in {c \in Tasks : Request[c].entry # "update"} =>
                [q \in Names |-> IF q \in Plugins THEN Dependencies[q] ELSE {}][p] \cap todo[t] = {}
            /\ busy' = [busy EXCEPT ![t] = p]
            /\ todo' = [todo EXCEPT ![t] = @ \ {p}]
            /\ status' = status
    BY DEF Service!Consider, TodoOf, BusyOf
  <2>2. todo' = [todo EXCEPT ![t] = @ \ {p}] /\ busy' = [busy EXCEPT ![t] = p] /\ status' = status
    BY <1>1, <1>2, <1>6 DEF Considered
  <2>3. Service!Consider(t, p)
    BY <1>2, <1>6, <2>1, <2>2 DEF Considered
  <2> QED
    BY <2>3 DEF Service!Next
<1>7. ASSUME Withdrawn(t) PROVE Service!Next
  <2>1. Service!Withdraw(t) <=>
            /\ status[t] = "open" /\ busy[t] # NoPlugin
            /\ todo' = [todo EXCEPT ![t] = {q \in @ : busy[t] \notin
                    [n \in Names |-> IF n \in Plugins THEN Dependencies[n] ELSE {}][q]}]
            /\ status' = status /\ busy' = busy
    BY DEF Service!Withdraw, TodoOf, BusyOf
  <2>2. {q \in TodoOf(t) : BusyOf(t) \notin Dependencies[q]}
        = {q \in todo[t] : busy[t] \notin
                [n \in Names |-> IF n \in Plugins THEN Dependencies[n] ELSE {}][q]}
    BY <1>2, <1>7, PluginsAssumption DEF Withdrawn
  <2>3. todo' = [todo EXCEPT ![t] = {q \in @ : busy[t] \notin
                    [n \in Names |-> IF n \in Plugins THEN Dependencies[n] ELSE {}][q]}]
    BY <1>1, <1>2, <1>7, <2>2 DEF Withdrawn
  <2>4. Service!Withdraw(t)
    BY <1>2, <1>7, <2>1, <2>3 DEF Withdrawn
  <2> QED
    BY <2>4 DEF Service!Next
<1>8. ASSUME Finished(t) PROVE Service!Next
  <2>1. Service!Finish(t) <=>
            /\ status[t] = "open" /\ busy[t] # NoPlugin
            /\ busy' = [busy EXCEPT ![t] = NoPlugin]
            /\ status' = [status EXCEPT ![t] = IF todo[t] = {} THEN "closed" ELSE "open"]
            /\ todo' = todo
    BY DEF Service!Finish, TodoOf, BusyOf
  <2>2. Service!Finish(t)
    BY <1>1, <1>2, <1>8, <2>1 DEF Finished
  <2> QED
    BY <2>2 DEF Service!Next
<1>9. ASSUME GivenUp(t) PROVE Service!Next
  <2>1. Service!Lose(t) <=>
            /\ status[t] \in {"waiting", "open"}
            /\ status' = [status EXCEPT ![t] = "lost"]
            /\ todo' = [todo EXCEPT ![t] = {}]
            /\ busy' = [busy EXCEPT ![t] = NoPlugin]
    BY DEF Service!Lose, TodoOf, BusyOf
  <2>2. Service!Lose(t)
    BY <1>1, <1>2, <1>9, <2>1 DEF GivenUp
  <2> QED
    BY <2>2 DEF Service!Next
<1> QED
  BY <1>4, <1>5, <1>6, <1>7, <1>8, <1>9 DEF ServiceMoves

----------------------------------------------------------------------------
(* What the places of a task mean for the service. *)

LEMMA StatusFacts ==
    ASSUME NEW t \in Tasks
    PROVE  /\ phase[t] \in {"new", "requested", "updating", "excluded"} => ServiceStatus(t) = "waiting"
           /\ phase[t] = "active" => ServiceStatus(t) = IF Held(t) THEN "open" ELSE "lost"
           /\ phase[t] = "completed" => ServiceStatus(t) = "closed"
           /\ phase[t] \in {"crashed", "abandoned", "lost"} => ServiceStatus(t) = "lost"
<1>1. Holders(t) = {} <=> ~ Held(t)
  BY DEF Holders, Held, Queued, Handles
<1> QED
  BY <1>1 DEF ServiceStatus, Lost

LEMMA StatusFactsNext ==
    ASSUME NEW t \in Tasks
    PROVE  /\ phase'[t] \in {"new", "requested", "updating", "excluded"} =>
                ServiceStatus(t)' = "waiting"
           /\ phase'[t] = "active" => ServiceStatus(t)' = IF Held(t)' THEN "open" ELSE "lost"
           /\ phase'[t] = "completed" => ServiceStatus(t)' = "closed"
           /\ phase'[t] \in {"crashed", "abandoned", "lost"} => ServiceStatus(t)' = "lost"
<1>1. Holders(t)' = {} <=> ~ Held(t)'
  BY DEF Holders, Held, Queued, Handles
<1> QED
  BY <1>1 DEF ServiceStatus, Lost

\* The plugin of which a worker or queue has the task is the one chosen.
LEMMA BusyFacts ==
    ASSUME NEW t \in Tasks
    PROVE  /\ Released(t) => Busy(t) = NoPlugin
           /\ runner.task = t => Busy(t) = runner.plugin
           /\ collector.task = t /\ runner.task # t => Busy(t) = collector.plugin
           /\ \A p \in Plugins : AtPlugin(t, p) => Busy(t) = p
<1>1. ASSUME NEW p \in Plugins, AtPlugin(t, p) PROVE Busy(t) = p
  <2>1. \A q \in Plugins : Handles(q, t) <=> q = p
    BY <1>1 DEF AtPlugin
  <2>2. (CHOOSE q \in Plugins : Handles(q, t)) = p
    BY <2>1
  <2> QED
    BY <1>1, <2>1, <2>2 DEF AtPlugin, Busy
<1> QED
  BY <1>1 DEF Released, Busy

LEMMA BusyFactsNext ==
    ASSUME NEW t \in Tasks
    PROVE  /\ Released(t)' => Busy(t)' = NoPlugin
           /\ runner'.task = t => Busy(t)' = runner'.plugin
           /\ collector'.task = t /\ runner'.task # t => Busy(t)' = collector'.plugin
           /\ \A p \in Plugins : AtPlugin(t, p)' => Busy(t)' = p
<1>1. ASSUME NEW p \in Plugins, AtPlugin(t, p)' PROVE Busy(t)' = p
  <2>1. \A q \in Plugins : Handles(q, t)' <=> q = p
    BY <1>1 DEF AtPlugin
  <2>2. (CHOOSE q \in Plugins : Handles(q, t)') = p
    BY <2>1
  <2> QED
    BY <1>1, <2>1, <2>2 DEF AtPlugin, Busy
<1> QED
  BY <1>1 DEF Released, Busy

\* The task is in no hand, in that of one process, or at one plugin.
LEMMA WhereIs ==
    ASSUME HandOver, NEW t \in Tasks
    PROVE  \/ Released(t)
           \/ runner.task = t
           \/ collector.task = t /\ runner.task # t
           \/ \E p \in Plugins : AtPlugin(t, p)
<1>1. Single(t)
  BY DEF HandOver
<1> QED
  BY <1>1 DEF Single, Released, AtPlugin

LEMMA PhaseCases ==
    ASSUME HandOver, NEW t \in Tasks
    PROVE  \/ phase[t] \in {"new", "requested", "updating", "excluded"}
           \/ phase[t] = "active"
           \/ phase[t] = "completed"
           \/ phase[t] \in {"crashed", "abandoned", "lost"}
  BY DEF HandOver, HandOverTypes, Phases

LEMMA FrameService ==
    ASSUME HandOver, NEW c \in Tasks, Frame(c)
    PROVE  SameService(c)
<1>1. \A p \in Plugins : Handles(p, c)' <=> Handles(p, c)
  BY DEF Frame, Same, Handles
<1>2. phase'[c] = phase[c] /\ (Held(c)' <=> Held(c)) /\ (Queued(c)' <=> Queued(c))
  BY <1>1 DEF Frame, Same, Held
<1>3. ServiceStatus(c)' = ServiceStatus(c)
  BY <1>2, StatusFacts, StatusFactsNext, PhaseCases
<1>4. /\ Released(c) => Released(c)'
      /\ runner.task = c => runner' = runner
      /\ collector.task = c => collector' = collector
      /\ runner.task # c => runner'.task # c
      /\ \A p \in Plugins : AtPlugin(c, p) => AtPlugin(c, p)'
  BY <1>1, <1>2 DEF Frame, Same, Released, AtPlugin
<1>5. Busy(c)' = Busy(c)
  <2>1. CASE Released(c)
    BY <1>4, <2>1, BusyFacts, BusyFactsNext
  <2>2. CASE runner.task = c
    BY <1>4, <2>2, BusyFacts, BusyFactsNext
  <2>3. CASE collector.task = c /\ runner.task # c
    BY <1>4, <2>3, BusyFacts, BusyFactsNext
  <2>4. ASSUME NEW p \in Plugins, AtPlugin(c, p) PROVE Busy(c)' = Busy(c)
    BY <1>4, <2>4, BusyFacts, BusyFactsNext
  <2> QED
    BY <2>1, <2>2, <2>3, <2>4, WhereIs
<1>6. scheduled'[c] = scheduled[c]
  BY DEF Frame
<1> QED
  BY <1>3, <1>5, <1>6 DEF SameService, TodoOf, BusyOf

----------------------------------------------------------------------------
(* What a request is to be worked through, and the order of what is left. *)

\* An update's list is not scheduled anew: it must not name a plugin twice.
UpdatesDistinct ==
    \A t \in Tasks : Request[t].entry = "update" => Distinct(Request[t].plugins)

ServiceInv ==
    /\ runner.task # NoTask => runner.plugin \in Names
    /\ \A t \in Tasks : Request[t].entry = "update" => Distinct(scheduled[t])

LEMMA WantedFacts ==
    ASSUME Acyclic, Closed(Mandatory), NEW list, AllLoaded(list),
           NEW mandatory \in BOOLEAN, NEW plan \in Plans(InOrder(list), mandatory)
    PROVE  InOrder(plan) = ClosedUnderDependencies(InOrder(list))
                                \cup (IF mandatory THEN Mandatory ELSE {})
<1> DEFINE S == InOrder(list)
           all == AddDependencies[S] \cup (IF mandatory THEN Mandatory ELSE {})
<1>1. PluginsKnown /\ Mandatory \subseteq Plugins /\ Dependencies[FileType] = {}
  BY PluginsAssumption DEF PluginsKnown
<1>2. S \in SUBSET Plugins
  BY DEF AllLoaded
<1>3. /\ S \subseteq AddDependencies[S] /\ AddDependencies[S] \subseteq Plugins
      /\ Closed(AddDependencies[S])
      /\ \A C \in SUBSET Plugins : S \subseteq C /\ Closed(C) => AddDependencies[S] \subseteq C
  BY <1>1, <1>2, AddDependenciesFacts
<1>4. Closed(all)
  BY <1>3 DEF Closed
<1>5. InOrder(plan) = all
  BY <1>1, <1>2, <1>4, PlansAreSound
<1>6. AddDependencies[S] = ClosedUnderDependencies(S)
  <2>1. ASSUME NEW p \in ClosedUnderDependencies(S) PROVE p \in AddDependencies[S]
    BY <1>3, <2>1 DEF ClosedUnderDependencies, Closed
  <2>2. ASSUME NEW p \in AddDependencies[S] PROVE p \in ClosedUnderDependencies(S)
    BY <1>2, <1>3, <2>2 DEF ClosedUnderDependencies, Closed
  <2> QED
    BY <2>1, <2>2
<1> QED
  BY <1>5, <1>6

----------------------------------------------------------------------------
(* What each step is for the service. *)

LEMMA EmptyList ==
    ASSUME NEW S, NEW list \in Seq(S)
    PROVE  list = << >> <=> InOrder(list) = {}
<1>1. ASSUME list # << >> PROVE list[1] \in InOrder(list)
  <2>1. 1 \in DOMAIN list
    BY <1>1
  <2> QED
    BY <2>1 DEF InOrder
<1> QED
  BY <1>1, EmptyFacts

LEMMA GivesBackService ==
    ASSUME Typed, Typed', NEW t \in Tasks, GivesBack(t, scheduled'[t])
    PROVE  /\ ServiceStatus(t)' = IF InOrder(scheduled'[t]) = {} THEN "closed" ELSE "open"
           /\ TodoOf(t)' = InOrder(scheduled'[t])
           /\ BusyOf(t)' = NoPlugin
<1>1. /\ scheduled'[t] = << >> => phase'[t] = "completed"
      /\ scheduled'[t] # << >> => phase'[t] = "active" /\ Held(t)'
  BY CheckFurtherMoves DEF GivesBack, Typed, Held
<1>2. scheduled'[t] = << >> <=> InOrder(scheduled'[t]) = {}
  BY EmptyList DEF Typed, DataTypes
<1>3. ServiceStatus(t)' = IF InOrder(scheduled'[t]) = {} THEN "closed" ELSE "open"
  BY <1>1, <1>2, StatusFactsNext
<1>4. Busy(t)' = NoPlugin
  BY BusyFactsNext DEF GivesBack
<1> QED
  BY <1>3, <1>4 DEF TodoOf, BusyOf

LEMMA Outside ==
    ASSUME NEW t \in Tasks, ServiceStatus(t) \in {"waiting", "closed", "lost"}
    PROVE  TodoOf(t) = {} /\ BusyOf(t) = NoPlugin
  BY DEF TodoOf, BusyOf

LEMMA HeldIsOpen ==
    ASSUME HandOver, NEW t \in Tasks, Held(t)
    PROVE  phase[t] = "active" /\ ServiceStatus(t) = "open"
           /\ TodoOf(t) = InOrder(scheduled[t]) /\ BusyOf(t) = Busy(t)
<1>1. phase[t] = "active"
  BY DEF HandOver, PhaseAgrees
<1>2. ServiceStatus(t) = "open"
  BY <1>1, StatusFacts
<1> QED
  BY <1>1, <1>2 DEF TodoOf, BusyOf

\* The same after a step.
LEMMA HeldIsOpenNext ==
    ASSUME HandOver', NEW t \in Tasks, Held(t)'
    PROVE  ServiceStatus(t)' = "open" /\ TodoOf(t)' = InOrder(scheduled'[t])
           /\ BusyOf(t)' = Busy(t)'
<1>1. phase'[t] = "active"
  BY DEF HandOver, PhaseAgrees
<1>2. ServiceStatus(t)' = "open"
  BY <1>1, StatusFactsNext
<1> QED
  BY <1>2 DEF TodoOf, BusyOf

LEMMA HeldStays ==
    ASSUME HandOver, HandOver', NEW t \in Tasks, Held(t), Held(t)',
           scheduled'[t] = scheduled[t], Busy(t)' = Busy(t)
    PROVE  SameService(t)
  BY HeldIsOpen, HeldIsOpenNext DEF SameService

\* One task is concerned.
OneServed == \E t \in Tasks : OnlyMoves(t) /\ ServiceMoves(t)

LEMMA OneServedStep ==
    ASSUME HandOver, OneServed
    PROVE  [Service!Next]_(Service!vars)
<1>1. PICK t \in Tasks : OnlyMoves(t) /\ ServiceMoves(t)
  BY DEF OneServed
<1>2. \A c \in Tasks \ {t} : SameService(c)
  BY <1>1, FrameService DEF OnlyMoves
<1> QED
  BY <1>1, <1>2, ServiceStep

LEMMA FinishedService ==
    ASSUME Typed, Typed', ServiceInv, NEW t \in Tasks,
           GivesBack(t, scheduled[t]), Held(t), Busy(t) \in Names
    PROVE  OneServed
<1>1. scheduled'[t] = scheduled[t] /\ OnlyMoves(t)
  BY DEF GivesBack
<1>2. GivesBack(t, scheduled'[t])
  BY <1>1
<1>3. /\ ServiceStatus(t)' = IF InOrder(scheduled'[t]) = {} THEN "closed" ELSE "open"
      /\ TodoOf(t)' = InOrder(scheduled'[t])
      /\ BusyOf(t)' = NoPlugin
  BY <1>2, GivesBackService
<1>4. /\ ServiceStatus(t) = "open" /\ TodoOf(t) = InOrder(scheduled[t])
      /\ BusyOf(t) = Busy(t)
  BY HeldIsOpen DEF Typed
<1>5. Finished(t)
  BY <1>1, <1>3, <1>4, NoPluginAssumption DEF Finished
<1> QED
  BY <1>1, <1>5 DEF OneServed, ServiceMoves

LEMMA GivenUpService ==
    ASSUME Typed, Typed', NEW t \in Tasks, Leaves(t),
           phase'[t] \in {"active", "abandoned", "crashed", "lost"},
           ServiceStatus(t) \in {"waiting", "open"}
    PROVE  OneServed
<1>1. ServiceStatus(t)' = "lost" /\ OnlyMoves(t)
  BY StatusFactsNext DEF Leaves
<1>2. GivenUp(t)
  BY <1>1 DEF GivenUp, TodoOf, BusyOf
<1> QED
  BY <1>1, <1>2 DEF OneServed, ServiceMoves

\* The plugins of the list that is planned at an entry point.
LEMMA EntryWanted ==
    ASSUME Acyclic, Closed(Mandatory), Typed, ResultsInv, NEW t \in Tasks,
           \/ StartAnalysisOfObject(t) \/ UpdateAnalysisOfSingleObject(t)
           \/ UpdateAnalysisOfChild(t) \/ UpdateAnalysisOfRoot(t)
    PROVE  /\ phase[t] \in {"new", "requested", "updating"}
           /\ InOrder(scheduled'[t]) = ServiceWanted[t]
<1>1. /\ scheduled \in [Tasks -> Seq(Names)]
      /\ \A c \in Tasks : phase[c] \in {"new", "requested", "updating"} =>
            scheduled[c] = Request[c].plugins
      /\ phase[t] = "updating" => Request[t].entry = "update"
  BY DEF Typed, DataTypes, ResultsInv, ResultsOf, PhaseInv
<1>2. ASSUME NEW plan, Plan(t, plan) PROVE scheduled'[t] = plan
  BY <1>1, <1>2 DEF Plan
<1>3. ServiceWanted[t] =
        IF Request[t].entry = "update" THEN InOrder(Request[t].plugins)
        ELSE IF IsChild(t) THEN ClosedUnderDependencies(UNION
                {InOrder(Request[root].plugins) : root \in Request[t].after})
        ELSE ClosedUnderDependencies(InOrder(Request[t].plugins))
                \cup (IF Request[t].entry = "start" THEN Mandatory ELSE {})
  BY DEF ServiceWanted
<1>4. CASE StartAnalysisOfObject(t)
  <2>1. PICK plan \in Plans(InOrder(Request[t].plugins), TRUE) : Plan(t, plan)
    BY <1>4 DEF StartAnalysisOfObject
  <2>2. InOrder(plan) = ClosedUnderDependencies(InOrder(Request[t].plugins)) \cup Mandatory
    BY <1>4, <2>1, WantedFacts DEF StartAnalysisOfObject
  <2> QED
    BY <1>2, <1>3, <1>4, <2>1, <2>2 DEF StartAnalysisOfObject, IsChild
<1>5. CASE UpdateAnalysisOfSingleObject(t)
  <2>1. phase[t] = "requested" /\ Request[t].entry = "single" /\ AllLoaded(Request[t].plugins)
    BY <1>1, <1>5 DEF UpdateAnalysisOfSingleObject
  <2>2. PICK plan \in Plans(InOrder(Request[t].plugins), FALSE) : Plan(t, plan)
    BY <1>1, <1>5, <2>1 DEF UpdateAnalysisOfSingleObject
  <2>3. InOrder(plan) = ClosedUnderDependencies(InOrder(Request[t].plugins))
    BY <2>1, <2>2, WantedFacts
  <2> QED
    BY <1>2, <1>3, <2>1, <2>2, <2>3 DEF IsChild
<1>6. CASE UpdateAnalysisOfChild(t)
  <2>1. PICK root \in Tasks : Request[t].after = {root}
    BY <1>6, RequestAssumption DEF UpdateAnalysisOfChild
  <2>2. /\ phase[t] = "new" /\ Request[t].entry = "child" /\ phase[root] = "updating"
        /\ AllLoaded(scheduled[root])
        /\ \E plan \in Plans(InOrder(scheduled[root]), FALSE) : Plan(t, plan)
    BY <1>6, <2>1 DEF UpdateAnalysisOfChild
  <2>3. scheduled[root] = Request[root].plugins
    BY <1>1, <2>2
  <2>4. PICK plan \in Plans(InOrder(Request[root].plugins), FALSE) : Plan(t, plan)
    BY <2>2, <2>3
  <2>5. InOrder(plan) = ClosedUnderDependencies(InOrder(Request[root].plugins))
    BY <2>2, <2>3, <2>4, WantedFacts
  <2>6. UNION {InOrder(Request[r].plugins) : r \in Request[t].after}
        = InOrder(Request[root].plugins)
    BY <2>1
  <2> QED
    BY <1>2, <1>3, <2>2, <2>4, <2>5, <2>6 DEF IsChild
<1>7. CASE UpdateAnalysisOfRoot(t)
  BY <1>1, <1>3, <1>7 DEF UpdateAnalysisOfRoot, taskVars
<1> QED
  BY <1>4, <1>5, <1>6, <1>7

LEMMA EnterService ==
    ASSUME Acyclic, Closed(Mandatory), Typed, Typed', ResultsInv, NEW t \in Tasks,
           Enter(t) \/ RequestUpdate(t)
    PROVE  [Service!Next]_(Service!vars)
<1>1. CASE \/ StartAnalysisOfObject(t) \/ UpdateAnalysisOfSingleObject(t)
           \/ UpdateAnalysisOfChild(t) \/ UpdateAnalysisOfRoot(t)
  <2>1. phase[t] \in {"new", "requested", "updating"} /\ InOrder(scheduled'[t]) = ServiceWanted[t]
    BY <1>1, EntryWanted
  <2>2. GivesBack(t, scheduled'[t]) /\ OnlyMoves(t)
    BY <1>1, EntryMoves DEF GivesBack
  <2>3. ServiceStatus(t) = "waiting" /\ BusyOf(t) = NoPlugin
    BY <2>1, StatusFacts, Outside
  <2>4. Accepted(t)
    BY <2>1, <2>2, <2>3, GivesBackService DEF Accepted
  <2> QED
    BY <2>2, <2>4, OneServedStep DEF OneServed, ServiceMoves, Typed
<1>2. CASE EntryCrash(t)
  <2>1. /\ phase[t] \in {"new", "requested", "updating"} /\ phase'[t] = "crashed"
    BY <1>2 DEF EntryCrash, Typed, HandOver, HandOverTypes
  <2> QED
    BY <1>2, <2>1, OutsideMoves, StatusFacts, GivenUpService, OneServedStep DEF Typed
<1>3. CASE RequestUpdate(t)
  <2>1. phase[t] = "new" /\ phase'[t] = "requested"
    BY <1>3 DEF RequestUpdate, Typed, HandOver, HandOverTypes
  <2>2. ServiceStatus(t) = "waiting" /\ ServiceStatus(t)' = "waiting"
    BY <2>1, StatusFacts, StatusFactsNext
  <2>3. SameService(t)
    BY <2>2 DEF SameService, TodoOf, BusyOf
  <2> QED
    BY <1>3, <2>3, OutsideMoves, OneServedStep DEF Leaves, OneServed, ServiceMoves, Typed
<1>4. CASE BeginUpdate(t)
  <2>1. ASSUME NEW c \in Tasks PROVE SameService(c)
    <3>1. CASE phase'[c] # phase[c]
      <4>1. phase[c] \in {"new", "requested"} /\ phase'[c] \in {"updating", "excluded"}
        BY <1>4, <3>1 DEF BeginUpdate
      <4>2. ServiceStatus(c) = "waiting" /\ ServiceStatus(c)' = "waiting"
        BY <4>1, StatusFacts, StatusFactsNext
      <4> QED
        BY <4>2 DEF SameService, TodoOf, BusyOf
    <3>2. CASE phase'[c] = phase[c]
      <4>1. Frame(c)
        BY <1>4, <3>2 DEF BeginUpdate, taskVars, pluginVars, Frame, Same, Queued
      <4> QED
        BY <4>1, FrameService DEF Typed
    <3> QED
      BY <3>1, <3>2
  <2> QED
    BY <2>1, ServiceStep DEF ServiceMoves
<1> QED
  BY <1>1, <1>2, <1>3, <1>4 DEF Enter

\* What is left of the list of a task that is held is in order.
LEMMA ListFacts ==
    ASSUME Typed, ResultsInv, ServiceInv, NEW t \in Tasks, Held(t)
    PROVE  /\ Distinct(scheduled[t])
           /\ Request[t].entry # "update" =>
                DependencyPreserving(scheduled[t]) /\ InOrder(scheduled[t]) \subseteq Plugins
<1>1. CASE Request[t].entry = "update"
  BY <1>1 DEF ServiceInv
<1>2. CASE Request[t].entry # "update"
  <2>1. SoundList(t)
    BY <1>2 DEF SoundList
  <2>2. ListInv(t)
    BY <2>1 DEF ResultsInv, ResultsOf
  <2> QED
    BY <2>2 DEF ListInv
<1> QED
  BY <1>1, <1>2

LEMMA TakeTaskService ==
    ASSUME Typed, Typed', ResultsInv, ServiceInv, TakeTask
    PROVE  OneServed
<1>1. PICK t \in Tasks : t = Head(processQueue)
  BY ReaderFacts DEF TakeTask, Typed
<1>2. /\ OnlyMoves(t) /\ Queued(t) /\ Released(t) /\ Held(t)
      /\ runner'.task = t /\ Held(t)'
  BY <1>1, TakeTaskMoves DEF Held
<1>3. PICK p \in Names :
        /\ runner' = At("decide", t, p) /\ p \in InOrder(scheduled[t])
        /\ InOrder(scheduled[t]) = InOrder(scheduled'[t]) \cup {p}
        /\ Distinct(scheduled[t]) => Distinct(scheduled'[t]) /\ p \notin InOrder(scheduled'[t])
        /\ DependencyPreserving(scheduled[t]) => Dependencies[p] \cap InOrder(scheduled[t]) = {}
  BY <1>1, TakeTaskPops
<1>4. /\ ServiceStatus(t) = "open" /\ TodoOf(t) = InOrder(scheduled[t]) /\ BusyOf(t) = Busy(t)
      /\ ServiceStatus(t)' = "open" /\ TodoOf(t)' = InOrder(scheduled'[t])
      /\ BusyOf(t)' = Busy(t)'
  BY <1>2, HeldIsOpen, HeldIsOpenNext DEF Typed
<1>5. Busy(t) = NoPlugin /\ Busy(t)' = p
  BY <1>2, <1>3, BusyFacts, BusyFactsNext DEF At
<1>6. InOrder(scheduled'[t]) = InOrder(scheduled[t]) \ {p}
  BY <1>2, <1>3, ListFacts
<1>7. Request[t].entry # "update" =>
        p \in Plugins /\ Dependencies[p] \cap InOrder(scheduled[t]) = {}
  BY <1>2, <1>3, ListFacts
<1>8. Considered(t, p)
  BY <1>3, <1>4, <1>5, <1>6, <1>7 DEF Considered
<1> QED
  BY <1>2, <1>8 DEF OneServed, ServiceMoves

LEMMA RunnerService ==
    ASSUME Typed, Typed', ResultsInv, ServiceInv, RunnerStep
    PROVE  OneServed
<1>1. CASE TakeTask
  BY <1>1, TakeTaskService
<1>2. CASE AbandonTask
  <2>1. PICK t \in Tasks : t = Head(processQueue) /\ Queued(t)
    BY <1>2, ReaderFacts DEF AbandonTask, Typed
  <2>2. Leaves(t) /\ phase'[t] = "abandoned" /\ Held(t)
    BY <1>2, <2>1, AbandonTaskMoves DEF AbandonTask, Typed, HandOver, HandOverTypes, Held
  <2> QED
    BY <2>2, HeldIsOpen, GivenUpService DEF Typed
<1>3. CASE SkipUnknownPlugin \/ SkipUpToDate \/ StoreSkipped
  <2>1. PICK t \in Tasks : t = runner.task
    BY <1>3, ReaderFacts DEF SkipUnknownPlugin, SkipUpToDate, StoreSkipped, Typed
  <2>2. GivesBack(t, scheduled[t]) /\ Held(t)
    BY <1>3, <2>1, RunnerGives DEF Held
  <2>3. Busy(t) \in Names
    BY <2>1, BusyFacts, NoTaskAssumption DEF ServiceInv
  <2> QED
    BY <2>2, <2>3, FinishedService
<1>4. CASE SkipFiltered
  <2>1. PICK t \in Tasks, p \in Plugins : t = runner.task /\ p = runner.plugin
    BY <1>4, ReaderFacts DEF SkipFiltered, Typed
  <2>2. /\ OnlyMoves(t) /\ runner' = At("store", t, p) /\ scheduled' = scheduled
    BY <1>4, <2>1, SkipFilteredMoves
  <2>3. /\ Held(t) /\ runner'.task = t /\ runner'.plugin = p /\ Held(t)'
    BY <2>1, <2>2 DEF At, Held
  <2>4. Busy(t)' = Busy(t)
    BY <2>1, <2>3, BusyFacts, BusyFactsNext
  <2>5. SameService(t)
    BY <2>2, <2>3, <2>4, HeldStays DEF Typed
  <2> QED
    BY <2>2, <2>5 DEF OneServed, ServiceMoves
<1>5. CASE StartPlugin
  <2>1. PICK t \in Tasks, p \in Plugins : t = runner.task /\ p = runner.plugin
    BY <1>5, ReaderFacts DEF StartPlugin, Typed
  <2>2. /\ OnlyMoves(t) /\ AtPlugin(t, p)' /\ scheduled' = scheduled
    BY <1>5, <2>1, StartPluginMoves DEF StartPlugin, AtPlugin
  <2>3. Held(t) /\ Held(t)'
    BY <2>1, <2>2 DEF Held, AtPlugin
  <2>4. Busy(t)' = Busy(t)
    BY <2>1, <2>2, BusyFacts, BusyFactsNext
  <2>5. SameService(t)
    BY <2>2, <2>3, <2>4, HeldStays DEF Typed
  <2> QED
    BY <2>2, <2>5 DEF OneServed, ServiceMoves
<1>6. CASE RunnerCrash
  <2>1. PICK t \in Tasks : t = runner.task
    BY <1>6, ReaderFacts DEF RunnerCrash, Typed
  <2>2. Leaves(t) /\ Held(t) /\ phase' = phase
    BY <1>6, <2>1, RunnerCrashMoves DEF RunnerCrash, Held
  <2> QED
    BY <2>2, HeldIsOpen, GivenUpService DEF Typed
<1> QED
  BY <1>1, <1>2, <1>3, <1>4, <1>5, <1>6 DEF RunnerStep

LEMMA PluginService ==
    ASSUME Typed, Typed', NEW p \in Plugins, NEW t \in Tasks, OnlyMoves(t),
           AtPlugin(t, p), AtPlugin(t, p)', scheduled' = scheduled
    PROVE  OneServed
<1>1. Held(t) /\ Held(t)'
  BY DEF Held, AtPlugin
<1>2. Busy(t)' = Busy(t)
  BY BusyFacts, BusyFactsNext
<1>3. SameService(t)
  BY <1>1, <1>2, HeldStays DEF Typed
<1> QED
  BY <1>3 DEF OneServed, ServiceMoves

LEMMA WorkerService ==
    ASSUME Typed, Typed', NEW p \in Plugins,
           BeginAnalysis(p) \/ \E t \in Tasks : WorkerStep(p, t)
    PROVE  OneServed
<1>1. CASE BeginAnalysis(p)
  <2>1. PICK t \in Tasks : t = Head(inQueue[p])
    BY <1>1, ReaderFacts DEF BeginAnalysis, Typed
  <2> QED
    BY <1>1, <2>1, BeginAnalysisMoves, PluginService DEF BeginAnalysis
<1>2. CASE \E t \in Tasks : WorkerStep(p, t)
  BY <1>2, WorkerMoves, PluginService
<1> QED
  BY <1>1, <1>2

LEMMA CollectService ==
    ASSUME Typed, Typed', NEW p \in Plugins, Collect(p)
    PROVE  OneServed
<1>1. PICK t \in Tasks : t = Head(outQueue[p])
  BY ReaderFacts DEF Collect, Typed
<1>2. /\ OnlyMoves(t) /\ AtPlugin(t, p) /\ collector' = At("store", t, p)
      /\ runner'.task # t
  BY <1>1, CollectMoves
<1>3. /\ Held(t) /\ collector'.task = t /\ collector'.plugin = p /\ Held(t)'
  BY <1>2 DEF At, Held, AtPlugin
<1>4. Busy(t) = p /\ Busy(t)' = p
  BY <1>2, <1>3, BusyFacts, BusyFactsNext
<1>5. CASE exception[t] = NoPlugin
  <2>1. scheduled' = scheduled
    BY <1>1, <1>5 DEF Collect, taskVars
  <2>2. SameService(t)
    BY <1>3, <1>4, <2>1, HeldStays DEF Typed
  <2> QED
    BY <1>2, <2>2 DEF OneServed, ServiceMoves
<1>6. CASE exception[t] # NoPlugin
  <2>1. /\ AllLoaded(scheduled[t])
        /\ scheduled'[t] = Without(scheduled[t], Dependents(p, scheduled[t]))
    BY <1>1, <1>6 DEF Collect, Typed, DataTypes
  <2>2. InOrder(scheduled'[t]) = InOrder(scheduled[t]) \ Dependents(p, scheduled[t])
    <3>1. scheduled[t] \in Seq(Names)
      BY DEF Typed, DataTypes
    <3> QED
      BY <2>1, <3>1, WithoutFacts
  <2>3. /\ ServiceStatus(t) = "open" /\ TodoOf(t) = InOrder(scheduled[t]) /\ BusyOf(t) = p
        /\ ServiceStatus(t)' = "open" /\ TodoOf(t)' = InOrder(scheduled'[t]) /\ BusyOf(t)' = p
    BY <1>3, <1>4, HeldIsOpen, HeldIsOpenNext DEF Typed
  <2>4. p # NoPlugin
    BY NoPluginAssumption, PluginsAssumption
  <2>5. Withdrawn(t)
    BY <2>1, <2>2, <2>3, <2>4 DEF Withdrawn, Dependents, AllLoaded
  <2> QED
    BY <1>2, <2>5 DEF OneServed, ServiceMoves
<1> QED
  BY <1>5, <1>6

LEMMA CollectorService ==
    ASSUME Typed, Typed', ResultsInv, ServiceInv,
           StoreResult \/ Loss \/ \E p \in Plugins : CollectorStep(p)
    PROVE  OneServed
<1>1. CASE StoreResult
  <2>1. PICK t \in Tasks : t = collector.task
    BY <1>1, ReaderFacts DEF StoreResult, Typed
  <2>2. GivesBack(t, scheduled[t]) /\ Held(t) /\ runner.task # t
    BY <1>1, <2>1, StoreResultMoves DEF Held, Typed, HandOver, Single
  <2>3. Busy(t) \in Names
    BY <1>1, <2>1, <2>2, BusyFacts, PluginsAssumption DEF StoreResult, Typed, ResultInHand
  <2> QED
    BY <2>2, <2>3, FinishedService
<1>2. ASSUME NEW p \in Plugins, CollectWithoutResult(p) PROVE OneServed
  <2>1. PICK t \in Tasks : t = Head(outQueue[p])
    BY <1>2, ReaderFacts DEF CollectWithoutResult, Typed
  <2>2. GivesBack(t, scheduled[t]) /\ t \in InOrder(outQueue[p])
    BY <1>2, <2>1, CollectWithoutResultMoves
  <2>3. AtPlugin(t, p) /\ Held(t)
    BY <2>2 DEF Typed, HandOver, Single, AtPlugin, Handles, Held
  <2>4. Busy(t) \in Names
    BY <2>3, BusyFacts, PluginsAssumption
  <2> QED
    BY <2>2, <2>3, <2>4, FinishedService
<1>3. ASSUME NEW p \in Plugins, CollectorCrash(p) PROVE OneServed
  <2>1. PICK t \in Tasks : t = Head(outQueue[p]) /\ t \in InOrder(outQueue[p])
    BY <1>3, ReaderFacts DEF CollectorCrash, Typed
  <2>2. Leaves(t) /\ Held(t) /\ phase' = phase
    BY <1>3, <2>1, CollectorCrashMoves DEF CollectorCrash, Held, Handles
  <2> QED
    BY <2>2, HeldIsOpen, GivenUpService DEF Typed
<1>4. CASE Loss
  <2>1. PICK t \in Tasks : Leaves(t) /\ Held(t) /\ phase'[t] \in {"active", "lost"}
    BY <1>4, SomeTaskLost, LossMoves DEF Typed
  <2> QED
    BY <2>1, HeldIsOpen, GivenUpService DEF Typed
<1> QED
  BY <1>1, <1>2, <1>3, <1>4, CollectService DEF CollectorStep

\* The lists of updates only get shorter, and the schedule process knows its plugin.
LEMMA ServiceInvNext ==
    ASSUME Typed, ServiceInv, [Next]_vars
    PROVE  ServiceInv'
<1>1. \A t \in Tasks : Request[t].entry = "update" => Distinct(scheduled[t])
  BY DEF ServiceInv
<1>2. scheduled \in [Tasks -> Seq(Names)]
  BY DEF Typed, DataTypes
<1>3. ASSUME runner' \in {runner, Idle, Dead},
             \A t \in Tasks : scheduled'[t] = scheduled[t] \/ Request[t].entry # "update"
      PROVE  ServiceInv'
  BY <1>1, <1>3 DEF ServiceInv, Idle, Dead
<1>4. CASE UNCHANGED vars
  BY <1>3, <1>4 DEF vars, taskVars
<1>5. ASSUME NEW t \in Tasks, Enter(t) \/ RequestUpdate(t) PROVE ServiceInv'
  <2>1. ASSUME NEW plan, Plan(t, plan) PROVE \A c \in Tasks \ {t} : scheduled'[c] = scheduled[c]
    BY <1>2, <2>1 DEF Plan
  <2>2. runner' = runner
    BY <1>5 DEF Enter, StartAnalysisOfObject, UpdateAnalysisOfSingleObject, BeginUpdate,
        UpdateAnalysisOfChild, UpdateAnalysisOfRoot, EntryCrash, RequestUpdate
  <2>3. \A c \in Tasks : scheduled'[c] = scheduled[c] \/ Request[c].entry # "update"
    <3>1. CASE StartAnalysisOfObject(t)
      BY <2>1, <3>1 DEF StartAnalysisOfObject
    <3>2. CASE UpdateAnalysisOfSingleObject(t)
      BY <2>1, <3>2 DEF UpdateAnalysisOfSingleObject
    <3>3. CASE UpdateAnalysisOfChild(t)
      BY <2>1, <3>3 DEF UpdateAnalysisOfChild
    <3>4. CASE BeginUpdate(t) \/ UpdateAnalysisOfRoot(t) \/ EntryCrash(t) \/ RequestUpdate(t)
      BY <3>4 DEF BeginUpdate, UpdateAnalysisOfRoot, EntryCrash, RequestUpdate, taskVars
    <3> QED
      BY <1>5, <3>1, <3>2, <3>3, <3>4 DEF Enter
  <2> QED
    BY <1>3, <2>2, <2>3
<1>6. CASE RunnerStep
  <2>1. CASE TakeTask
    <3>1. PICK t \in Tasks : t = Head(processQueue)
      BY <2>1, ReaderFacts DEF TakeTask, Typed
    <3>2. \A c \in Tasks \ {t} : scheduled'[c] = scheduled[c]
      BY <2>1, <3>1, TakeTaskMoves DEF OnlyMoves, Frame
    <3>3. PICK p \in Names :
            /\ runner' = At("decide", t, p)
            /\ Distinct(scheduled[t]) => Distinct(scheduled'[t])
      BY <2>1, <3>1, TakeTaskPops
    <3>4. ASSUME NEW c \in Tasks, Request[c].entry = "update" PROVE Distinct(scheduled'[c])
      <4>1. CASE c = t
        BY <1>1, <3>3, <3>4, <4>1
      <4>2. CASE c # t
        BY <1>1, <3>2, <3>4, <4>2
      <4> QED
        BY <4>1, <4>2
    <3> QED
      BY <3>3, <3>4 DEF ServiceInv, At
  <2>2. CASE SkipFiltered
    <3>1. runner' = At("store", runner.task, runner.plugin) /\ scheduled' = scheduled
          /\ runner.plugin \in Names
      BY <2>2, PluginsAssumption DEF SkipFiltered
    <3> QED
      BY <1>1, <3>1 DEF ServiceInv, At
  <2>3. CASE RunnerCrash \/ AbandonTask
    BY <1>3, <2>3 DEF RunnerCrash, AbandonTask, taskVars
  <2>4. CASE SkipUnknownPlugin \/ SkipUpToDate \/ StoreSkipped \/ StartPlugin
    BY <1>3, <2>4 DEF SkipUnknownPlugin, SkipUpToDate, StoreSkipped, StartPlugin, taskVars
  <2> QED
    BY <1>6, <2>1, <2>2, <2>3, <2>4 DEF RunnerStep
<1>7. ASSUME NEW p \in Plugins, Collect(p) PROVE ServiceInv'
  <2>1. PICK t \in Tasks : t = Head(outQueue[p])
    BY <1>7, ReaderFacts DEF Collect, Typed
  <2>2. /\ runner' = runner
        /\ \A c \in Tasks \ {t} : scheduled'[c] = scheduled[c]
    BY <1>7, <2>1, CollectMoves DEF Collect, OnlyMoves, Frame
  <2>3. \/ scheduled'[t] = scheduled[t]
        \/ \E F : scheduled'[t] = Without(scheduled[t], F)
    BY <1>7, <2>1, CollectData
  <2>4. Distinct(scheduled[t]) => Distinct(scheduled'[t])
    BY <1>2, <2>3, WithoutFacts
  <2>5. ASSUME NEW c \in Tasks, Request[c].entry = "update" PROVE Distinct(scheduled'[c])
    <3>1. CASE c = t
      BY <1>1, <2>4, <2>5, <3>1
    <3>2. CASE c # t
      BY <1>1, <2>2, <2>5, <3>2
    <3> QED
      BY <3>1, <3>2
  <2> QED
    BY <2>2, <2>5 DEF ServiceInv
<1>8. ASSUME NEW p \in Plugins, BeginAnalysis(p) \/ CollectorStep(p) PROVE ServiceInv'
  <2>1. CASE BeginAnalysis(p)
    BY <1>3, <2>1 DEF BeginAnalysis
  <2>2. CASE CollectWithoutResult(p) \/ CollectorCrash(p)
    BY <1>3, <2>2 DEF CollectWithoutResult, CollectorCrash, taskVars
  <2> QED
    BY <1>7, <1>8, <2>1, <2>2 DEF CollectorStep
<1>9. ASSUME NEW p \in Plugins, NEW t \in Tasks, WorkerStep(p, t) PROVE ServiceInv'
  BY <1>3, <1>9 DEF WorkerStep, Analyze, FinishAnalysis, FailAnalysis, taskVars
<1>10. CASE StoreResult \/ \E fw \in Objects : DeleteFirmware(fw)
  BY <1>3, <1>10 DEF StoreResult, DeleteFirmware, taskVars
<1>11. CASE Loss
  <2>1. scheduled' = scheduled
    BY <1>11, SomeTaskLost, LossMoves DEF Typed, taskVars
  <2>2. runner' = runner
    BY <1>11 DEF Loss, KillAnalysis, StoreResultRaises
  <2> QED
    BY <1>3, <2>1, <2>2
<1> QED
  BY <1>4, <1>5, <1>6, <1>8, <1>9, <1>10, <1>11 DEF Next, Loss

LEMMA ServiceInit ==
    ASSUME UpdatesDistinct, Init
    PROVE  ServiceInv /\ Service!Init
<1>1. ServiceInv
  BY DEF Init, Idle, ServiceInv, UpdatesDistinct
<1>2. ASSUME NEW t \in Tasks
      PROVE  ServiceStatus(t) = "waiting" /\ TodoOf(t) = {} /\ BusyOf(t) = NoPlugin
  BY StatusFacts, Outside DEF Init
<1>3. Service!Init <=>
        /\ [t \in Tasks |-> ServiceStatus(t)] = [t \in Tasks |-> "waiting"]
        /\ [t \in Tasks |-> TodoOf(t)] = [t \in Tasks |-> {}]
        /\ [t \in Tasks |-> BusyOf(t)] = [t \in Tasks |-> NoPlugin]
  BY DEF Service!Init, TodoOf, BusyOf
<1> QED
  BY <1>1, <1>2, <1>3

LEMMA ServiceNext ==
    ASSUME Acyclic, Closed(Mandatory), Typed, Typed', ResultsInv, ServiceInv, [Next]_vars
    PROVE  [Service!Next]_(Service!vars)
<1>1. CASE \E t \in Tasks : Enter(t) \/ RequestUpdate(t)
  BY <1>1, EnterService
<1>2. CASE RunnerStep
  BY <1>2, RunnerService, OneServedStep DEF Typed
<1>3. CASE \E p \in Plugins : BeginAnalysis(p) \/ CollectorStep(p)
  BY <1>3, WorkerService, CollectorService, OneServedStep DEF Typed
<1>4. CASE \E p \in Plugins, t \in Tasks : WorkerStep(p, t)
  BY <1>4, WorkerService, OneServedStep DEF Typed
<1>5. CASE StoreResult \/ Loss
  BY <1>5, CollectorService, OneServedStep DEF Typed
<1>6. CASE UNCHANGED vars \/ \E fw \in Objects : DeleteFirmware(fw)
  <2>1. UNCHANGED <<phase, scheduled, processed, planned, processQueue, inQueue, running,
                    outQueue, runner, collector>>
    BY <1>6 DEF vars, DeleteFirmware, taskVars, pluginVars
  <2>2. ASSUME NEW t \in Tasks PROVE SameService(t)
    <3>1. Frame(t)
      BY <2>1 DEF Frame, Same, Queued
    <3> QED
      BY <3>1, FrameService DEF Typed
  <2>3. [c \in Tasks |-> ServiceStatus(c)]' = [c \in Tasks |-> ServiceStatus(c)]
        /\ [c \in Tasks |-> TodoOf(c)]' = [c \in Tasks |-> TodoOf(c)]
        /\ [c \in Tasks |-> BusyOf(c)]' = [c \in Tasks |-> BusyOf(c)]
    BY <2>2 DEF SameService
  <2> QED
    BY <2>3 DEF Service!vars, TodoOf, BusyOf
<1> QED
  BY <1>1, <1>2, <1>3, <1>4, <1>5, <1>6 DEF Next, Loss

(***************************************************************************)
(* Whatever the interleaving of the schedule process, the plugins' workers *)
(* and the collector, a task is worked through as the service says: the    *)
(* plugins asked for, all they depend on and the mandatory ones, one at a  *)
(* time, none before a plugin it depends on, none left out but dependents  *)
(* of a failed one, and then it is closed for good.  A cycle of dependences*)
(* would be dropped from the plan; a plugin named twice in the list of an  *)
(* update would run twice.                                                 *)
(***************************************************************************)
THEOREM ImplementsServiceTheorem ==
    ASSUME Acyclic, Closed(Mandatory), UpdatesDistinct
    PROVE  Spec => ImplementsService
<1>1. Init => Typed /\ ResultsInv /\ ServiceInv /\ Service!Init
  BY HandOverInit, InitTyped, ResultsInit, ServiceInit DEF Typed
<1>2. (Typed /\ ResultsInv /\ ServiceInv) /\ [Next]_vars
        => (Typed /\ ResultsInv /\ ServiceInv)'
  BY TypedNext, ResultsNext, ServiceInvNext
<1>3. (Typed /\ ResultsInv /\ ServiceInv) /\ (Typed /\ ResultsInv /\ ServiceInv)' /\ [Next]_vars
        => [Service!Next]_(Service!vars)
  BY ServiceNext
<1> QED
  BY <1>1, <1>2, <1>3, PTL DEF Spec, ImplementsService, Service!Spec
----------------------------------------------------------------------------
(***************************************************************************)
(* What a task has settled is up to date.  The dates of the results of an  *)
(* object only grow, and as long as no other task for the object is on its *)
(* way, a result is newer than all that were there before.                 *)
(***************************************************************************)

\* A result of plugin p for the object u, at a time.
Sensible(u, p, e, now) ==
    /\ e.date <= now
    /\ e.result = "ok" => p \in Recursive \/ Roots[u] = {}
    /\ e.result = "ok" /\ p \in Unstorable => Version[p] <= e.version

EntriesInv ==
    /\ \A u \in Objects : \A p \in Plugins : Sensible(u, p, analyses[u][p], clock[u])
    /\ \A t \in Tasks : \A p \in Plugins : Sensible(Uid(t), p, processed[t][p], clock[Uid(t)])

\* A plugin that runs may run on the file.
RunInv ==
    \A t \in Tasks : \A p \in Plugins :
        t \in InOrder(inQueue[p]) \/ t \in running[p] => ~ ImageOnly(t, p)

LEMMA SensibleLater ==
    ASSUME NEW u, NEW p, NEW e \in Entry, NEW now \in Nat, NEW later \in Nat, now <= later,
           Sensible(u, p, e, now)
    PROVE  Sensible(u, p, e, later)
<1>1. e.date \in Nat
  BY DEF Entry
<1>2. e.date <= later
  BY <1>1 DEF Sensible
<1> QED
  BY <1>2 DEF Sensible

LEMMA SensibleResults ==
    ASSUME Typed, NEW u \in Objects, NEW p \in Plugins
    PROVE  /\ \A now \in Nat : Sensible(u, p, Absent, now) /\ Sensible(u, p, Empty, now)
           /\ \A kind \in {"skipped", "failed", "unscheduled"} :
                Sensible(u, p, OtherResult(kind, u, p), clock[u] + 1)
           /\ p \in Recursive \/ Roots[u] = {} => Sensible(u, p, OkResult(u, p), clock[u] + 1)
<1>1. clock[u] + 1 \in Nat /\ Version[p] \in Nat
  BY VersionAssumption DEF Typed, DataTypes
<1>2. \A now \in Nat : Sensible(u, p, Absent, now) /\ Sensible(u, p, Empty, now)
  BY DEF Sensible, Absent, Empty
<1>3. \A kind \in {"skipped", "failed", "unscheduled"} :
        Sensible(u, p, OtherResult(kind, u, p), clock[u] + 1)
  BY <1>1 DEF Sensible, OtherResult, Now
<1>4. ASSUME p \in Recursive \/ Roots[u] = {}
      PROVE  Sensible(u, p, OkResult(u, p), clock[u] + 1)
  BY <1>1, <1>4 DEF Sensible, OkResult, Now
<1> QED
  BY <1>2, <1>3, <1>4

\* An entry is an old one, or sensible now.
LEMMA EntriesKept ==
    ASSUME Typed, Typed', EntriesInv,
           \A u \in Objects : clock'[u] = clock[u] \/ clock'[u] = clock[u] + 1,
           \A u \in Objects : \A p \in Plugins :
                \/ analyses'[u][p] = analyses[u][p]
                \/ Sensible(u, p, analyses'[u][p], clock'[u]),
           \A t \in Tasks : \A p \in Plugins :
                \/ processed'[t][p] = processed[t][p]
                \/ Sensible(Uid(t), p, processed'[t][p], clock'[Uid(t)])
    PROVE  EntriesInv'
<1>1. \A u \in Objects : clock[u] \in Nat /\ clock'[u] \in Nat
  BY DEF Typed, DataTypes
<1>2. \A u \in Objects : clock[u] <= clock'[u]
  BY <1>1
<1>3. ASSUME NEW u \in Objects, NEW p \in Plugins
      PROVE  Sensible(u, p, analyses'[u][p], clock'[u])
  <2>1. analyses[u][p] \in Entry
    BY DEF Typed, DataTypes
  <2>2. Sensible(u, p, analyses[u][p], clock[u])
    BY DEF EntriesInv
  <2>3. Sensible(u, p, analyses[u][p], clock'[u])
    BY <1>1, <1>2, <2>1, <2>2, SensibleLater
  <2> QED
    BY <2>3
<1>4. ASSUME NEW t \in Tasks, NEW p \in Plugins
      PROVE  Sensible(Uid(t), p, processed'[t][p], clock'[Uid(t)])
  <2>1. processed[t][p] \in Entry /\ Uid(t) \in Objects
    BY UidFacts DEF Typed, DataTypes
  <2>2. Sensible(Uid(t), p, processed[t][p], clock[Uid(t)])
    BY DEF EntriesInv
  <2>3. Sensible(Uid(t), p, processed[t][p], clock'[Uid(t)])
    BY <1>1, <1>2, <2>1, <2>2, SensibleLater
  <2> QED
    BY <2>3
<1> QED
  BY <1>3, <1>4 DEF EntriesInv, Sensible, Uid

\* A new result in a file object.
LEMMA NewResultSensible ==
    ASSUME Typed, NEW t \in Tasks, NEW p \in Plugins, NEW e \in Entry, NEW now,
           Sensible(Uid(t), p, e, now),
           processed' = [processed EXCEPT ![t][p] = e]
    PROVE  \A c \in Tasks : \A q \in Plugins :
                \/ processed'[c][q] = processed[c][q]
                \/ Uid(c) = Uid(t) /\ Sensible(Uid(c), q, processed'[c][q], now)
<1>1. processed \in [Tasks -> [Plugins -> Entry]]
  BY DEF Typed, DataTypes
<1>2. /\ \A c \in Tasks \ {t} : processed'[c] = processed[c]
      /\ processed'[t][p] = e
      /\ \A q \in Plugins \ {p} : processed'[t][q] = processed[t][q]
  BY <1>1, NewResult
<1> QED
  BY <1>2

LEMMA AddObjectSensible ==
    ASSUME Typed, EntriesInv, NEW t \in Tasks, AddObject(t)
    PROVE  /\ \A u \in Objects \ {Uid(t)} : analyses'[u] = analyses[u]
           /\ \A u \in Objects : \A p \in Plugins :
                \/ analyses'[u][p] = analyses[u][p]
                \/ Sensible(u, p, analyses'[u][p], clock[u])
<1>1. Uid(t) \in Objects /\ analyses \in [Objects -> [Plugins -> Entry]]
  BY UidFacts DEF Typed, DataTypes
<1>2. analyses' = analyses \/ analyses' = [analyses EXCEPT ![Uid(t)] = processed[t]]
  BY DEF AddObject
<1>3. /\ \A u \in Objects \ {Uid(t)} : analyses'[u] = analyses[u]
      /\ analyses'[Uid(t)] = analyses[Uid(t)] \/ analyses'[Uid(t)] = processed[t]
  BY <1>1, <1>2
<1>4. \A p \in Plugins : Sensible(Uid(t), p, processed[t][p], clock[Uid(t)])
  BY DEF EntriesInv
<1> QED
  BY <1>3, <1>4

\* What add_analysis leaves in the database.
LEMMA StoreAnalysisFacts ==
    ASSUME Typed, NEW u \in Objects, NEW p \in Plugins, NEW e \in Entry, StoreAnalysis(u, p, e)
    PROVE  /\ \A v \in Objects \ {u} : analyses'[v] = analyses[v]
           /\ \A q \in Plugins \ {p} : analyses'[u][q] = analyses[u][q]
           /\ \/ /\ u \notin stored \/ (p \in Unstorable /\ e.result = "ok")
                 /\ analyses' = analyses
              \/ /\ analyses'[u][p].result = e.result
                 /\ analyses'[u][p].version = e.version
                 /\ analyses'[u][p].date = e.date
                 /\ ~ Present(analyses[u][p]) => analyses'[u][p].system = e.system
<1>0. analyses \in [Objects -> [Plugins -> Entry]] /\ analyses[u][p] \in Entry
  BY DEF Typed, DataTypes
<1>1. CASE UNCHANGED analyses /\ (u \notin stored \/ (p \in Unstorable /\ e.result = "ok"))
  BY <1>1
<1>2. CASE analyses' = [analyses EXCEPT ![u][p] =
                LET old == @ IN
                IF Present(old) THEN [e EXCEPT !.system = old.system] ELSE e]
  <2>1. PICK new \in Entry :
            /\ analyses' = [analyses EXCEPT ![u][p] = new]
            /\ new.result = e.result /\ new.version = e.version /\ new.date = e.date
            /\ ~ Present(analyses[u][p]) => new.system = e.system
    <3>2. /\ [e EXCEPT !.system = analyses[u][p].system] \in Entry
          /\ [e EXCEPT !.system = analyses[u][p].system].result = e.result
          /\ [e EXCEPT !.system = analyses[u][p].system].version = e.version
          /\ [e EXCEPT !.system = analyses[u][p].system].date = e.date
      BY <1>0 DEF Entry
    <3> QED
      BY <1>2, <3>2
  <2>2. /\ \A v \in Objects \ {u} : analyses'[v] = analyses[v]
        /\ analyses'[u][p] = new
        /\ \A q \in Plugins \ {p} : analyses'[u][q] = analyses[u][q]
    BY <1>0, <2>1
  <2> QED
    BY <2>1, <2>2
<1> QED
  BY <1>1, <1>2 DEF StoreAnalysis

LEMMA StoreAnalysisSensible ==
    ASSUME Typed, NEW u \in Objects, NEW p \in Plugins, NEW e \in Entry, StoreAnalysis(u, p, e),
           Sensible(u, p, e, clock[u])
    PROVE  \A v \in Objects : \A q \in Plugins :
                \/ analyses'[v][q] = analyses[v][q]
                \/ Sensible(v, q, analyses'[v][q], clock[v])
<1>1. analyses' # analyses => Sensible(u, p, analyses'[u][p], clock[u])
  BY StoreAnalysisFacts DEF Sensible
<1> QED
  BY <1>1, StoreAnalysisFacts

LEMMA EntriesUnchanged ==
    ASSUME Typed, Typed', EntriesInv, UNCHANGED <<processed, analyses, clock>>
    PROVE  EntriesInv'
  BY DEF EntriesInv, Sensible, Uid

LEMMA EnterEntries ==
    ASSUME Typed, Typed', EntriesInv, NEW t \in Tasks, Enter(t) \/ RequestUpdate(t)
    PROVE  EntriesInv'
<1>1. CASE UNCHANGED <<processed, analyses, clock>>
  BY <1>1, EntriesUnchanged
<1>2. CASE RequestUpdate(t) \/ UpdateAnalysisOfChild(t)
  <2>1. /\ processed' = [processed EXCEPT ![t] = analyses[Uid(t)]]
        /\ UNCHANGED <<analyses, clock>>
    BY <1>2 DEF RequestUpdate, UpdateAnalysisOfChild, dbVars
  <2>2. /\ \A c \in Tasks \ {t} : processed'[c] = processed[c]
        /\ processed'[t] = analyses[Uid(t)]
    BY <2>1 DEF Typed, DataTypes
  <2>3. \A p \in Plugins : Sensible(Uid(t), p, analyses[Uid(t)][p], clock'[Uid(t)])
    BY <2>1, UidFacts DEF EntriesInv
  <2>4. \A c \in Tasks : \A p \in Plugins :
            \/ processed'[c][p] = processed[c][p]
            \/ Sensible(Uid(c), p, processed'[c][p], clock'[Uid(c)])
    BY <2>2, <2>3
  <2> QED
    BY <2>1, <2>4, EntriesKept
<1>3. CASE BeginUpdate(t)
  <2>1. AddObject(t) /\ UNCHANGED <<processed, clock>>
    BY <1>3 DEF BeginUpdate, taskVars
  <2>2. \A u \in Objects : \A p \in Plugins :
            \/ analyses'[u][p] = analyses[u][p]
            \/ Sensible(u, p, analyses'[u][p], clock'[u])
    BY <2>1, AddObjectSensible
  <2> QED
    BY <2>1, <2>2, EntriesKept
<1> QED
  BY <1>1, <1>2, <1>3 DEF Enter, StartAnalysisOfObject, UpdateAnalysisOfSingleObject,
     UpdateAnalysisOfRoot, EntryCrash, dbVars, taskVars

LEMMA StoreEntries ==
    ASSUME Typed, Typed', EntriesInv, StoreSkipped \/ StoreResult
    PROVE  EntriesInv'
<1>1. PICK t \in Tasks, p \in Plugins :
        StoreAnalysis(Uid(t), p, processed[t][p]) /\ UNCHANGED <<processed, clock>>
  <2>1. CASE StoreSkipped
    <3>1. PICK t \in Tasks, p \in Plugins : t = runner.task /\ p = runner.plugin
      BY <2>1, ReaderFacts DEF StoreSkipped, Typed, ResultInHand
    <3> QED
      BY <2>1, <3>1 DEF StoreSkipped, taskVars
  <2>2. CASE StoreResult
    <3>1. PICK t \in Tasks, p \in Plugins : t = collector.task /\ p = collector.plugin
      BY <2>2, ReaderFacts DEF StoreResult, Typed, ResultInHand
    <3> QED
      BY <2>2, <3>1 DEF StoreResult, taskVars
  <2> QED
    BY <2>1, <2>2
<1>2. /\ Uid(t) \in Objects /\ processed[t][p] \in Entry
      /\ Sensible(Uid(t), p, processed[t][p], clock[Uid(t)])
  BY UidFacts DEF Typed, DataTypes, EntriesInv
<1>3. \A u \in Objects : \A q \in Plugins :
        \/ analyses'[u][q] = analyses[u][q]
        \/ Sensible(u, q, analyses'[u][q], clock[u])
  BY <1>1, <1>2, StoreAnalysisSensible
<1> QED
  BY <1>1, <1>3, EntriesKept

LEMMA RunnerEntries ==
    ASSUME Typed, Typed', EntriesInv, RunnerStep
    PROVE  EntriesInv'
<1>1. CASE UNCHANGED <<processed, analyses, clock>>
  BY <1>1, EntriesUnchanged
<1>2. CASE TakeTask
  <2>1. PICK t \in Tasks : t = Head(processQueue)
    BY <1>2, ReaderFacts DEF TakeTask, Typed
  <2>2. AddObject(t) /\ UNCHANGED <<processed, clock>>
    BY <1>2, <2>1 DEF TakeTask
  <2>3. \A u \in Objects : \A p \in Plugins :
            \/ analyses'[u][p] = analyses[u][p]
            \/ Sensible(u, p, analyses'[u][p], clock'[u])
    BY <2>2, AddObjectSensible
  <2> QED
    BY <2>2, <2>3, EntriesKept
<1>3. CASE SkipUpToDate
  <2>1. PICK t \in Tasks, p \in Plugins : t = runner.task /\ p = runner.plugin
    BY <1>3, ReaderFacts DEF SkipUpToDate, Typed
  <2>2. /\ processed' = [processed EXCEPT ![t][p] = analyses[Uid(t)][p]] \/ processed' = processed
        /\ UNCHANGED <<analyses, clock>>
    BY <1>3, <2>1 DEF SkipUpToDate, dbVars
  <2>3. /\ Uid(t) \in Objects /\ analyses[Uid(t)][p] \in Entry
        /\ Sensible(Uid(t), p, analyses[Uid(t)][p], clock'[Uid(t)])
    BY <2>2, UidFacts DEF Typed, DataTypes, EntriesInv
  <2>4. \A c \in Tasks : \A q \in Plugins :
            \/ processed'[c][q] = processed[c][q]
            \/ Sensible(Uid(c), q, processed'[c][q], clock'[Uid(c)])
    BY <2>2, <2>3, NewResultSensible
  <2> QED
    BY <2>2, <2>4, EntriesKept
<1>4. CASE SkipFiltered
  <2>1. PICK t \in Tasks, p \in Plugins : t = runner.task /\ p = runner.plugin
    BY <1>4, ReaderFacts DEF SkipFiltered, Typed
  <2>2. /\ processed' = [processed EXCEPT
            ![t] = [WithFileType(t) EXCEPT ![p] = OtherResult("skipped", Uid(t), p)]]
        /\ clock' = [clock EXCEPT ![Uid(t)] = @ + 1]
        /\ analyses' = analyses
    BY <1>4, <2>1 DEF SkipFiltered, dbVars
  <2>3. /\ WithFileType(t) \in [Plugins -> Entry] /\ Uid(t) \in Objects
        /\ clock \in [Objects -> Nat] /\ processed \in [Tasks -> [Plugins -> Entry]]
    BY UidFacts, WithFileTypeFacts DEF Typed, DataTypes
  <2>4. /\ \A c \in Tasks \ {t} : processed'[c] = processed[c]
        /\ processed'[t][p] = OtherResult("skipped", Uid(t), p)
        /\ \A q \in Plugins \ {p} : processed'[t][q] = WithFileType(t)[q]
        /\ clock'[Uid(t)] = clock[Uid(t)] + 1
        /\ \A u \in Objects \ {Uid(t)} : clock'[u] = clock[u]
    BY <2>2, <2>3
  <2>5. Sensible(Uid(t), p, processed'[t][p], clock'[Uid(t)])
    BY <2>3, <2>4, SensibleResults
  <2>6. ASSUME NEW q \in Plugins \ {p}
        PROVE  \/ processed'[t][q] = processed[t][q]
               \/ Sensible(Uid(t), q, processed'[t][q], clock'[Uid(t)])
    <3>1. WithFileType(t)[q] = processed[t][q] \/ WithFileType(t)[q] = analyses[Uid(t)][q]
      BY <2>3 DEF WithFileType
    <3>2. /\ analyses[Uid(t)][q] \in Entry /\ clock[Uid(t)] \in Nat /\ clock'[Uid(t)] \in Nat
          /\ clock[Uid(t)] <= clock'[Uid(t)]
      BY <2>3, <2>4 DEF Typed, DataTypes
    <3>3. Sensible(Uid(t), q, analyses[Uid(t)][q], clock[Uid(t)])
      BY <2>3 DEF EntriesInv
    <3>4. Sensible(Uid(t), q, analyses[Uid(t)][q], clock'[Uid(t)])
      BY <3>2, <3>3, SensibleLater
    <3> QED
      BY <2>4, <3>1, <3>4
  <2>7. \A c \in Tasks : \A q \in Plugins :
            \/ processed'[c][q] = processed[c][q]
            \/ Sensible(Uid(c), q, processed'[c][q], clock'[Uid(c)])
    BY <2>4, <2>5, <2>6
  <2> QED
    BY <2>2, <2>4, <2>7, EntriesKept
<1>5. CASE StartPlugin
  <2>1. PICK t \in Tasks, p \in Plugins : t = runner.task /\ p = runner.plugin
    BY <1>5, ReaderFacts DEF StartPlugin, Typed
  <2>2. /\ \/ processed' = [processed EXCEPT ![t] = WithFileType(t)]
           \/ processed' = [processed EXCEPT ![t] = processed[t]]
        /\ UNCHANGED <<analyses, clock>>
    BY <1>5, <2>1 DEF StartPlugin, dbVars
  <2>3. /\ \A c \in Tasks \ {t} : processed'[c] = processed[c]
        /\ processed'[t] = WithFileType(t) \/ processed'[t] = processed[t]
    BY <2>2 DEF Typed, DataTypes
  <2>4. \A q \in Plugins :
            WithFileType(t)[q] = processed[t][q] \/ WithFileType(t)[q] = analyses[Uid(t)][q]
    BY DEF WithFileType, Typed, DataTypes
  <2>5. \A q \in Plugins : Sensible(Uid(t), q, analyses[Uid(t)][q], clock'[Uid(t)])
    BY <2>2, UidFacts DEF EntriesInv
  <2>6. \A c \in Tasks : \A q \in Plugins :
            \/ processed'[c][q] = processed[c][q]
            \/ Sensible(Uid(c), q, processed'[c][q], clock'[Uid(c)])
    BY <2>3, <2>4, <2>5
  <2> QED
    BY <2>2, <2>6, EntriesKept
<1>6. CASE StoreSkipped
  BY <1>6, StoreEntries
<1> QED
  BY <1>1, <1>2, <1>3, <1>4, <1>5, <1>6 DEF RunnerStep, AbandonTask, SkipUnknownPlugin,
     RunnerCrash, taskVars, dbVars

LEMMA WorkerEntries ==
    ASSUME Typed, Typed', EntriesInv, RunInv, NEW p \in Plugins, NEW t \in Tasks,
           (BeginAnalysis(p) /\ t = Head(inQueue[p])) \/ WorkerStep(p, t)
    PROVE  EntriesInv'
<1>1. /\ Uid(t) \in Objects /\ Empty \in Entry /\ OkResult(Uid(t), p) \in Entry
      /\ clock \in [Objects -> Nat]
  BY UidFacts, EntryFacts DEF Typed, DataTypes
<1>2. CASE Analyze(p, t)
  <2>1. /\ processed' = [processed EXCEPT ![t][p] = OkResult(Uid(t), p)]
        /\ clock' = [clock EXCEPT ![Uid(t)] = @ + 1]
        /\ analyses' = analyses /\ t \in running[p]
    BY <1>2 DEF Analyze, dbVars
  <2>2. /\ clock'[Uid(t)] = clock[Uid(t)] + 1
        /\ \A u \in Objects \ {Uid(t)} : clock'[u] = clock[u]
    BY <1>1, <2>1
  <2>3. p \in Recursive \/ Roots[Uid(t)] = {}
    BY <2>1 DEF RunInv, ImageOnly
  <2>4. Sensible(Uid(t), p, OkResult(Uid(t), p), clock'[Uid(t)])
    BY <1>1, <2>2, <2>3, SensibleResults
  <2>5. \A c \in Tasks : \A q \in Plugins :
            \/ processed'[c][q] = processed[c][q]
            \/ Sensible(Uid(c), q, processed'[c][q], clock'[Uid(c)])
    BY <1>1, <2>1, <2>4, NewResultSensible
  <2> QED
    BY <2>1, <2>2, <2>5, EntriesKept
<1>3. CASE FinishAnalysis(p, t)
  BY <1>3, EntriesUnchanged DEF FinishAnalysis, taskVars, dbVars
<1>4. CASE FailAnalysis(p, t) \/ (BeginAnalysis(p) /\ t = Head(inQueue[p]))
  <2>1. /\ processed' = [processed EXCEPT ![t][p] = Empty]
        /\ UNCHANGED <<analyses, clock>>
    BY <1>4 DEF FailAnalysis, BeginAnalysis, dbVars
  <2>2. clock'[Uid(t)] \in Nat
    BY <1>1, <2>1
  <2>3. Sensible(Uid(t), p, Empty, clock'[Uid(t)])
    BY <1>1, <2>2, SensibleResults
  <2>4. \A c \in Tasks : \A q \in Plugins :
            \/ processed'[c][q] = processed[c][q]
            \/ Sensible(Uid(c), q, processed'[c][q], clock'[Uid(c)])
    BY <1>1, <2>1, <2>3, NewResultSensible
  <2> QED
    BY <2>1, <2>4, EntriesKept
<1> QED
  BY <1>2, <1>3, <1>4 DEF WorkerStep

LEMMA CollectEntries ==
    ASSUME Typed, Typed', EntriesInv, NEW p \in Plugins, Collect(p)
    PROVE  EntriesInv'
<1>1. PICK t \in Tasks : t = Head(outQueue[p])
  BY ReaderFacts DEF Collect, Typed
<1>2. analyses' = analyses
  BY DEF Collect, dbVars
<1>3. CASE exception[t] = NoPlugin
  BY <1>1, <1>2, <1>3, EntriesUnchanged DEF Collect, taskVars
<1>4. CASE exception[t] # NoPlugin
  <2> DEFINE dependents == Dependents(p, scheduled[t])
  <2>1. /\ processed' = [processed EXCEPT ![t] =
                [q \in Plugins |->
                    IF q \in dependents THEN OtherResult("unscheduled", Uid(t), q)
                    ELSE IF q = p THEN OtherResult("failed", Uid(t), p)
                    ELSE @[q]]]
        /\ clock' = [clock EXCEPT ![Uid(t)] = @ + 1]
    BY <1>1, <1>4 DEF Collect
  <2> HIDE DEF dependents
  <2>2. Uid(t) \in Objects /\ clock \in [Objects -> Nat]
    BY UidFacts DEF Typed, DataTypes
  <2>3. /\ clock'[Uid(t)] = clock[Uid(t)] + 1
        /\ \A u \in Objects \ {Uid(t)} : clock'[u] = clock[u]
    BY <2>1, <2>2
  <2>4. /\ \A c \in Tasks \ {t} : processed'[c] = processed[c]
        /\ \A q \in Plugins :
            \/ processed'[t][q] = OtherResult("unscheduled", Uid(t), q)
            \/ processed'[t][q] = OtherResult("failed", Uid(t), q)
            \/ processed'[t][q] = processed[t][q]
    BY <2>1 DEF Typed, DataTypes
  <2>5. \A q \in Plugins : \A kind \in {"failed", "unscheduled"} :
            Sensible(Uid(t), q, OtherResult(kind, Uid(t), q), clock'[Uid(t)])
    BY <2>2, <2>3, SensibleResults
  <2>6. \A c \in Tasks : \A q \in Plugins :
            \/ processed'[c][q] = processed[c][q]
            \/ Sensible(Uid(c), q, processed'[c][q], clock'[Uid(c)])
    BY <2>4, <2>5
  <2> QED
    BY <1>2, <2>3, <2>6, EntriesKept
<1> QED
  BY <1>3, <1>4

LEMMA EntriesNext ==
    ASSUME Typed, Typed', EntriesInv, RunInv, [Next]_vars
    PROVE  EntriesInv'
<1>1. ASSUME UNCHANGED <<processed, analyses, clock>> PROVE EntriesInv'
  BY <1>1, EntriesUnchanged
<1>2. CASE \E t \in Tasks : Enter(t) \/ RequestUpdate(t)
  BY <1>2, EnterEntries
<1>3. CASE RunnerStep
  BY <1>3, RunnerEntries
<1>4. ASSUME NEW p \in Plugins, BeginAnalysis(p) PROVE EntriesInv'
  BY <1>4, WorkerEntries, ReaderFacts DEF BeginAnalysis, Typed
<1>5. ASSUME NEW p \in Plugins, CollectorStep(p) PROVE EntriesInv'
  BY <1>1, <1>5, CollectEntries
     DEF CollectorStep, CollectWithoutResult, CollectorCrash, taskVars, dbVars
<1>6. ASSUME NEW p \in Plugins, NEW t \in Tasks, WorkerStep(p, t) PROVE EntriesInv'
  BY <1>6, WorkerEntries
<1>7. CASE StoreResult
  BY <1>7, StoreEntries
<1>8. ASSUME NEW fw \in Objects, DeleteFirmware(fw) PROVE EntriesInv'
  <2>1. /\ UNCHANGED <<processed, clock>>
        /\ \A u \in Objects : analyses'[u] = analyses[u] \/ analyses'[u] = [p \in Plugins |-> Absent]
    BY <1>8 DEF DeleteFirmware, taskVars
  <2>2. \A u \in Objects : clock[u] \in Nat
    BY DEF Typed, DataTypes
  <2>3. \A u \in Objects : \A p \in Plugins :
            \/ analyses'[u][p] = analyses[u][p]
            \/ Sensible(u, p, analyses'[u][p], clock'[u])
    BY <2>1, <2>2, SensibleResults
  <2> QED
    BY <2>1, <2>3, EntriesKept
<1>9. CASE UNCHANGED vars
  BY <1>1, <1>9 DEF vars, taskVars, dbVars
<1>10. CASE Loss
  BY <1>1, <1>10, SomeTaskLost, LossMoves DEF Typed, taskVars, dbVars
<1> QED
  BY <1>2, <1>3, <1>4, <1>5, <1>6, <1>7, <1>8, <1>9, <1>10 DEF Next, Loss
----------------------------------------------------------------------------
(* Where a plugin runs, and what has become of the other tasks. *)

LEMMA FrameRuns ==
    ASSUME RunInv, NEW t \in Tasks, OnlyMoves(t),
           \A p \in Plugins :
                t \in InOrder(inQueue'[p]) \/ t \in running'[p] => ~ ImageOnly(t, p)
    PROVE  RunInv'
<1>1. ASSUME NEW c \in Tasks, NEW p \in Plugins,
             c \in InOrder(inQueue'[p]) \/ c \in running'[p]
      PROVE  ~ ImageOnly(c, p)
  <2>1. CASE c # t
    BY <1>1, <2>1 DEF OnlyMoves, Frame, Same, RunInv
  <2> QED
    BY <1>1, <2>1
<1> QED
  BY <1>1 DEF RunInv, ImageOnly, Uid

LEMMA UnmovedRuns ==
    ASSUME RunInv, UNCHANGED <<inQueue, running>>
    PROVE  RunInv'
  BY DEF RunInv, ImageOnly, Uid

LEMMA StartPluginRuns ==
    ASSUME Typed, RunInv, StartPlugin
    PROVE  RunInv'
<1>1. PICK t \in Tasks, p \in Plugins : t = runner.task /\ p = runner.plugin
  BY ReaderFacts DEF StartPlugin, Typed
<1>2. /\ OnlyMoves(t)
      /\ \A q \in Plugins : t \notin running'[q]
      /\ \/ \A q \in Plugins \ {p} : t \notin InOrder(inQueue'[q])
         \/ \A q \in Plugins : t \notin InOrder(inQueue'[q])
  BY <1>1, StartPluginMoves
<1>3. ASSUME ImageOnly(t, p) PROVE inQueue' = inQueue
  BY <1>1, <1>3 DEF StartPlugin, AddJob
<1>4. \A q \in Plugins : t \notin InOrder(inQueue[q])
  BY <1>1, StartPluginMoves DEF Handles
<1> QED
  BY <1>2, <1>3, <1>4, FrameRuns

LEMMA RunsNext ==
    ASSUME Typed, RunInv, [Next]_vars
    PROVE  RunInv'
<1>1. CASE UNCHANGED <<inQueue, running>>
  BY <1>1, UnmovedRuns
<1>2. CASE StartPlugin
  BY <1>2, StartPluginRuns
<1>3. ASSUME NEW p \in Plugins, BeginAnalysis(p) PROVE RunInv'
  <2>1. PICK t \in Tasks : t = Head(inQueue[p])
    BY <1>3, ReaderFacts DEF BeginAnalysis, Typed
  <2>2. /\ OnlyMoves(t) /\ t \in InOrder(inQueue[p])
        /\ \A q \in Plugins :
            /\ t \notin InOrder(inQueue'[q]) /\ t \notin InOrder(outQueue'[q])
            /\ t \in running'[q] <=> q = p
    BY <1>3, <2>1, BeginAnalysisMoves
  <2> QED
    BY <2>2, FrameRuns DEF RunInv
<1>4. ASSUME NEW p \in Plugins, NEW t \in Tasks, WorkerStep(p, t) PROVE RunInv'
  <2>1. /\ OnlyMoves(t) /\ t \in running[p]
        /\ \A q \in Plugins : t \notin InOrder(inQueue'[q])
        /\ \A q \in Plugins \ {p} : t \notin running'[q]
    BY <1>4, WorkerMoves
  <2> QED
    BY <2>1, FrameRuns DEF RunInv
<1>5. CASE \E t \in Tasks : Enter(t) \/ RequestUpdate(t)
  BY <1>1, <1>5 DEF Enter, RequestUpdate, StartAnalysisOfObject, UpdateAnalysisOfSingleObject,
     BeginUpdate, UpdateAnalysisOfChild, UpdateAnalysisOfRoot, EntryCrash, pluginVars
<1>6. CASE RunnerStep
  BY <1>1, <1>2, <1>6 DEF RunnerStep, TakeTask, AbandonTask, SkipUnknownPlugin, SkipUpToDate,
     SkipFiltered, RunnerCrash, StoreSkipped, pluginVars
<1>7. ASSUME NEW p \in Plugins, CollectorStep(p) PROVE RunInv'
  BY <1>1, <1>7 DEF CollectorStep, Collect, CollectWithoutResult, CollectorCrash
<1>8. CASE StoreResult \/ (\E fw \in Objects : DeleteFirmware(fw)) \/ UNCHANGED vars
  BY <1>1, <1>8 DEF StoreResult, DeleteFirmware, vars, pluginVars
<1>9. CASE Loss
  <2>1. PICK t \in Tasks : Leaves(t)
    BY <1>9, SomeTaskLost, LossMoves DEF Typed
  <2>2. /\ OnlyMoves(t)
        /\ \A q \in Plugins : t \notin InOrder(inQueue'[q]) /\ t \notin running'[q]
    BY <2>1 DEF Leaves, Held, Handles
  <2> QED
    BY <2>2, FrameRuns
<1> QED
  BY <1>3, <1>4, <1>5, <1>6, <1>7, <1>8, <1>9 DEF Next, Loss

\* What has begun was preceded by the tasks that had to end before it.
Begun(t) == phase[t] \notin {"new", "excluded"}
EndedInv == \A t \in Tasks : Begun(t) => \A c \in EndedBefore(t) : Ended(c)

\* The schedule process has had the task, or will.
Worked(t) == phase[t] \in {"active", "completed", "abandoned", "lost"}

\* What a step does to the phases.
PhaseStep ==
    /\ \A t \in Tasks : Worked(t) => Worked(t)'
    /\ \A t \in Tasks : Ended(t) => phase'[t] = phase[t]
    /\ \A t \in Tasks : Begun(t) => Begun(t)'
    /\ \A t \in Tasks : ~ Begun(t) /\ Begun(t)' => \A c \in EndedBefore(t) : Ended(c)

LEMMA EndedBeforeFacts ==
    ASSUME NEW t \in Tasks
    PROVE  /\ EndedBefore(t) \subseteq Tasks
           /\ Request[t].entry = "start" => EndedBefore(t) = {}
           /\ Request[t].entry \in {"single", "update"} => EndedBefore(t) = Request[t].after
           /\ Request[t].entry = "child" =>
                \A root \in Request[t].after : EndedBefore(t) = Request[root].after
<1>1. CASE Request[t].entry = "start"
  BY <1>1 DEF EndedBefore
<1>2. CASE Request[t].entry = "child"
  <2>1. PICK root \in Tasks : Request[t].after = {root}
    BY <1>2, RequestAssumption
  <2>2. EndedBefore(t) = Request[root].after
    BY <1>2, <2>1 DEF EndedBefore
  <2>3. Request[root].after \subseteq Tasks
    BY RequestAssumption
  <2> QED
    BY <1>2, <2>1, <2>2, <2>3
<1>3. CASE Request[t].entry \notin {"start", "child"}
  <2>1. EndedBefore(t) = Request[t].after
    BY <1>3 DEF EndedBefore
  <2> QED
    BY <1>3, <2>1, RequestAssumption
<1> QED
  BY <1>1, <1>2, <1>3

\* Only one task moves, and it did not end before.
LEMMA OnlyMovesPhases ==
    ASSUME NEW t \in Tasks, OnlyMoves(t), ~ Ended(t), Begun(t) => Begun(t)',
           Worked(t) => Worked(t)',
           ~ Begun(t) /\ Begun(t)' => \A c \in EndedBefore(t) : Ended(c)
    PROVE  PhaseStep
  BY DEF OnlyMoves, Frame, Same, PhaseStep, Begun, Worked

LEMMA UnmovedPhases ==
    ASSUME phase' = phase
    PROVE  PhaseStep
  BY DEF PhaseStep, Begun, Worked

LEMMA EnterPhases ==
    ASSUME Typed, ResultsInv, EndedInv, NEW t \in Tasks, Enter(t) \/ RequestUpdate(t)
    PROVE  PhaseStep
<1>1. CASE StartAnalysisOfObject(t)
  <2>1. /\ phase[t] = "new" /\ Request[t].entry = "start"
        /\ GivesBack(t, scheduled'[t])
    BY <1>1, EntryMoves DEF StartAnalysisOfObject
  <2>2. phase'[t] \in {"active", "completed"}
    BY <2>1, GivesBackQueued
  <2> QED
    BY <2>1, <2>2, OnlyMovesPhases, EndedBeforeFacts DEF GivesBack, Ended, Begun, Worked
<1>2. CASE UpdateAnalysisOfSingleObject(t) \/ UpdateAnalysisOfRoot(t)
  <2>1. /\ phase[t] \in {"requested", "updating"} /\ GivesBack(t, scheduled'[t])
    BY <1>2, EntryMoves DEF UpdateAnalysisOfSingleObject, UpdateAnalysisOfRoot
  <2>2. phase'[t] \in {"active", "completed"}
    BY <2>1, GivesBackQueued
  <2> QED
    BY <2>1, <2>2, OnlyMovesPhases DEF GivesBack, Ended, Begun, Worked
<1>3. CASE UpdateAnalysisOfChild(t)
  <2>1. /\ phase[t] = "new" /\ Request[t].entry = "child" /\ GivesBack(t, scheduled'[t])
        /\ \E root \in Request[t].after : phase[root] = "updating"
    BY <1>3, EntryMoves DEF UpdateAnalysisOfChild
  <2>2. phase'[t] \in {"active", "completed"}
    BY <2>1, GivesBackQueued
  <2>3. PICK root \in Tasks : root \in Request[t].after /\ phase[root] = "updating"
    BY <2>1, RequestAssumption
  <2>4. Request[root].entry = "update"
    BY <2>3 DEF ResultsInv, ResultsOf, PhaseInv
  <2>5. EndedBefore(t) = EndedBefore(root)
    BY <2>1, <2>3, <2>4, EndedBeforeFacts
  <2>6. \A c \in EndedBefore(t) : Ended(c)
    BY <2>3, <2>5 DEF EndedInv, Begun
  <2> QED
    BY <2>1, <2>2, <2>6, OnlyMovesPhases DEF GivesBack, Ended, Begun, Worked
<1>4. CASE RequestUpdate(t)
  <2>1. /\ phase[t] = "new" /\ Request[t].entry \in {"single", "update"}
        /\ \A c \in Request[t].after : Ended(c)
        /\ OnlyMoves(t)
    BY <1>4, OutsideMoves DEF RequestUpdate, Leaves
  <2> QED
    BY <1>4, <2>1, OnlyMovesPhases, EndedBeforeFacts
       DEF RequestUpdate, Ended, Begun, Worked, Typed, HandOver, HandOverTypes
<1>5. CASE EntryCrash(t)
  <2>1. /\ phase[t] = "new" => Request[t].entry = "start"
        /\ phase[t] \in {"new", "requested", "updating"} /\ phase'[t] = "crashed"
        /\ OnlyMoves(t)
    BY <1>5, OutsideMoves DEF EntryCrash, Leaves, Typed, HandOver, HandOverTypes
  <2> QED
    BY <2>1, OnlyMovesPhases, EndedBeforeFacts DEF Ended, Begun, Worked
<1>6. CASE BeginUpdate(t)
  <2>1. /\ phase[t] = "requested" /\ phase'[t] = "updating"
        /\ \A c \in Tasks \ {t} :
            phase'[c] # phase[c] => phase'[c] = "excluded" /\ phase[c] = "new"
    BY <1>6 DEF BeginUpdate
  <2> QED
    BY <2>1 DEF PhaseStep, Ended, Begun, Worked
<1> QED
  BY <1>1, <1>2, <1>3, <1>4, <1>5, <1>6 DEF Enter

\* The task was active, and is active or has ended afterwards.
LEMMA HeldPhases ==
    ASSUME Typed, NEW t \in Tasks, Held(t), OnlyMoves(t),
           phase'[t] \in {"active", "completed", "abandoned", "lost"}
    PROVE  PhaseStep
<1>1. phase[t] = "active"
  BY DEF Typed, HandOver, PhaseAgrees
<1> QED
  BY <1>1, OnlyMovesPhases DEF Ended, Begun, Worked

LEMMA PhasesNext ==
    ASSUME Typed, ResultsInv, EndedInv, [Next]_vars
    PROVE  PhaseStep
<1>1. CASE phase' = phase
  BY <1>1, UnmovedPhases
<1>2. CASE \E t \in Tasks : Enter(t) \/ RequestUpdate(t)
  BY <1>2, EnterPhases
<1>3. CASE RunnerStep
  <2>1. CASE AbandonTask
    <3>1. PICK t \in Tasks : t = Head(processQueue) /\ Held(t)
      BY <2>1, ReaderFacts DEF AbandonTask, Typed, Held
    <3>2. OnlyMoves(t) /\ phase'[t] = "abandoned"
      BY <2>1, <3>1, AbandonTaskMoves DEF AbandonTask, Leaves, Typed, HandOver, HandOverTypes
    <3> QED
      BY <3>1, <3>2, HeldPhases
  <2>2. CASE SkipUnknownPlugin \/ SkipUpToDate \/ StoreSkipped
    <3>1. PICK t \in Tasks : t = runner.task /\ Held(t)
      BY <2>2, ReaderFacts DEF SkipUnknownPlugin, SkipUpToDate, StoreSkipped, Typed, Held
    <3>2. GivesBack(t, scheduled[t]) /\ scheduled' = scheduled
      BY <2>2, <3>1, RunnerGives
    <3>3. phase'[t] \in {"active", "completed"} /\ OnlyMoves(t)
      BY <3>2, GivesBackQueued DEF GivesBack
    <3> QED
      BY <3>1, <3>3, HeldPhases
  <2> QED
    BY <1>1, <1>3, <2>1, <2>2
       DEF RunnerStep, TakeTask, SkipFiltered, StartPlugin, RunnerCrash
<1>4. ASSUME NEW p \in Plugins, CollectorStep(p) PROVE PhaseStep
  <2>1. CASE CollectWithoutResult(p)
    <3>1. PICK t \in Tasks : t = Head(outQueue[p]) /\ Held(t)
      BY <2>1, ReaderFacts DEF CollectWithoutResult, Typed, Held, Handles
    <3>2. GivesBack(t, scheduled[t]) /\ scheduled' = scheduled
      BY <2>1, <3>1, CollectWithoutResultMoves DEF CollectWithoutResult, taskVars
    <3>3. phase'[t] \in {"active", "completed"} /\ OnlyMoves(t)
      BY <3>2, GivesBackQueued DEF GivesBack
    <3> QED
      BY <3>1, <3>3, HeldPhases
  <2> QED
    BY <1>1, <1>4, <2>1 DEF CollectorStep, Collect, CollectorCrash
<1>5. CASE StoreResult
  <2>1. PICK t \in Tasks : t = collector.task /\ Held(t)
    BY <1>5, ReaderFacts DEF StoreResult, Typed, Held
  <2>2. GivesBack(t, scheduled[t]) /\ scheduled' = scheduled
    BY <1>5, <2>1, StoreResultMoves DEF StoreResult, taskVars
  <2>3. phase'[t] \in {"active", "completed"} /\ OnlyMoves(t)
    BY <2>2, GivesBackQueued DEF GivesBack
  <2> QED
    BY <2>1, <2>3, HeldPhases
<1>6. ASSUME NEW p \in Plugins, BeginAnalysis(p) \/ \E t \in Tasks : WorkerStep(p, t)
      PROVE  PhaseStep
  BY <1>1, <1>6 DEF BeginAnalysis, WorkerStep, Analyze, FinishAnalysis, FailAnalysis
<1>7. CASE (\E fw \in Objects : DeleteFirmware(fw)) \/ UNCHANGED vars
  BY <1>1, <1>7 DEF DeleteFirmware, vars
<1>8. CASE Loss
  <2>1. PICK t \in Tasks : Leaves(t) /\ Held(t) /\ phase'[t] \in {"active", "lost"}
    BY <1>8, SomeTaskLost, LossMoves DEF Typed
  <2> QED
    BY <2>1, HeldPhases DEF Leaves
<1> QED
  BY <1>2, <1>3, <1>4, <1>5, <1>6, <1>7, <1>8 DEF Next, Loss

LEMMA EndedNext ==
    ASSUME EndedInv, PhaseStep
    PROVE  EndedInv'
<1>1. ASSUME NEW t \in Tasks, Begun(t)', NEW c \in EndedBefore(t) PROVE Ended(c)'
  <2>1. c \in Tasks
    BY EndedBeforeFacts
  <2>2. Ended(c)
    BY <1>1 DEF PhaseStep, EndedInv
  <2> QED
    BY <2>1, <2>2 DEF PhaseStep, Ended
<1> QED
  BY <1>1 DEF EndedInv, EndedBefore
----------------------------------------------------------------------------
(* What is settled of the only task for an object. *)

\* The plugin is not on the list and nobody is about to run it or to store its result.
Settled(t, p) == p \notin InOrder(scheduled[t]) /\ ~ InHand(t, p)
DependenciesSettled(t, p) == \A d \in Dependencies[p] : Settled(t, d)

\* A dependency of the plugin is not ok, and remains so.
FailureInHand(t, d) ==
    /\ d \notin InOrder(scheduled[t])
    /\ collector.task = t /\ collector.plugin = d
    /\ processed[t][d].result = "failed"
Broken(t, p) ==
    \E d \in Dependencies[p] :
        FailureInHand(t, d) \/ (Settled(t, d) /\ analyses[Uid(t)][d].result # "ok")

\* If the entry is ok, it has the version of the plugin, no dependency is newer, and
\* unless there was an entry before, it has the system version, too.
Current(t, p) ==
    LET entries == analyses[Uid(t)] IN
    entries[p].result = "ok" =>
        /\ Version[p] <= entries[p].version
        /\ EntryBefore(t, p) \/ SystemVersion[p] <= entries[p].system
        /\ \A d \in Dependencies[p] : entries[d].date <= entries[p].date

LEMMA EntryBeforeConstant ==
    \A t, p : EntryBefore(t, p)' <=> EntryBefore(t, p)
  BY DEF EntryBefore, EndedBefore, Uid

\* What the plugin needs is settled before its turn.
Turn(t, p) ==
    InHand(t, p) =>
        p \notin Dependencies[p] /\ \A d \in Dependencies[p] : d \notin InOrder(scheduled[t])

\* A plugin that is skipped has a result of that kind.
NotRun(t, p) ==
    runner.task = t /\ runner.plugin = p /\ runner.pc = "store" =>
        processed[t][p].result # "ok"

\* A result that is on its way to the database is newer than all that are there.
Newest(t, p) ==
    /\ t \in running[p] \/ t \in InOrder(outQueue[p])
        \/ (collector.task = t /\ collector.plugin = p)
    /\ processed[t][p].result = "ok"
    => /\ Version[p] <= processed[t][p].version
       /\ SystemVersion[p] <= processed[t][p].system
       /\ \A q \in Plugins : analyses[Uid(t)][q].date <= processed[t][p].date

\* Nothing is written before the plugin's turn, if there was no entry before.
Unwritten(t, p) ==
    /\ Uid(t) \notin stored => ~ Present(processed[t][p])
    /\ p \in InOrder(scheduled[t]) \/ InHand(t, p) =>
        EntryBefore(t, p) \/ ~ Present(analyses[Uid(t)][p])

HandInv(t, p) == Turn(t, p) /\ NotRun(t, p) /\ Newest(t, p)

SettledInv(t, p) ==
    /\ p \notin InOrder(scheduled[t]) => Uid(t) \in stored
    /\ Settled(t, p) => Broken(t, p) \/ (DependenciesSettled(t, p) /\ Current(t, p))

FreshInv(t) ==
    /\ \A p \in planned[t] \cap Plugins : SettledInv(t, p)
    /\ \A p \in Plugins : HandInv(t, p) /\ Unwritten(t, p)

Listed(t) == Held(t) \/ phase[t] = "completed"
Alone(t) == SoundList(t) /\ Lasting(Uid(t)) /\ OnlyTask(t) /\ Listed(t)
FreshOf(t) == Alone(t) => FreshInv(t)

LEMMA FrameFresh ==
    ASSUME NEW c \in Tasks, FreshInv(c), Frame(c), analyses'[Uid(c)] = analyses[Uid(c)],
           Uid(c) \in stored => Uid(c) \in stored'
    PROVE  FreshInv(c)'
<1>1. /\ scheduled'[c] = scheduled[c] /\ processed'[c] = processed[c]
      /\ planned'[c] = planned[c]
      /\ runner'.task = c <=> runner.task = c
      /\ collector'.task = c <=> collector.task = c
      /\ runner.task = c => runner' = runner
      /\ collector.task = c => collector' = collector
      /\ \A p \in Plugins :
            /\ c \in InOrder(inQueue'[p]) <=> c \in InOrder(inQueue[p])
            /\ c \in running'[p] <=> c \in running[p]
            /\ c \in InOrder(outQueue'[p]) <=> c \in InOrder(outQueue[p])
  BY DEF Frame, Same
<1>2. \A p \in Plugins : InHand(c, p)' <=> InHand(c, p)
  BY <1>1 DEF InHand, Handles
<1>3. \A p \in Plugins : Settled(c, p)' <=> Settled(c, p)
  BY <1>1, <1>2 DEF Settled
<1>4. \A p \in Plugins : FailureInHand(c, p)' <=> FailureInHand(c, p)
  BY <1>1 DEF FailureInHand
<1>5. ASSUME NEW p \in Plugins, SettledInv(c, p) PROVE SettledInv(c, p)'
  <2>1. Broken(c, p) => Broken(c, p)'
    BY <1>3, <1>4, DependenciesLoaded DEF Broken, Uid
  <2>2. DependenciesSettled(c, p) => DependenciesSettled(c, p)'
    BY <1>3, DependenciesLoaded DEF DependenciesSettled
  <2>3. Current(c, p) => Current(c, p)'
    BY EntryBeforeConstant DEF Current, Uid
  <2> QED
    BY <1>1, <1>3, <1>5, <2>1, <2>2, <2>3 DEF SettledInv, Uid
<1>6. ASSUME NEW p \in Plugins, HandInv(c, p) PROVE HandInv(c, p)'
  <2>1. Turn(c, p)'
    BY <1>1, <1>2, <1>6 DEF HandInv, Turn
  <2>2. NotRun(c, p)'
    BY <1>1, <1>6 DEF HandInv, NotRun
  <2>3. Newest(c, p)'
    BY <1>1, <1>6 DEF HandInv, Newest, Uid
  <2> QED
    BY <2>1, <2>2, <2>3 DEF HandInv
<1>7. ASSUME NEW p \in Plugins, Unwritten(c, p) PROVE Unwritten(c, p)'
  BY <1>1, <1>2, <1>7, EntryBeforeConstant DEF Unwritten, Uid
<1> QED
  BY <1>1, <1>5, <1>6, <1>7 DEF FreshInv

\* The task moves from hand to hand with its plugin.
LEMMA HandFresh ==
    ASSUME NEW t \in Tasks, \A q \in planned[t] \cap Plugins : SettledInv(t, q),
           collector.task # t,
           scheduled'[t] = scheduled[t], planned'[t] = planned[t],
           \A q \in Plugins : InHand(t, q)' <=> InHand(t, q),
           stored' = stored, analyses' = analyses,
           \A q \in Plugins : HandInv(t, q)',
           Uid(t) \in stored, \A q \in Plugins : Unwritten(t, q)
    PROVE  FreshInv(t)'
<1>1. \A q \in Plugins : Settled(t, q)' <=> Settled(t, q)
  BY DEF Settled
<1>2. \A q \in Plugins : ~ FailureInHand(t, q)
  BY DEF FailureInHand
<1>3. ASSUME NEW q \in planned[t] \cap Plugins PROVE SettledInv(t, q)'
  <2>1. Broken(t, q) => Broken(t, q)'
    BY <1>1, <1>2, DependenciesLoaded DEF Broken, Uid
  <2>2. DependenciesSettled(t, q) => DependenciesSettled(t, q)'
    BY <1>1, DependenciesLoaded DEF DependenciesSettled
  <2>3. Current(t, q) => Current(t, q)'
    BY EntryBeforeConstant DEF Current, Uid
  <2>4. SettledInv(t, q)
    OBVIOUS
  <2> QED
    BY <1>1, <2>1, <2>2, <2>3, <2>4 DEF SettledInv, Uid
<1>4. ASSUME NEW q \in Plugins PROVE Unwritten(t, q)'
  <2>1. Unwritten(t, q)
    OBVIOUS
  <2> QED
    BY <2>1, EntryBeforeConstant DEF Unwritten, Uid
<1> QED
  BY <1>3, <1>4 DEF FreshInv

\* The plugin in hand is settled.
LEMMA SettleFresh ==
    ASSUME NEW t \in Tasks, NEW p \in Plugins, FreshInv(t), Released(t)',
           \A q \in Plugins : InHand(t, q) <=> q = p,
           p \notin InOrder(scheduled[t]),
           scheduled'[t] = scheduled[t], planned'[t] = planned[t],
           Uid(t) \in stored',
           \A q \in Plugins \ {p} : analyses'[Uid(t)][q] = analyses[Uid(t)][q],
           Current(t, p)',
           collector.task = t /\ processed[t][p].result = "failed" =>
                analyses'[Uid(t)][p].result # "ok"
    PROVE  FreshInv(t)'
<1>1. \A q \in Plugins : HandInv(t, q)' /\ ~ InHand(t, q)'
  BY DEF Released, HandInv, InHand, Turn, NotRun, Newest, Handles
<1>2. \A q \in Plugins : Settled(t, q) => Settled(t, q)' /\ q # p
  BY <1>1 DEF Settled
<1>3. \A q \in Plugins : Settled(t, q)' /\ q # p => Settled(t, q)
  BY <1>1 DEF Settled
<1>4. ASSUME NEW q \in planned[t] \cap Plugins, Settled(t, q)'
      PROVE  Broken(t, q)' \/ (DependenciesSettled(t, q)' /\ Current(t, q)')
  <2>1. CASE q = p
    <3>1. DependenciesSettled(t, p)'
      <4>1. \A d \in Dependencies[p] : d \notin InOrder(scheduled[t])
        BY DEF FreshInv, HandInv, Turn
      <4>2. \A d \in Dependencies[p] : Settled(t, d)'
        BY <1>1, <4>1, DependenciesLoaded DEF Settled
      <4> QED
        BY <4>2 DEF DependenciesSettled
    <3> QED
      BY <2>1, <3>1
  <2>2. CASE q # p /\ Broken(t, q)
    <3>1. PICK d \in Dependencies[q] :
            FailureInHand(t, d) \/ (Settled(t, d) /\ analyses[Uid(t)][d].result # "ok")
      BY <2>2 DEF Broken
    <3>2. d \in Plugins
      BY DependenciesLoaded
    <3>3. CASE FailureInHand(t, d)
      <4>1. d = p
        BY <3>2, <3>3 DEF FailureInHand, InHand
      <4>2. analyses'[Uid(t)][d].result # "ok"
        BY <3>3, <4>1 DEF FailureInHand
      <4>3. Settled(t, d)'
        BY <1>1, <4>1 DEF Settled
      <4> QED
        BY <4>2, <4>3 DEF Broken, Uid
    <3>4. CASE Settled(t, d) /\ analyses[Uid(t)][d].result # "ok"
      <4>1. Settled(t, d)' /\ analyses'[Uid(t)][d].result # "ok"
        BY <1>2, <3>2, <3>4
      <4> QED
        BY <4>1 DEF Broken, Uid
    <3> QED
      BY <3>1, <3>3, <3>4
  <2>3. CASE q # p /\ DependenciesSettled(t, q) /\ Current(t, q)
    <3>1. \A d \in Dependencies[q] : Settled(t, d)' /\ d # p /\ d \in Plugins
      BY <1>2, <2>3, DependenciesLoaded DEF DependenciesSettled
    <3>2. DependenciesSettled(t, q)'
      BY <3>1 DEF DependenciesSettled
    <3>3. /\ analyses'[Uid(t)][q] = analyses[Uid(t)][q]
          /\ \A d \in Dependencies[q] : analyses'[Uid(t)][d] = analyses[Uid(t)][d]
      BY <2>3, <3>1
    <3>4. Current(t, q)'
      BY <2>3, <3>3, EntryBeforeConstant DEF Current, Uid
    <3> QED
      BY <3>2, <3>4
  <2>4. SettledInv(t, q)
    BY DEF FreshInv
  <2> QED
    BY <1>3, <1>4, <2>1, <2>2, <2>3, <2>4 DEF SettledInv
<1>5. \A q \in planned[t] \cap Plugins : SettledInv(t, q)'
  BY <1>4 DEF SettledInv, Uid
<1>6. ASSUME NEW q \in Plugins PROVE Unwritten(t, q)'
  <2>1. Unwritten(t, q) /\ ~ InHand(t, q)'
    BY <1>1 DEF FreshInv
  <2>2. q \in InOrder(scheduled[t]) => q # p
    OBVIOUS
  <2> QED
    BY <2>1, <2>2, EntryBeforeConstant DEF Unwritten, Uid
<1> QED
  BY <1>1, <1>5, <1>6 DEF FreshInv
----------------------------------------------------------------------------
(* The other tasks. *)

LEMMA AloneBefore ==
    ASSUME PhaseStep, NEW t \in Tasks, Alone(t)', Listed(t)
    PROVE  Alone(t)
<1>1. OnlyTask(t)
  BY DEF Alone, OnlyTask, PhaseStep, Begun, Uid, EndedBefore
<1> QED
  BY <1>1 DEF Alone, SoundList, Lasting, Uid

\* A task that has begun and not ended cannot stand beside the only one.
LEMMA NobodyBeside ==
    ASSUME Typed, EndedInv, NEW c \in Tasks, Alone(c), NEW t \in Tasks \ {c}, Uid(t) = Uid(c),
           Begun(t), ~ Ended(t)
    PROVE  FALSE
<1>1. Begun(c)
  BY DEF Alone, Listed, Typed, HandOver, PhaseAgrees, Begun
<1>2. t \in EndedBefore(c)
  BY DEF Alone, OnlyTask, Begun
<1> QED
  BY <1>1, <1>2 DEF EndedInv

LEMMA FrameOfFresh ==
    ASSUME Typed, EndedInv, PhaseStep, NEW c \in Tasks, FreshOf(c), Frame(c), Grows(Uid(c)),
           \/ analyses'[Uid(c)] = analyses[Uid(c)]
           \/ \E t \in Tasks \ {c} : Uid(t) = Uid(c) /\ Begun(t) /\ ~ Ended(t)
    PROVE  FreshOf(c)'
<1> SUFFICES ASSUME Alone(c)' PROVE FreshInv(c)'
  BY DEF FreshOf
<1>1. Listed(c)
  BY DEF Alone, Listed, Held, Frame, Same, Handles
<1>2. Alone(c)
  BY <1>1, AloneBefore
<1>3. FreshInv(c) /\ Lasting(Uid(c))
  BY <1>2 DEF FreshOf, Alone
<1>4. analyses'[Uid(c)] = analyses[Uid(c)]
  BY <1>2, NobodyBeside
<1>5. Uid(c) \in stored => Uid(c) \in stored'
  BY <1>3 DEF Grows
<1> QED
  BY <1>3, <1>4, <1>5, FrameFresh

LEMMA OnlyMovesFresh ==
    ASSUME Typed, [Next]_vars, EndedInv, PhaseStep, \A c \in Tasks : FreshOf(c),
           NEW t \in Tasks, OnlyMoves(t),
           \/ analyses' = analyses
           \/ /\ Begun(t) /\ ~ Ended(t)
              /\ \A u \in Objects \ {Uid(t)} : analyses'[u] = analyses[u],
           FreshOf(t)'
    PROVE  \A c \in Tasks : FreshOf(c)'
<1>1. ASSUME NEW c \in Tasks \ {t} PROVE FreshOf(c)'
  <2>1. Frame(c) /\ Uid(c) \in Objects /\ FreshOf(c)
    BY UidFacts DEF OnlyMoves
  <2>2. Grows(Uid(c))
    BY <2>1, StepGrows
  <2>3. \/ analyses'[Uid(c)] = analyses[Uid(c)]
        \/ \E o \in Tasks \ {c} : Uid(o) = Uid(c) /\ Begun(o) /\ ~ Ended(o)
    BY <2>1
  <2> QED
    BY <2>1, <2>2, <2>3, FrameOfFresh
<1> QED
  BY <1>1

\* A task that nobody holds, and that is not completed.
LEMMA UnlistedFresh ==
    ASSUME NEW t \in Tasks, ~ Held(t)', phase'[t] # "completed"
    PROVE  FreshOf(t)'
  BY DEF FreshOf, Alone, Listed
----------------------------------------------------------------------------
(* The entry points. *)

LEMMA EntryPlans ==
    ASSUME Typed, NEW t \in Tasks,
           \/ StartAnalysisOfObject(t) \/ UpdateAnalysisOfSingleObject(t)
           \/ UpdateAnalysisOfChild(t) \/ UpdateAnalysisOfRoot(t)
    PROVE  planned'[t] = InOrder(scheduled'[t])
<1>1. ASSUME NEW plan, Plan(t, plan) PROVE planned'[t] = InOrder(scheduled'[t])
  BY <1>1 DEF Plan, Typed, DataTypes
<1>2. CASE UpdateAnalysisOfRoot(t)
  BY <1>2 DEF UpdateAnalysisOfRoot, taskVars, Typed, DataTypes
<1> QED
  BY <1>1, <1>2 DEF StartAnalysisOfObject, UpdateAnalysisOfSingleObject, UpdateAnalysisOfChild

\* The entries of an object were there at the start, or a task for it wrote them.
DbInv ==
    \A u \in Objects : Lasting(u) => \A p \in Plugins : Present(analyses[u][p]) =>
        Present(StoredBefore[u][p]) \/ \E c \in Tasks : Uid(c) = u /\ Worked(c)

LEMMA Writers ==
    ASSUME Typed, ResultsInv, [Next]_vars, NEW u \in Objects, Lasting(u)
    PROVE  analyses'[u] = analyses[u] \/ \E c \in Tasks : Uid(c) = u /\ Worked(c)
<1> DEFINE Written == analyses'[u] = analyses[u] \/ \E c \in Tasks : Uid(c) = u /\ Worked(c)
<1>1. ASSUME UNCHANGED analyses PROVE Written
  BY <1>1
<1>2. CASE UNCHANGED vars
  BY <1>1, <1>2 DEF vars, dbVars
<1>3. ASSUME NEW t \in Tasks, Enter(t) \/ RequestUpdate(t) PROVE Written
  <2>1. CASE BeginUpdate(t)
    <3>1. AddObject(t) /\ phase[t] = "requested" /\ PhaseInv(t) /\ Uid(t) \in Objects
      BY <2>1, UidFacts DEF BeginUpdate, ResultsInv, ResultsOf
    <3>2. CASE Uid(t) = u
      BY <3>1, <3>2 DEF PhaseInv, AddObject
    <3>3. CASE Uid(t) # u
      BY <3>1, <3>3 DEF AddObject, Typed, DataTypes
    <3> QED
      BY <3>2, <3>3
  <2> QED
    BY <1>1, <1>3, <2>1 DEF Enter, StartAnalysisOfObject, UpdateAnalysisOfSingleObject,
        UpdateAnalysisOfChild, UpdateAnalysisOfRoot, EntryCrash, RequestUpdate, dbVars
<1>4. ASSUME NEW t \in Tasks, Held(t), \A v \in Objects \ {Uid(t)} : analyses'[v] = analyses[v]
      PROVE  Written
  BY <1>4 DEF Typed, HandOver, PhaseAgrees, Worked
<1>5. CASE RunnerStep
  <2>1. CASE TakeTask
    <3>1. PICK t \in Tasks : t = Head(processQueue) /\ Held(t)
      BY <2>1, ReaderFacts DEF TakeTask, Typed, Held
    <3>2. AddObject(t) /\ Uid(t) \in Objects
      BY <2>1, <3>1, UidFacts DEF TakeTask
    <3>3. \A v \in Objects \ {Uid(t)} : analyses'[v] = analyses[v]
      BY <3>2 DEF AddObject, Typed, DataTypes
    <3> QED
      BY <1>4, <3>1, <3>3
  <2>2. CASE StoreSkipped
    <3>1. PICK t \in Tasks, p \in Plugins : t = runner.task /\ p = runner.plugin
      BY <2>2, ReaderFacts DEF StoreSkipped, Typed, ResultInHand
    <3>2. Uid(t) \in Objects /\ processed[t][p] \in Entry /\ Held(t)
      BY <2>2, <3>1, UidFacts DEF Held, Typed, DataTypes
    <3> QED
      BY <1>4, <2>2, <3>1, <3>2, StoreAnalysisFacts DEF StoreSkipped
  <2> QED
    BY <1>1, <1>5, <2>1, <2>2 DEF RunnerStep, AbandonTask, SkipUnknownPlugin, SkipUpToDate,
        SkipFiltered, StartPlugin, RunnerCrash, dbVars
<1>6. ASSUME NEW p \in Plugins, BeginAnalysis(p) \/ CollectorStep(p) PROVE Written
  BY <1>1, <1>6 DEF BeginAnalysis, CollectorStep, Collect, CollectWithoutResult,
        CollectorCrash, dbVars
<1>7. ASSUME NEW p \in Plugins, NEW t \in Tasks, WorkerStep(p, t) PROVE Written
  BY <1>1, <1>7, WorkerMoves
<1>8. CASE StoreResult
  <2>1. PICK t \in Tasks, p \in Plugins : t = collector.task /\ p = collector.plugin
    BY <1>8, ReaderFacts DEF StoreResult, Typed, ResultInHand
  <2>2. Uid(t) \in Objects /\ processed[t][p] \in Entry /\ Held(t)
    BY <2>1, UidFacts DEF Held, Typed, DataTypes
  <2> QED
    BY <1>4, <1>8, <2>1, <2>2, StoreAnalysisFacts DEF StoreResult
<1>9. ASSUME NEW fw \in Objects, DeleteFirmware(fw) PROVE Written
  BY <1>9 DEF DeleteFirmware, Lasting
<1>10. CASE Loss
  BY <1>1, <1>10, SomeTaskLost, LossMoves DEF Typed, dbVars
<1> QED
  BY <1>2, <1>3, <1>5, <1>6, <1>7, <1>8, <1>9, <1>10 DEF Next, Loss

LEMMA DbNext ==
    ASSUME Typed, ResultsInv, PhaseStep, DbInv, [Next]_vars
    PROVE  DbInv'
<1>1. ASSUME NEW u \in Objects, Lasting(u)', NEW p \in Plugins, Present(analyses'[u][p])
      PROVE  Present(StoredBefore[u][p]) \/ \E c \in Tasks : Uid(c) = u /\ Worked(c)'
  <2>1. Lasting(u)
    BY <1>1 DEF Lasting
  <2>2. Present(StoredBefore[u][p]) \/ \E c \in Tasks : Uid(c) = u /\ Worked(c)
    BY <1>1, <2>1, Writers DEF DbInv
  <2> QED
    BY <2>2 DEF PhaseStep
<1> QED
  BY <1>1 DEF DbInv, Uid, Present

\* Where a task enters, its object has no other entries than those of before.
LEMMA EnterUnwritten ==
    ASSUME Typed, Typed', ResultsInv, DbInv, NEW t \in Tasks, OnlyMoves(t), Alone(t)',
           analyses' = analyses, ~ Worked(t), NEW p \in Plugins
    PROVE  EntryBefore(t, p) \/ ~ Present(analyses'[Uid(t)][p])
<1> SUFFICES ASSUME Present(analyses[Uid(t)][p]) PROVE EntryBefore(t, p)
  OBVIOUS
<1>1. Lasting(Uid(t)) /\ Uid(t) \in Objects
  BY UidFacts DEF Alone, Lasting, Uid
<1>2. CASE Present(StoredBefore[Uid(t)][p])
  BY <1>2 DEF EntryBefore
<1>3. CASE \E c \in Tasks : Uid(c) = Uid(t) /\ Worked(c)
  <2>1. PICK c \in Tasks : Uid(c) = Uid(t) /\ Worked(c)
    BY <1>3
  <2>2. c # t /\ phase'[c] = phase[c]
    BY <2>1 DEF OnlyMoves, Frame, Same
  <2>3. c \in EndedBefore(t)
    BY <2>1, <2>2 DEF Alone, OnlyTask, Uid, EndedBefore, Worked
  <2> QED
    BY <2>1, <2>3 DEF EntryBefore
<1> QED
  BY <1>1, <1>2, <1>3 DEF DbInv

LEMMA EnterFresh ==
    ASSUME Typed, Typed', ResultsInv, DbInv, EndedInv, PhaseStep, \A c \in Tasks : FreshOf(c),
           NEW t \in Tasks, Enter(t) \/ RequestUpdate(t)
    PROVE  \A c \in Tasks : FreshOf(c)'
<1>1. Next
  BY DEF Next
<1>2. CASE StartAnalysisOfObject(t) \/ UpdateAnalysisOfSingleObject(t)
           \/ UpdateAnalysisOfChild(t) \/ UpdateAnalysisOfRoot(t)
  <2>1. GivesBack(t, scheduled'[t]) /\ planned'[t] = InOrder(scheduled'[t])
    BY <1>2, EntryMoves, EntryPlans
  <2>2. OnlyMoves(t) /\ Released(t)' /\ analyses' = analyses
    BY <1>2, <2>1 DEF GivesBack, StartAnalysisOfObject, UpdateAnalysisOfSingleObject,
       UpdateAnalysisOfChild, UpdateAnalysisOfRoot, dbVars
  <2>3. \A p \in Plugins : HandInv(t, p)'
    BY <2>2 DEF Released, HandInv, InHand, Turn, NotRun, Newest, Handles
  <2>4. \A p \in planned'[t] \cap Plugins : SettledInv(t, p)'
    BY <2>1 DEF SettledInv, Settled
  <2>5. ASSUME Alone(t)', NEW p \in Plugins PROVE Unwritten(t, p)'
    <3>1. PhaseInv(t) /\ ~ Worked(t)
      BY <1>2 DEF ResultsInv, ResultsOf, Worked, StartAnalysisOfObject,
         UpdateAnalysisOfSingleObject, UpdateAnalysisOfChild, UpdateAnalysisOfRoot
    <3>2. Uid(t) \notin stored' => ~ Present(processed'[t][p])
      <4>1. Lasting(Uid(t))
        BY <2>5 DEF Alone, Lasting, Uid
      <4> QED
        BY <1>2, <3>1, <4>1 DEF PhaseInv, StartAnalysisOfObject, UpdateAnalysisOfSingleObject,
           UpdateAnalysisOfChild, UpdateAnalysisOfRoot, dbVars, taskVars
    <3>3. EntryBefore(t, p) \/ ~ Present(analyses'[Uid(t)][p])
      BY <2>2, <2>5, <3>1, EnterUnwritten
    <3> QED
      BY <3>2, <3>3, EntryBeforeConstant DEF Unwritten, Uid, Present
  <2>6. FreshOf(t)'
    BY <2>3, <2>4, <2>5 DEF FreshOf, FreshInv
  <2> QED
    BY <1>1, <2>2, <2>6, OnlyMovesFresh
<1>3. CASE RequestUpdate(t) \/ EntryCrash(t)
  <2>1. Leaves(t) /\ analyses' = analyses
    BY <1>3, OutsideMoves DEF RequestUpdate, EntryCrash, dbVars
  <2>2. phase'[t] \in {"requested", "crashed"}
    BY <1>3 DEF RequestUpdate, EntryCrash, Typed, HandOver, HandOverTypes
  <2>3. FreshOf(t)'
    BY <2>1, <2>2, UnlistedFresh DEF Leaves
  <2> QED
    BY <1>1, <2>1, <2>3, OnlyMovesFresh DEF Leaves
<1>4. CASE BeginUpdate(t)
  <2>1. /\ UNCHANGED <<scheduled, processed, planned, processQueue, inQueue, running,
                       outQueue, runner, collector>>
        /\ phase[t] = "requested" /\ phase'[t] = "updating" /\ AddObject(t)
        /\ \A c \in Tasks \ {t} : phase'[c] # phase[c] => phase'[c] = "excluded" /\ phase[c] = "new"
    BY <1>4 DEF BeginUpdate, taskVars, pluginVars
  <2>2. \A u \in Objects \ {Uid(t)} : analyses'[u] = analyses[u]
    BY <2>1, UidFacts DEF AddObject, Typed, DataTypes
  <2>3. ASSUME NEW c \in Tasks PROVE FreshOf(c)'
    <3>1. CASE c # t /\ phase'[c] = phase[c]
      <4>1. Frame(c) /\ Uid(c) \in Objects /\ FreshOf(c)
        BY <2>1, <3>1, UidFacts DEF Frame, Same, Queued
      <4>2. Grows(Uid(c))
        BY <1>1, <4>1, StepGrows
      <4>3. \/ analyses'[Uid(c)] = analyses[Uid(c)]
            \/ \E o \in Tasks \ {c} : Uid(o) = Uid(c) /\ Begun(o) /\ ~ Ended(o)
        BY <2>1, <2>2, <3>1, <4>1 DEF Begun, Ended
      <4> QED
        BY <4>1, <4>2, <4>3, FrameOfFresh
    <3>2. CASE c = t \/ phase'[c] # phase[c]
      <4>1. phase[c] # "active" /\ phase'[c] \in {"updating", "excluded"}
        BY <2>1, <3>2
      <4>2. ~ Held(c)
        BY <4>1 DEF Typed, HandOver, PhaseAgrees
      <4>3. ~ Held(c)'
        BY <2>1, <4>2 DEF Held, Queued, Handles
      <4> QED
        BY <4>1, <4>3, UnlistedFresh
    <3> QED
      BY <3>1, <3>2
  <2> QED
    BY <2>3
<1> QED
  BY <1>2, <1>3, <1>4 DEF Enter
----------------------------------------------------------------------------
(* The schedule process. *)

LEMMA HeldFacts ==
    ASSUME Typed, NEW t \in Tasks, Held(t)
    PROVE  Begun(t) /\ ~ Ended(t) /\ Listed(t)
  BY DEF Typed, HandOver, PhaseAgrees, Begun, Ended, Listed

\* What the invariants say of a task in hand, if it is the only one for its object.
LEMMA AloneFacts ==
    ASSUME Typed, ResultsInv, PhaseStep, NEW t \in Tasks, FreshOf(t), Held(t), Alone(t)'
    PROVE  /\ SoundList(t) /\ Lasting(Uid(t)) /\ FreshInv(t)
           /\ ListInv(t) /\ StoredInv(t)
           /\ (\E p \in Plugins : InHand(t, p)) => Uid(t) \in stored
<1>1. Alone(t) /\ FreshInv(t)
  BY HeldFacts, AloneBefore DEF FreshOf
<1>2. SoundList(t) /\ Lasting(Uid(t))
  BY <1>1 DEF Alone
<1>3. ListInv(t) /\ StoredInv(t)
  BY <1>2 DEF ResultsInv, ResultsOf
<1> QED
  BY <1>1, <1>2, <1>3 DEF StoredInv

LEMMA TakeTaskFresh ==
    ASSUME Typed, Typed', ResultsInv, EndedInv, PhaseStep, \A c \in Tasks : FreshOf(c), TakeTask
    PROVE  \A c \in Tasks : FreshOf(c)'
<1>1. PICK t \in Tasks : t = Head(processQueue)
  BY ReaderFacts DEF TakeTask, Typed
<1>2. /\ OnlyMoves(t) /\ Queued(t) /\ Released(t)
      /\ ~ Queued(t)' /\ runner'.task = t /\ collector'.task # t
      /\ \A p \in Plugins : ~ Handles(p, t)'
  BY <1>1, TakeTaskMoves
<1>3. PICK p \in Names :
        /\ runner' = At("decide", t, p) /\ p \in InOrder(scheduled[t])
        /\ InOrder(scheduled[t]) = InOrder(scheduled'[t]) \cup {p}
        /\ Distinct(scheduled[t]) => Distinct(scheduled'[t]) /\ p \notin InOrder(scheduled'[t])
        /\ DependencyPreserving(scheduled[t]) =>
            /\ DependencyPreserving(scheduled'[t])
            /\ Dependencies[p] \cap InOrder(scheduled[t]) = {}
  BY <1>1, TakeTaskPops
<1>4. PICK rest : scheduled'[t] = rest
  OBVIOUS
<1>5. /\ AddObject(t) /\ planned' = planned /\ Held(t) /\ Next
      /\ runner'.plugin = p /\ runner'.pc = "decide"
  BY <1>1, <1>2, <1>3 DEF TakeTask, At, Held, Next, RunnerStep
<1>6. ASSUME Alone(t)' PROVE FreshInv(t)'
  <2>1. FreshInv(t) /\ ListInv(t) /\ Lasting(Uid(t))
    BY <1>5, <1>6, AloneFacts
  <2>2. /\ InOrder(scheduled[t]) = InOrder(rest) \cup {p} /\ p \notin InOrder(rest)
        /\ p \in Plugins
        /\ \A d \in Dependencies[p] : d \notin InOrder(scheduled[t])
    BY <1>3, <1>4, <2>1 DEF ListInv
  <2>3. \A q \in Plugins : ~ InHand(t, q) /\ (InHand(t, q)' <=> q = p)
    BY <1>2, <1>5 DEF Released, InHand
  <2>4. \A q \in Plugins : Settled(t, q)' <=> Settled(t, q)
    BY <1>4, <2>2, <2>3 DEF Settled
  <2>5. ASSUME NEW q \in Plugins PROVE HandInv(t, q)'
    <3>1. Turn(t, q)'
      BY <1>4, <2>2, <2>3 DEF Turn
    <3>2. NotRun(t, q)' /\ Newest(t, q)'
      BY <1>2, <1>5 DEF NotRun, Newest, Handles
    <3> QED
      BY <3>1, <3>2 DEF HandInv
  <2>6. ASSUME NEW q \in planned[t] \cap Plugins, Settled(t, q)
        PROVE  Broken(t, q)' \/ (DependenciesSettled(t, q)' /\ Current(t, q)')
    <3>1. SettledInv(t, q)
      BY <2>1 DEF FreshInv
    <3>2. Uid(t) \in stored
      BY <2>6, <3>1 DEF SettledInv, Settled
    <3>3. analyses' = analyses
      BY <1>5, <3>2 DEF AddObject
    <3>4. CASE Broken(t, q)
      <4>1. PICK d \in Dependencies[q] :
                FailureInHand(t, d) \/ (Settled(t, d) /\ analyses[Uid(t)][d].result # "ok")
        BY <3>4 DEF Broken
      <4>2. ~ FailureInHand(t, d) /\ d \in Plugins
        BY <1>2, DependenciesLoaded DEF FailureInHand, Released
      <4>3. Settled(t, d)' /\ analyses'[Uid(t)][d].result # "ok"
        BY <2>4, <3>3, <4>1, <4>2
      <4> QED
        BY <4>3 DEF Broken, Uid
    <3>5. CASE DependenciesSettled(t, q) /\ Current(t, q)
      BY <2>4, <3>3, <3>5, DependenciesLoaded, EntryBeforeConstant DEF DependenciesSettled, Current, Uid
    <3> QED
      BY <2>6, <3>1, <3>4, <3>5 DEF SettledInv
  <2>7. Uid(t) \in stored'
    BY <1>5 DEF AddObject
  <2>8. \A q \in planned'[t] \cap Plugins : SettledInv(t, q)'
    BY <1>5, <2>4, <2>6, <2>7 DEF SettledInv, Uid
  <2>9. ASSUME NEW q \in Plugins PROVE Unwritten(t, q)'
    <3>1. Unwritten(t, q) /\ processed' = processed
      BY <2>1 DEF FreshInv, TakeTask
    <3>2. analyses'[Uid(t)][q] = analyses[Uid(t)][q] \/ ~ Present(analyses'[Uid(t)][q])
      <4>1. Uid(t) \in Objects
        BY UidFacts
      <4>2. CASE Uid(t) \in stored
        BY <1>5, <4>2 DEF AddObject
      <4>3. CASE Uid(t) \notin stored
        <5>1. analyses'[Uid(t)] = processed[t]
          BY <1>5, <4>1, <4>3 DEF AddObject, Typed, DataTypes
        <5> QED
          BY <3>1, <4>3, <5>1 DEF Unwritten
      <4> QED
        BY <4>2, <4>3
    <3>3. q \in InOrder(rest) \/ InHand(t, q)' => q \in InOrder(scheduled[t])
      BY <2>2, <2>3
    <3> QED
      BY <1>4, <2>7, <3>1, <3>2, <3>3, EntryBeforeConstant DEF Unwritten, Uid, Present
  <2> QED
    BY <2>5, <2>8, <2>9 DEF FreshInv
<1>7. FreshOf(t)'
  BY <1>6 DEF FreshOf
<1>8. \A u \in Objects \ {Uid(t)} : analyses'[u] = analyses[u]
  BY <1>5, UidFacts DEF AddObject, Typed, DataTypes
<1> QED
  BY <1>2, <1>5, <1>7, <1>8, HeldFacts, OnlyMovesFresh

LEMMA UpToDateCurrent ==
    ASSUME Typed, NEW t \in Tasks, NEW p \in Plugins, UpToDate(Uid(t), p)
    PROVE  Current(t, p)
<1>1. \A d \in Dependencies[p] : ~ (analyses[Uid(t)][p].date < analyses[Uid(t)][d].date)
  BY DEF UpToDate, DependencyNewer
<1>2. \A d \in Plugins : analyses[Uid(t)][d].date \in Nat
  BY UidFacts DEF Typed, DataTypes, Entry
<1>3. \A d \in Dependencies[p] : analyses[Uid(t)][d].date <= analyses[Uid(t)][p].date
  BY <1>1, <1>2, DependenciesLoaded
<1> QED
  BY <1>3 DEF UpToDate, VersionCurrent, Current

LEMMA RunnerGivesFresh ==
    ASSUME Typed, Typed', ResultsInv, EndedInv, PhaseStep, \A c \in Tasks : FreshOf(c),
           SkipUnknownPlugin \/ SkipUpToDate \/ StoreSkipped
    PROVE  \A c \in Tasks : FreshOf(c)'
<1>1. PICK t \in Tasks : t = runner.task
  BY ReaderFacts DEF SkipUnknownPlugin, SkipUpToDate, StoreSkipped, Typed
<1>2. /\ GivesBack(t, scheduled[t]) /\ scheduled' = scheduled /\ planned' = planned
      /\ OnlyMoves(t) /\ Released(t)'
  BY <1>1, RunnerGives DEF GivesBack
<1>3. Next /\ Held(t) /\ collector.task # t /\ stored' = stored /\ Uid(t) \in Objects
  BY <1>1, UidFacts DEF Next, RunnerStep, Held, Typed, HandOver, Single, SkipUnknownPlugin,
     SkipUpToDate, StoreSkipped, dbVars
<1>4. ASSUME Alone(t)' PROVE FreshInv(t)'
  <2>1. SoundList(t) /\ FreshInv(t) /\ ListInv(t)
        /\ ((\E p \in Plugins : InHand(t, p)) => Uid(t) \in stored)
    BY <1>3, <1>4, AloneFacts
  <2>2. PICK p \in Plugins :
            /\ p = runner.plugin
            /\ \A d \in Plugins : InHand(t, d) <=> d = p
    BY <1>1, <2>1, RunnerFacts
  <2>3. Uid(t) \in stored' /\ p \notin InOrder(scheduled[t])
    BY <1>3, <2>1, <2>2 DEF ListInv
  <2>4. CASE SkipUnknownPlugin
    BY <2>2, <2>4 DEF SkipUnknownPlugin
  <2>5. CASE SkipUpToDate
    <3>1. UpToDate(Uid(t), p) /\ analyses' = analyses
      BY <1>1, <2>2, <2>5 DEF SkipUpToDate, dbVars
    <3>2. Current(t, p)
      BY <1>3, <3>1, UpToDateCurrent
    <3>3. Current(t, p)'
      BY <3>1, <3>2, EntryBeforeConstant DEF Current, Uid
    <3> QED
      BY <1>2, <1>3, <2>1, <2>2, <2>3, <3>1, <3>3, SettleFresh
  <2>6. CASE StoreSkipped
    <3>1. /\ runner.pc = "store" /\ StoreAnalysis(Uid(t), p, processed[t][p])
          /\ processed[t][p] \in Entry
      BY <1>1, <2>2, <2>6 DEF StoreSkipped, Typed, DataTypes
    <3>2. processed[t][p].result # "ok"
      BY <1>1, <2>1, <2>2, <3>1 DEF FreshInv, HandInv, NotRun
    <3>3. /\ \A q \in Plugins \ {p} : analyses'[Uid(t)][q] = analyses[Uid(t)][q]
          /\ analyses'[Uid(t)][p].result = processed[t][p].result
      BY <1>3, <2>3, <3>1, <3>2, StoreAnalysisFacts
    <3>4. Current(t, p)'
      BY <3>2, <3>3, EntryBeforeConstant DEF Current, Uid
    <3> QED
      BY <1>2, <1>3, <2>1, <2>2, <2>3, <3>3, <3>4, SettleFresh
  <2> QED
    BY <2>4, <2>5, <2>6
<1>5. FreshOf(t)'
  BY <1>4 DEF FreshOf
<1>6. \A u \in Objects \ {Uid(t)} : analyses'[u] = analyses[u]
  <2>1. CASE StoreSkipped
    <3>1. PICK p \in Plugins : p = runner.plugin
      BY <2>1 DEF StoreSkipped, Typed, ResultInHand
    <3> QED
      BY <1>1, <1>3, <2>1, <3>1, StoreAnalysisFacts DEF StoreSkipped, Typed, DataTypes
  <2> QED
    BY <2>1 DEF SkipUnknownPlugin, SkipUpToDate, dbVars
<1> QED
  BY <1>2, <1>3, <1>5, <1>6, HeldFacts, OnlyMovesFresh

LEMMA SkipFilteredFresh ==
    ASSUME Typed, Typed', ResultsInv, EndedInv, PhaseStep, \A c \in Tasks : FreshOf(c),
           SkipFiltered
    PROVE  \A c \in Tasks : FreshOf(c)'
<1>1. PICK t \in Tasks, p \in Plugins : t = runner.task /\ p = runner.plugin
  BY ReaderFacts DEF SkipFiltered, Typed
<1>2. /\ OnlyMoves(t) /\ runner' = At("store", t, p) /\ collector' = collector
      /\ scheduled' = scheduled /\ planned' = planned /\ collector.task # t
      /\ \A q \in Plugins : ~ Handles(q, t) /\ ~ Handles(q, t)'
  BY <1>1, SkipFilteredMoves
<1>3. /\ runner'.task = t /\ runner'.plugin = p /\ Held(t) /\ Next
      /\ stored' = stored /\ analyses' = analyses
  BY <1>1, <1>2 DEF At, Held, Next, RunnerStep, SkipFiltered, dbVars
<1>4. /\ WithFileType(t) \in [Plugins -> Entry] /\ Uid(t) \in Objects
      /\ OtherResult("skipped", Uid(t), p).result = "skipped"
  BY UidFacts, EntryFacts, WithFileTypeFacts DEF Typed
<1>5. processed'[t][p].result = "skipped"
  BY <1>1, <1>4 DEF SkipFiltered, Typed, DataTypes
<1>6. ASSUME Alone(t)' PROVE FreshInv(t)'
  <2>2. \A q \in Plugins : /\ InHand(t, q) <=> q = p
                           /\ InHand(t, q)' <=> q = p
    BY <1>1, <1>2, <1>3 DEF InHand
  <2>1. SoundList(t) /\ FreshInv(t) /\ Uid(t) \in stored
    BY <1>3, <1>6, <2>2, AloneFacts
  <2>3. ASSUME NEW q \in Plugins PROVE HandInv(t, q)'
    <3>1. Turn(t, q)'
      BY <1>2, <2>1, <2>2 DEF FreshInv, HandInv, Turn
    <3>2. NotRun(t, q)'
      BY <1>3, <1>5 DEF NotRun
    <3>3. Newest(t, q)'
      BY <1>2 DEF Newest, Handles
    <3> QED
      BY <3>1, <3>2, <3>3 DEF HandInv
  <2> QED
    BY <1>2, <1>3, <2>1, <2>2, <2>3, HandFresh DEF FreshInv
<1>7. FreshOf(t)'
  BY <1>6 DEF FreshOf
<1> QED
  BY <1>2, <1>3, <1>7, OnlyMovesFresh

LEMMA StartPluginFresh ==
    ASSUME Typed, Typed', ResultsInv, ResultsInv', EntriesInv', EndedInv, PhaseStep,
           \A c \in Tasks : FreshOf(c), StartPlugin
    PROVE  \A c \in Tasks : FreshOf(c)'
<1>1. PICK t \in Tasks, p \in Plugins : t = runner.task /\ p = runner.plugin
  BY ReaderFacts DEF StartPlugin, Typed
<1>2. /\ OnlyMoves(t) /\ runner'.task # t /\ collector'.task # t /\ collector.task # t
      /\ \A q \in Plugins : ~ Handles(q, t) /\ (Handles(q, t)' <=> q = p)
      /\ \A q \in Plugins : t \notin running'[q]
      /\ \A q \in Plugins \ {p} : t \notin InOrder(inQueue'[q]) /\ t \notin InOrder(outQueue'[q])
      /\ \/ t \notin InOrder(outQueue'[p]) /\ t \in InOrder(inQueue'[p]) /\ outQueue' = outQueue
         \/ t \notin InOrder(inQueue'[p]) /\ t \in InOrder(outQueue'[p]) /\ inQueue' = inQueue
  BY <1>1, StartPluginMoves
<1>3. /\ Held(t) /\ Next /\ stored' = stored /\ analyses' = analyses
      /\ scheduled' = scheduled /\ planned' = planned
  BY <1>1 DEF Held, Next, RunnerStep, StartPlugin, dbVars
<1>4. PICK results :
        /\ AddJob(t, p, results) /\ runner.pc = "decide"
        /\ results = (IF AsksFilter(p) THEN WithFileType(t) ELSE processed[t])
        /\ processed' = [processed EXCEPT ![t] = results]
  BY <1>1 DEF StartPlugin
<1>5. /\ processed'[t] = results
      /\ \A d \in Plugins : Present(processed[t][d]) => results[d] = processed[t][d]
  BY <1>4, WithFileTypeFacts DEF Typed, DataTypes
<1>6. ASSUME Alone(t)' PROVE FreshInv(t)'
  <2>2. \A q \in Plugins : /\ InHand(t, q) <=> q = p
                           /\ InHand(t, q)' <=> q = p
    BY <1>1, <1>2 DEF InHand
  <2>1. SoundList(t) /\ FreshInv(t) /\ Uid(t) \in stored
    BY <1>3, <1>6, <2>2, AloneFacts
  <2>3. ASSUME t \in InOrder(outQueue'[p]) PROVE processed'[t][p].result # "ok"
    <3>1. AllFine(t, p)
      BY <1>1, <1>4, <2>1, RunnerFacts DEF RunnerInv
    <3>2. ImageOnly(t, p)
      <4>1. CASE ~ (DependenciesUnfulfilled(results, p) \/ ImageOnly(t, p))
        BY <1>2, <1>4, <2>3, <4>1 DEF AddJob, Handles
      <4>2. CASE DependenciesUnfulfilled(results, p)
        <5>1. PICK d \in Dependencies[p] : ~ Present(results[d])
          BY <4>2 DEF DependenciesUnfulfilled
        <5>2. Fine(t, d) /\ d \in Plugins
          BY <3>1, DependenciesLoaded DEF AllFine
        <5>3. ImageOnly(t, d)
          BY <1>5, <5>1, <5>2 DEF Fine
        <5> QED
          BY <5>3, ImageOnlyFacts
      <4> QED
        BY <4>1, <4>2
    <3>3. processed'[t][p].result = "ok" => p \in Recursive \/ Roots[Uid(t)] = {}
      BY DEF EntriesInv, Sensible, Uid
    <3> QED
      BY <3>2, <3>3 DEF ImageOnly
  <2>4. ASSUME NEW q \in Plugins PROVE HandInv(t, q)'
    <3>1. Turn(t, q)'
      BY <1>3, <2>1, <2>2 DEF FreshInv, HandInv, Turn
    <3>2. NotRun(t, q)'
      BY <1>2 DEF NotRun
    <3>3. Newest(t, q)'
      BY <1>2, <2>3 DEF Newest
    <3> QED
      BY <3>1, <3>2, <3>3 DEF HandInv
  <2> QED
    BY <1>2, <1>3, <2>1, <2>2, <2>4, HandFresh DEF FreshInv
<1>7. FreshOf(t)'
  BY <1>6 DEF FreshOf
<1> QED
  BY <1>2, <1>3, <1>7, OnlyMovesFresh

LEMMA RunnerFresh ==
    ASSUME Typed, Typed', ResultsInv, ResultsInv', EntriesInv', EndedInv, PhaseStep,
           \A c \in Tasks : FreshOf(c), RunnerStep
    PROVE  \A c \in Tasks : FreshOf(c)'
<1>1. Next
  BY DEF Next
<1>2. CASE AbandonTask
  <2>1. PICK t \in Tasks : t = Head(processQueue)
    BY <1>2, ReaderFacts DEF AbandonTask, Typed
  <2>2. Leaves(t) /\ phase'[t] = "abandoned" /\ analyses' = analyses
    BY <1>2, <2>1, AbandonTaskMoves DEF AbandonTask, Typed, HandOver, HandOverTypes, dbVars
  <2>3. FreshOf(t)'
    BY <2>2, UnlistedFresh DEF Leaves
  <2> QED
    BY <1>1, <2>2, <2>3, OnlyMovesFresh DEF Leaves
<1>3. CASE RunnerCrash
  <2>1. PICK t \in Tasks : t = runner.task
    BY <1>3, ReaderFacts DEF RunnerCrash, Typed
  <2>2. Leaves(t) /\ phase'[t] = "active" /\ analyses' = analyses
    BY <1>3, <2>1, RunnerCrashMoves DEF RunnerCrash, Typed, HandOver, PhaseAgrees, Held, dbVars
  <2>3. FreshOf(t)'
    BY <2>2, UnlistedFresh DEF Leaves
  <2> QED
    BY <1>1, <2>2, <2>3, OnlyMovesFresh DEF Leaves
<1> QED
  BY <1>2, <1>3, TakeTaskFresh, RunnerGivesFresh, SkipFilteredFresh, StartPluginFresh
     DEF RunnerStep
----------------------------------------------------------------------------
(* The workers and the result collector. *)

LEMMA AtPluginFresh ==
    ASSUME Typed, Typed', ResultsInv, EndedInv, PhaseStep, [Next]_vars,
           \A c \in Tasks : FreshOf(c),
           NEW t \in Tasks, NEW p \in Plugins, OnlyMoves(t), AtPlugin(t, p), AtPlugin(t, p)',
           UNCHANGED <<scheduled, planned, stored, analyses>>,
           FreshInv(t) => \A q \in Plugins : Newest(t, q)'
    PROVE  \A c \in Tasks : FreshOf(c)'
<1>1. /\ Held(t) /\ collector.task # t /\ runner'.task # t /\ collector'.task # t
      /\ \A q \in Plugins : InHand(t, q) <=> q = p
      /\ \A q \in Plugins : InHand(t, q)' <=> q = p
  BY DEF AtPlugin, Held, InHand
<1>2. ASSUME Alone(t)' PROVE FreshInv(t)'
  <2>1. FreshInv(t) /\ Uid(t) \in stored
    BY <1>1, <1>2, AloneFacts
  <2>2. ASSUME NEW q \in Plugins PROVE HandInv(t, q)'
    <3>1. Turn(t, q)'
      BY <1>1, <2>1 DEF FreshInv, HandInv, Turn
    <3>2. NotRun(t, q)'
      BY <1>1 DEF NotRun
    <3> QED
      BY <2>1, <3>1, <3>2 DEF HandInv
  <2> QED
    BY <1>1, <2>1, <2>2, HandFresh DEF FreshInv
<1>3. FreshOf(t)'
  BY <1>2 DEF FreshOf
<1> QED
  BY <1>3, OnlyMovesFresh

LEMMA BeginAnalysisFresh ==
    ASSUME Typed, Typed', ResultsInv, EndedInv, PhaseStep, \A c \in Tasks : FreshOf(c),
           NEW p \in Plugins, BeginAnalysis(p)
    PROVE  \A c \in Tasks : FreshOf(c)'
<1>1. PICK t \in Tasks : t = Head(inQueue[p])
  BY ReaderFacts DEF BeginAnalysis, Typed
<1>2. /\ OnlyMoves(t) /\ AtPlugin(t, p) /\ AtPlugin(t, p)'
      /\ \A q \in Plugins :
            /\ t \notin InOrder(inQueue'[q]) /\ t \notin InOrder(outQueue'[q])
            /\ t \in running'[q] <=> q = p
  BY <1>1, BeginAnalysisMoves
<1>3. /\ processed'[t][p] = Empty /\ Next
      /\ UNCHANGED <<scheduled, planned, stored, analyses>>
  BY <1>1 DEF BeginAnalysis, Typed, DataTypes, Next, dbVars
<1>4. \A q \in Plugins : Newest(t, q)'
  <2>1. processed'[t][p].result # "ok" /\ collector'.task # t
    BY <1>2, <1>3 DEF Empty, Absent, AtPlugin
  <2> QED
    BY <1>2, <2>1 DEF Newest
<1> QED
  BY <1>2, <1>3, <1>4, AtPluginFresh

LEMMA WorkerFresh ==
    ASSUME Typed, Typed', ResultsInv, EntriesInv, EndedInv, PhaseStep,
           \A c \in Tasks : FreshOf(c), NEW p \in Plugins, NEW t \in Tasks, WorkerStep(p, t)
    PROVE  \A c \in Tasks : FreshOf(c)'
<1>1. /\ OnlyMoves(t) /\ AtPlugin(t, p) /\ AtPlugin(t, p)' /\ t \in running[p]
      /\ \A q \in Plugins \ {p} : t \notin running'[q] /\ t \notin InOrder(outQueue'[q])
      /\ UNCHANGED <<scheduled, planned, stored, analyses>>
  BY WorkerMoves
<1>2. Next /\ collector'.task # t /\ Uid(t) \in Objects
  BY <1>1, UidFacts DEF Next, AtPlugin
<1>3. ASSUME FreshInv(t), processed'[t][p].result = "ok"
      PROVE  /\ Version[p] <= processed'[t][p].version
             /\ SystemVersion[p] <= processed'[t][p].system
             /\ \A q \in Plugins : analyses[Uid(t)][q].date <= processed'[t][p].date
  <2>1. CASE Analyze(p, t)
    <3>1. processed'[t][p] = OkResult(Uid(t), p)
      BY <2>1 DEF Analyze, Typed, DataTypes
    <3>2. /\ processed'[t][p].version = Version[p]
          /\ processed'[t][p].system = SystemVersion[p]
          /\ processed'[t][p].date = clock[Uid(t)] + 1
      BY <3>1 DEF OkResult, Now
    <3>3. ASSUME NEW q \in Plugins PROVE analyses[Uid(t)][q].date <= clock[Uid(t)] + 1
      <4>1. /\ analyses[Uid(t)][q].date \in Nat /\ clock[Uid(t)] \in Nat
            /\ analyses[Uid(t)][q].date <= clock[Uid(t)]
        BY <1>2 DEF Typed, DataTypes, Entry, EntriesInv, Sensible
      <4> QED
        BY <4>1
    <3>4. Version[p] <= Version[p] /\ SystemVersion[p] <= SystemVersion[p]
      BY VersionAssumption
    <3> QED
      BY <3>2, <3>3, <3>4
  <2>2. CASE FinishAnalysis(p, t)
    <3>1. processed' = processed
      BY <2>2 DEF FinishAnalysis, taskVars
    <3>2. Newest(t, p)
      BY <1>3 DEF FreshInv, HandInv
    <3> QED
      BY <1>1, <1>3, <3>1, <3>2 DEF Newest
  <2>3. CASE FailAnalysis(p, t)
    <3>1. processed'[t][p] = Empty
      BY <2>3 DEF FailAnalysis, Typed, DataTypes
    <3> QED
      BY <1>3, <3>1 DEF Empty
  <2> QED
    BY <2>1, <2>2, <2>3 DEF WorkerStep
<1>4. FreshInv(t) => \A q \in Plugins : Newest(t, q)'
  BY <1>1, <1>2, <1>3 DEF Newest, Uid
<1> QED
  BY <1>1, <1>2, <1>4, AtPluginFresh

LEMMA CollectFresh ==
    ASSUME Typed, Typed', ResultsInv, EndedInv, PhaseStep, \A c \in Tasks : FreshOf(c),
           NEW p \in Plugins, Collect(p)
    PROVE  \A c \in Tasks : FreshOf(c)'
<1>1. PICK t \in Tasks : t = Head(outQueue[p])
  BY ReaderFacts DEF Collect, Typed
<1>2. /\ OnlyMoves(t) /\ AtPlugin(t, p) /\ t \in InOrder(outQueue[p])
      /\ collector' = At("store", t, p)
      /\ ~ Queued(t)' /\ runner'.task # t
      /\ \A q \in Plugins : ~ Handles(q, t)'
  BY <1>1, CollectMoves
<1>3. /\ collector'.task = t /\ collector'.plugin = p /\ collector.task # t
      /\ UNCHANGED <<planned, stored, analyses>>
      /\ Next /\ Held(t) /\ Uid(t) \in Objects
  <2>1. collector'.task = t /\ collector'.plugin = p
    BY <1>2 DEF At
  <2>2. collector.task # t /\ Held(t)
    BY <1>2 DEF AtPlugin, Held
  <2>3. UNCHANGED <<planned, stored, analyses>>
    BY DEF Collect, dbVars
  <2>4. Next
    BY DEF Next, CollectorStep
  <2> QED
    BY <2>1, <2>2, <2>3, <2>4, UidFacts
<1>4. \A q \in Plugins : /\ InHand(t, q) <=> q = p
                         /\ InHand(t, q)' <=> q = p
  BY <1>2, <1>3 DEF InHand, AtPlugin
<1>5. ASSUME Alone(t)' PROVE FreshInv(t)'
  <2>1. FreshInv(t) /\ ListInv(t) /\ Uid(t) \in stored
    BY <1>3, <1>4, <1>5, AloneFacts
  <2>2. p \notin Dependencies[p] /\ \A d \in Dependencies[p] : d \notin InOrder(scheduled[t])
    BY <1>4, <2>1 DEF FreshInv, HandInv, Turn
  <2>3. CASE scheduled'[t] = scheduled[t] /\ processed'[t] = processed[t]
    <3>1. Newest(t, p)
      BY <2>1 DEF FreshInv, HandInv
    <3>2. ASSUME NEW q \in Plugins PROVE HandInv(t, q)'
      <4>1. Turn(t, q)'
        BY <1>4, <2>2, <2>3 DEF Turn
      <4>2. NotRun(t, q)'
        BY <1>2 DEF NotRun
      <4>3. Newest(t, q)'
        BY <1>2, <1>3, <2>3, <3>1 DEF Newest, Handles, Uid
      <4> QED
        BY <4>1, <4>2, <4>3 DEF HandInv
    <3> QED
      BY <1>3, <1>4, <2>1, <2>3, <3>2, HandFresh DEF FreshInv
  <2>4. ASSUME NEW dependents, dependents = Dependents(p, scheduled[t]),
               scheduled'[t] = Without(scheduled[t], dependents),
               \A q \in Plugins : processed'[t][q] =
                        IF q \in dependents THEN OtherResult("unscheduled", Uid(t), q)
                        ELSE IF q = p THEN OtherResult("failed", Uid(t), p)
                        ELSE processed[t][q]
        PROVE  FreshInv(t)'
    <3>1. /\ scheduled[t] \in Seq(Names) /\ p \notin InOrder(scheduled[t])
          /\ Distinct(scheduled[t]) /\ InOrder(scheduled[t]) \subseteq Plugins
      BY <1>4, <2>1 DEF ListInv, Typed, DataTypes
    <3>2. InOrder(scheduled'[t]) = InOrder(scheduled[t]) \ dependents
      BY <2>4, <3>1, WithoutFacts
    <3>3. /\ \A q : q \in dependents <=> q \in InOrder(scheduled[t]) /\ p \in Dependencies[q]
          /\ p \notin dependents
      BY <2>4, <3>1 DEF Dependents
    <3>4. processed'[t][p].result = "failed"
      BY <1>3, <2>4, <3>3, EntryFacts DEF Typed
    <3>5. FailureInHand(t, p)'
      BY <1>3, <3>1, <3>2, <3>4 DEF FailureInHand
    <3>6. /\ \A q \in Plugins : Settled(t, q) => Settled(t, q)'
          /\ \A q \in Plugins : Settled(t, q)' => Settled(t, q) \/ q \in dependents
      BY <1>4, <3>2 DEF Settled
    <3>7. ASSUME NEW q \in planned[t] \cap Plugins, Settled(t, q)'
          PROVE  Broken(t, q)' \/ (DependenciesSettled(t, q)' /\ Current(t, q)')
      <4>1. CASE q \in dependents
        BY <3>3, <3>5, <4>1 DEF Broken
      <4>2. CASE Settled(t, q) /\ Broken(t, q)
        <5>1. PICK d \in Dependencies[q] :
                FailureInHand(t, d) \/ (Settled(t, d) /\ analyses[Uid(t)][d].result # "ok")
          BY <4>2 DEF Broken
        <5>2. d \in Plugins /\ ~ FailureInHand(t, d)
          BY <1>3, DependenciesLoaded DEF FailureInHand
        <5>3. Settled(t, d)' /\ analyses'[Uid(t)][d].result # "ok"
          BY <1>3, <3>6, <5>1, <5>2
        <5> QED
          BY <5>3 DEF Broken, Uid
      <4>3. CASE Settled(t, q) /\ DependenciesSettled(t, q) /\ Current(t, q)
        BY <1>3, <3>6, <4>3, DependenciesLoaded, EntryBeforeConstant DEF DependenciesSettled, Current, Uid
      <4>4. SettledInv(t, q)
        BY <2>1 DEF FreshInv
      <4> QED
        BY <3>6, <3>7, <4>1, <4>2, <4>3, <4>4 DEF SettledInv
    <3>8. \A q \in planned'[t] \cap Plugins : SettledInv(t, q)'
      BY <1>3, <2>1, <3>7 DEF SettledInv, Uid
    <3>9. ASSUME NEW q \in Plugins PROVE HandInv(t, q)'
      <4>1. Turn(t, q)'
        BY <1>4, <2>2, <3>2 DEF Turn
      <4>2. NotRun(t, q)'
        BY <1>2 DEF NotRun
      <4>3. Newest(t, q)'
        BY <1>2, <1>3, <3>4 DEF Newest, Handles
      <4> QED
        BY <4>1, <4>2, <4>3 DEF HandInv
    <3>10. ASSUME NEW q \in Plugins PROVE Unwritten(t, q)'
      <4>1. Unwritten(t, q)
        BY <2>1 DEF FreshInv
      <4> QED
        BY <1>3, <1>4, <2>1, <3>2, <4>1, EntryBeforeConstant DEF Unwritten, Uid
    <3> QED
      BY <3>8, <3>9, <3>10 DEF FreshInv
  <2> QED
    BY <1>1, <2>3, <2>4, CollectData
<1>6. FreshOf(t)'
  BY <1>5 DEF FreshOf
<1> QED
  BY <1>2, <1>3, <1>6, OnlyMovesFresh

LEMMA CollectWithoutResultFresh ==
    ASSUME Typed, Typed', ResultsInv, EntriesInv, EndedInv, PhaseStep,
           \A c \in Tasks : FreshOf(c), NEW p \in Plugins, CollectWithoutResult(p)
    PROVE  \A c \in Tasks : FreshOf(c)'
<1>1. PICK t \in Tasks : t = Head(outQueue[p])
  BY ReaderFacts DEF CollectWithoutResult, Typed
<1>2. /\ GivesBack(t, scheduled[t]) /\ t \in InOrder(outQueue[p])
      /\ ~ Present(processed[t][p])
      /\ UNCHANGED <<scheduled, processed, planned, stored, analyses>>
  BY <1>1, CollectWithoutResultMoves DEF CollectWithoutResult, taskVars, dbVars
<1>3. AtPlugin(t, p)
  BY <1>2 DEF Typed, HandOver, Single, AtPlugin, Handles
<1>4. /\ Next /\ Held(t) /\ OnlyMoves(t) /\ Released(t)' /\ Uid(t) \in Objects
      /\ collector.task # t
  BY <1>2, <1>3, UidFacts DEF Next, CollectorStep, Held, AtPlugin, GivesBack
<1>5. ASSUME Alone(t)' PROVE FreshInv(t)'
  <2>1. /\ SoundList(t) /\ FreshInv(t)
        /\ ((\E q \in Plugins : InHand(t, q)) => Uid(t) \in stored)
    BY <1>4, <1>5, AloneFacts
  <2>2. /\ PluginInv(t, p) /\ ListInv(t)
        /\ \A q \in Plugins : InHand(t, q) <=> q = p
    BY <1>3, <2>1, PluginFacts
  <2>3. ImageOnly(t, p)
    BY <1>2, <2>2 DEF PluginInv, Fine
  <2>4. Sensible(Uid(t), p, analyses[Uid(t)][p], clock[Uid(t)])
    BY <1>4 DEF EntriesInv
  <2>5. analyses[Uid(t)][p].result # "ok"
    BY <2>3, <2>4 DEF Sensible, ImageOnly
  <2>6. Current(t, p)'
    BY <1>2, <2>5, EntryBeforeConstant DEF Current, Uid
  <2>7. Uid(t) \in stored' /\ p \notin InOrder(scheduled[t])
    BY <1>2, <2>1, <2>2 DEF ListInv
  <2> QED
    BY <1>2, <1>4, <2>1, <2>2, <2>6, <2>7, SettleFresh
<1>6. FreshOf(t)'
  BY <1>5 DEF FreshOf
<1> QED
  BY <1>2, <1>4, <1>6, OnlyMovesFresh

\* A result that cannot be stored leaves an entry as it was.
UnstorableIndependent == \A p \in Plugins \cap Unstorable : Dependencies[p] = {}

LEMMA StoreResultFresh ==
    ASSUME UnstorableIndependent, Typed, Typed', ResultsInv, EntriesInv, EndedInv, PhaseStep,
           \A c \in Tasks : FreshOf(c), StoreResult
    PROVE  \A c \in Tasks : FreshOf(c)'
<1>1. PICK t \in Tasks, p \in Plugins : t = collector.task /\ p = collector.plugin
  BY ReaderFacts DEF StoreResult, Typed, ResultInHand
<1>2. /\ GivesBack(t, scheduled[t]) /\ collector.pc = "store"
      /\ StoreAnalysis(Uid(t), p, processed[t][p])
      /\ UNCHANGED <<scheduled, processed, planned, stored>>
  BY <1>1, StoreResultMoves DEF StoreResult, taskVars
<1>3. /\ Held(t) /\ runner.task # t
      /\ \A d \in Plugins : InHand(t, d) <=> d = p
  BY <1>1 DEF Held, Typed, HandOver, Single, InHand
<1>4. /\ Next /\ OnlyMoves(t) /\ Released(t)' /\ Uid(t) \in Objects
      /\ processed[t][p] \in Entry
  BY <1>2, UidFacts DEF Next, GivesBack, Typed, DataTypes
<1>5. /\ \A u \in Objects \ {Uid(t)} : analyses'[u] = analyses[u]
      /\ \A q \in Plugins \ {p} : analyses'[Uid(t)][q] = analyses[Uid(t)][q]
      /\ \/ /\ Uid(t) \notin stored \/ (p \in Unstorable /\ processed[t][p].result = "ok")
            /\ analyses' = analyses
         \/ /\ analyses'[Uid(t)][p].result = processed[t][p].result
            /\ analyses'[Uid(t)][p].version = processed[t][p].version
            /\ analyses'[Uid(t)][p].date = processed[t][p].date
            /\ ~ Present(analyses[Uid(t)][p])
                => analyses'[Uid(t)][p].system = processed[t][p].system
  BY <1>2, <1>4, StoreAnalysisFacts
<1>6. ASSUME Alone(t)' PROVE FreshInv(t)'
  <2>1. FreshInv(t) /\ ListInv(t) /\ Uid(t) \in stored
    BY <1>3, <1>6, AloneFacts
  <2>2. /\ p \notin InOrder(scheduled[t]) /\ p \notin Dependencies[p] /\ Newest(t, p)
        /\ EntryBefore(t, p) \/ ~ Present(analyses[Uid(t)][p])
    BY <1>3, <2>1 DEF ListInv, FreshInv, HandInv, Turn, Unwritten
  <2>3. CASE /\ p \in Unstorable /\ processed[t][p].result = "ok"
             /\ analyses' = analyses
    <3>1. Dependencies[p] = {}
      BY <2>3 DEF UnstorableIndependent
    <3>2. Sensible(Uid(t), p, analyses[Uid(t)][p], clock[Uid(t)])
      BY <1>4 DEF EntriesInv
    <3>3. Current(t, p)'
      BY <2>2, <2>3, <3>1, <3>2, EntryBeforeConstant DEF Current, Sensible, Present, Uid
    <3> QED
      BY <1>2, <1>3, <1>4, <1>5, <2>1, <2>2, <2>3, <3>3, SettleFresh
  <2>4. CASE /\ analyses'[Uid(t)][p].result = processed[t][p].result
             /\ analyses'[Uid(t)][p].version = processed[t][p].version
             /\ analyses'[Uid(t)][p].date = processed[t][p].date
             /\ ~ Present(analyses[Uid(t)][p])
                    => analyses'[Uid(t)][p].system = processed[t][p].system
    <3>1. ASSUME analyses'[Uid(t)][p].result = "ok"
          PROVE  /\ Version[p] <= analyses'[Uid(t)][p].version
                 /\ EntryBefore(t, p) \/ SystemVersion[p] <= analyses'[Uid(t)][p].system
                 /\ \A d \in Dependencies[p] :
                        analyses'[Uid(t)][d].date <= analyses'[Uid(t)][p].date
      <4>1. /\ Version[p] <= processed[t][p].version
            /\ SystemVersion[p] <= processed[t][p].system
            /\ \A q \in Plugins : analyses[Uid(t)][q].date <= processed[t][p].date
        BY <1>1, <2>2, <2>4, <3>1 DEF Newest
      <4>2. \A d \in Dependencies[p] : analyses'[Uid(t)][d] = analyses[Uid(t)][d]
        BY <1>5, <2>2, DependenciesLoaded
      <4> QED
        BY <2>2, <2>4, <4>1, <4>2, DependenciesLoaded
    <3>2. Current(t, p)'
      BY <3>1, EntryBeforeConstant DEF Current, Uid
    <3>3. processed[t][p].result = "failed" => analyses'[Uid(t)][p].result # "ok"
      BY <2>4
    <3> QED
      BY <1>2, <1>3, <1>4, <1>5, <2>1, <2>2, <3>2, <3>3, SettleFresh
  <2> QED
    BY <1>5, <2>1, <2>3, <2>4
<1>7. FreshOf(t)'
  BY <1>6 DEF FreshOf
<1> QED
  BY <1>3, <1>4, <1>5, <1>7, HeldFacts, OnlyMovesFresh

LEMMA CollectorCrashFresh ==
    ASSUME Typed, Typed', EndedInv, PhaseStep, \A c \in Tasks : FreshOf(c),
           NEW p \in Plugins, CollectorCrash(p)
    PROVE  \A c \in Tasks : FreshOf(c)'
<1>1. PICK t \in Tasks : t = Head(outQueue[p]) /\ t \in InOrder(outQueue[p])
  BY ReaderFacts DEF CollectorCrash, Typed
<1>2. Leaves(t) /\ phase'[t] = "active" /\ analyses' = analyses
  BY <1>1, CollectorCrashMoves
     DEF CollectorCrash, Typed, HandOver, PhaseAgrees, Held, Handles, dbVars
<1>3. FreshOf(t)'
  BY <1>2, UnlistedFresh DEF Leaves
<1> QED
  BY <1>2, <1>3, OnlyMovesFresh DEF Leaves, Next, CollectorStep

LEMMA LossFresh ==
    ASSUME Typed, EndedInv, PhaseStep, \A c \in Tasks : FreshOf(c), [Next]_vars, Loss
    PROVE  \A c \in Tasks : FreshOf(c)'
<1>1. PICK t \in Tasks : Leaves(t) /\ phase'[t] \in {"active", "lost"} /\ analyses' = analyses
  BY SomeTaskLost, LossMoves DEF Typed, dbVars
<1>2. FreshOf(t)'
  BY <1>1, UnlistedFresh DEF Leaves
<1> QED
  BY <1>1, <1>2, OnlyMovesFresh DEF Leaves
----------------------------------------------------------------------------
(* The invariant, and what follows from it. *)

UpInv == EntriesInv /\ RunInv /\ DbInv /\ EndedInv /\ \A t \in Tasks : FreshOf(t)

LEMMA UntouchedFresh ==
    ASSUME Typed, [Next]_vars, EndedInv, PhaseStep, \A c \in Tasks : FreshOf(c),
           UNCHANGED <<phase, scheduled, processed, planned, processQueue, inQueue, running,
                       outQueue, runner, collector>>,
           \A u \in Objects : Lasting(u) => analyses'[u] = analyses[u]
    PROVE  \A c \in Tasks : FreshOf(c)'
<1>1. ASSUME NEW c \in Tasks PROVE FreshOf(c)'
  <2>1. Frame(c) /\ Uid(c) \in Objects /\ FreshOf(c)
    BY UidFacts DEF Frame, Same, Queued
  <2>2. Grows(Uid(c))
    BY <2>1, StepGrows
  <2>3. CASE Lasting(Uid(c))
    BY <2>1, <2>2, <2>3, FrameOfFresh
  <2>4. CASE ~ Lasting(Uid(c))
    BY <2>4 DEF FreshOf, Alone, Lasting, Uid
  <2> QED
    BY <2>3, <2>4
<1> QED
  BY <1>1

LEMMA UpNext ==
    ASSUME UnstorableIndependent, Typed, ResultsInv, UpInv, [Next]_vars
    PROVE  UpInv'
<1>1. Typed' /\ ResultsInv'
  BY TypedNext, ResultsNext
<1>2. EntriesInv /\ RunInv /\ DbInv /\ EndedInv /\ \A c \in Tasks : FreshOf(c)
  BY DEF UpInv
<1>3. EntriesInv' /\ RunInv' /\ PhaseStep
  BY <1>1, <1>2, EntriesNext, RunsNext, PhasesNext
<1>4. EndedInv' /\ DbInv'
  BY <1>2, <1>3, EndedNext, DbNext
<1>5. ASSUME NEW t \in Tasks, Enter(t) \/ RequestUpdate(t) PROVE \A c \in Tasks : FreshOf(c)'
  BY <1>1, <1>2, <1>3, <1>5, EnterFresh
<1>6. ASSUME RunnerStep PROVE \A c \in Tasks : FreshOf(c)'
  BY <1>1, <1>2, <1>3, <1>6, RunnerFresh
<1>7. ASSUME NEW p \in Plugins, BeginAnalysis(p) \/ CollectorStep(p)
      PROVE  \A c \in Tasks : FreshOf(c)'
  BY <1>1, <1>2, <1>3, <1>7, BeginAnalysisFresh, CollectFresh, CollectWithoutResultFresh,
     CollectorCrashFresh DEF CollectorStep
<1>8. ASSUME NEW p \in Plugins, NEW t \in Tasks, WorkerStep(p, t)
      PROVE  \A c \in Tasks : FreshOf(c)'
  BY <1>1, <1>2, <1>3, <1>8, WorkerFresh
<1>9. ASSUME StoreResult PROVE \A c \in Tasks : FreshOf(c)'
  BY <1>1, <1>2, <1>3, <1>9, StoreResultFresh
<1>10. ASSUME NEW fw \in Objects, DeleteFirmware(fw) PROVE \A c \in Tasks : FreshOf(c)'
  <2>1. \A u \in Objects : Lasting(u) => analyses'[u] = analyses[u]
    BY <1>10 DEF DeleteFirmware, Lasting
  <2> QED
    BY <1>2, <1>3, <1>10, <2>1, UntouchedFresh DEF DeleteFirmware, taskVars, pluginVars
<1>11. ASSUME UNCHANGED vars PROVE \A c \in Tasks : FreshOf(c)'
  BY <1>2, <1>3, <1>11, UntouchedFresh DEF vars, taskVars, pluginVars, dbVars
<1>12. ASSUME Loss PROVE \A c \in Tasks : FreshOf(c)'
  BY <1>2, <1>3, <1>12, LossFresh
<1>13. \A c \in Tasks : FreshOf(c)'
  BY <1>5, <1>6, <1>7, <1>8, <1>9, <1>10, <1>11, <1>12 DEF Next, Loss
<1> QED
  BY <1>3, <1>4, <1>13 DEF UpInv

\* What earlier runs left in the database.
DatabaseSensible == \A u \in Objects : \A p \in Plugins : Sensible(u, p, StoredBefore[u][p], 1)

LEMMA UpInit ==
    ASSUME Init, DatabaseSensible
    PROVE  UpInv
<1>1. EntriesInv
  <2>1. ASSUME NEW u \in Objects, NEW p \in Plugins PROVE Sensible(u, p, analyses[u][p], clock[u])
    BY DEF Init, DatabaseSensible
  <2>2. ASSUME NEW t \in Tasks, NEW p \in Plugins
        PROVE  Sensible(Uid(t), p, processed[t][p], clock[Uid(t)])
    <3>1. processed[t][p] = Absent /\ clock[Uid(t)] = 1
      BY UidFacts DEF Init
    <3> QED
      BY <3>1 DEF Sensible, Absent
  <2> QED
    BY <2>1, <2>2 DEF EntriesInv
<1>2. RunInv
  BY EmptyFacts DEF Init, RunInv
<1>3. EndedInv
  BY DEF Init, EndedInv, Begun
<1>4. ASSUME NEW t \in Tasks PROVE FreshOf(t)
  <2>1. /\ phase[t] = "new" /\ runner.task # t /\ collector.task # t
        /\ \A p \in Plugins : t \notin InOrder(inQueue[p]) /\ t \notin running[p]
                              /\ t \notin InOrder(outQueue[p])
        /\ ~ Queued(t)
    BY EmptyFacts, NoTaskAssumption DEF Init, Idle, Queued
  <2>2. ~ Listed(t)
    BY <2>1 DEF Listed, Held, Handles
  <2> QED
    BY <2>2 DEF FreshOf, Alone
<1>5. DbInv
  BY DEF Init, DbInv
<1> QED
  BY <1>1, <1>2, <1>3, <1>4, <1>5 DEF UpInv

LEMMA UpFollow ==
    ASSUME Typed, ResultsInv, UpInv,
           \A t \in Tasks : SoundList(t) /\ Lasting(Uid(t))
    PROVE  UpToDateWhenCompleted
<1> SUFFICES ASSUME NEW t \in Tasks, phase[t] = "completed", OnlyTask(t),
                    NEW p \in planned[t] \cap Plugins,
                    analyses[Uid(t)][p].result = "ok",
                    \A d \in Dependencies[p] : analyses[Uid(t)][d].result = "ok"
             PROVE  /\ Version[p] <= analyses[Uid(t)][p].version
                    /\ ~ DependencyEntryMissing(Uid(t), p) /\ ~ DependencyNewer(Uid(t), p)
                    /\ ~ EntryBefore(t, p) => UpToDate(Uid(t), p)
  BY DEF UpToDateWhenCompleted
<1>1. FreshInv(t)
  BY DEF UpInv, FreshOf, Alone, Listed
<1>2. scheduled[t] = << >>
  BY DEF ResultsInv, ResultsOf, PhaseInv
<1>3. ~ Held(t)
  BY DEF Typed, HandOver, PhaseAgrees
<1>4. Settled(t, p)
  BY <1>2, <1>3, NoHolder, EmptyFacts DEF Settled
<1>5. collector.task # t
  BY <1>3 DEF Held
<1>6. ~ Broken(t, p)
  BY <1>5 DEF Broken, FailureInHand
<1>7. Current(t, p)
  BY <1>1, <1>4, <1>6 DEF FreshInv, SettledInv
<1>8. /\ Version[p] <= analyses[Uid(t)][p].version
      /\ EntryBefore(t, p) \/ SystemVersion[p] <= analyses[Uid(t)][p].system
      /\ \A d \in Dependencies[p] : analyses[Uid(t)][d].date <= analyses[Uid(t)][p].date
  BY <1>7 DEF Current
<1>9. /\ analyses[Uid(t)][p] \in Entry
      /\ \A d \in Dependencies[p] : analyses[Uid(t)][d] \in Entry
  BY UidFacts, DependenciesLoaded DEF Typed, DataTypes
<1>10. ~ EntryBefore(t, p) => VersionCurrent(Uid(t), p)
  BY <1>8 DEF VersionCurrent
<1>11. ~ DependencyEntryMissing(Uid(t), p)
  BY DEF DependencyEntryMissing, Present
<1>12. ~ DependencyNewer(Uid(t), p)
  <2>1. ASSUME NEW d \in Dependencies[p],
               analyses[Uid(t)][p].date < analyses[Uid(t)][d].date
        PROVE  FALSE
    <3>1. analyses[Uid(t)][p].date \in Nat /\ analyses[Uid(t)][d].date \in Nat
      BY <1>9 DEF Entry
    <3>2. analyses[Uid(t)][d].date <= analyses[Uid(t)][p].date
      BY <1>8
    <3> QED
      BY <2>1, <3>1, <3>2
  <2> QED
    BY <2>1 DEF DependencyNewer
<1> QED
  BY <1>8, <1>10, <1>11, <1>12 DEF UpToDate

(***************************************************************************)
(* For any plugins, versions, dependencies, requests, failures and         *)
(* interleavings: what _analysis_is_up_to_date asks for, a completed task  *)
(* leaves, if all dependencies of the plugin succeeded and no other task   *)
(* worked on the object meanwhile: always the version and the dates, and   *)
(* the system version where the task found no entry of the plugin; where it*)
(* found one, update_analysis keeps the old system version, whatever the   *)
(* plugin has.  Without one of the hypotheses that is not so in general:   *)
(* the root of an update is run in the order of its own list, a result that*)
(* cannot be stored leaves the old entry (with a date before those of its  *)
(* dependencies, if it has any), and a deletion takes the entries away.    *)
(***************************************************************************)
THEOREM UpToDateWhenCompletedTheorem ==
    ASSUME DatabaseSensible, UnstorableIndependent,
           \A t \in Tasks : SoundList(t) /\ Lasting(Uid(t))
    PROVE  Spec => []UpToDateWhenCompleted
<1>1. Init => Typed /\ ResultsInv /\ UpInv
  BY HandOverInit, InitTyped, ResultsInit, UpInit DEF Typed
<1>2. (Typed /\ ResultsInv /\ UpInv) /\ [Next]_vars => (Typed /\ ResultsInv /\ UpInv)'
  BY TypedNext, ResultsNext, UpNext
<1>3. Typed /\ ResultsInv /\ UpInv => UpToDateWhenCompleted
  BY UpFollow
<1> QED
  BY <1>1, <1>2, <1>3, PTL DEF Spec
=============================================================================
