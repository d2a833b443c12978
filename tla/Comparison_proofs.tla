-------------------------- MODULE Comparison_proofs --------------------------
(***************************************************************************)
(* What is stored of comparisons is sound, for any objects, contents,      *)
(* requests and interleaving of the listener, the scheduler, deletions and *)
(* restarts of the backend; and what the web interface shows of the        *)
(* database while it changes is right: the conditions of a search, its     *)
(* pages and the statistics, for any database and any requests.            *)
(***************************************************************************)
EXTENDS Comparison, Browse, FiniteSetTheorems, WellFoundedInduction, TLAPS

-----------------------------------------------------------------------------
(* Comparison IDs *)

\* A set of uids, sorted, has each of them once: the place of an uid is the
\* number of those that are not greater.
LEMMA SortedSet ==
    ASSUME NEW S \in SUBSET Uids
    PROVE  /\ ConvertUidListToCompareId(S) \in Seq(Uids)
           /\ ToSet(ConvertUidListToCompareId(S)) = S
<1> DEFINE Upto(u) == {v \in S : v <= u}
           n == Cardinality(S)
           place == [u \in S |-> Cardinality(Upto(u))]
           at == [k \in 1 .. n |-> CHOOSE u \in S : Cardinality(Upto(u)) = k]
<1>1. S \subseteq Nat /\ IsFiniteSet(S) /\ n \in Nat
    BY ComparisonConstants, FS_Subset, FS_CardinalityType
<1>2. ASSUME NEW u \in S
      PROVE  /\ Upto(u) \in SUBSET S /\ IsFiniteSet(Upto(u)) /\ u \in Upto(u)
             /\ Cardinality(Upto(u)) \in 1 .. n
  <2>1. Upto(u) \in SUBSET S /\ u \in Upto(u)
    BY <1>1
  <2>2. IsFiniteSet(Upto(u)) /\ Cardinality(Upto(u)) <= n
    BY <1>1, <2>1, FS_Subset
  <2>3. Cardinality(Upto(u)) \in Nat /\ Cardinality(Upto(u)) # 0
    BY <2>1, <2>2, FS_CardinalityType, FS_EmptySet
  <2> QED
    BY <1>1, <2>1, <2>2, <2>3
<1>3. ASSUME NEW u \in S, NEW v \in S, u < v
      PROVE  place[u] # place[v]
  <2>1. Upto(u) \in SUBSET Upto(v) /\ v \notin Upto(u)
    <3>1. u \in Nat /\ v \in Nat /\ ~(v <= u)
      BY <1>1, <1>3
    <3>2. \A w \in S : w \in Nat /\ (w <= u => w <= v)
      BY <1>1, <1>3
    <3> QED
      BY <3>1, <3>2
  <2>2. Cardinality(Upto(v)) = Cardinality(Upto(u)) => Upto(v) = Upto(u)
    BY <1>2, <2>1, FS_Subset
  <2> QED
    BY <1>2, <2>1, <2>2
<1>4. place \in Injection(S, 1 .. n)
  <2>1. place \in [S -> 1 .. n]
    BY <1>2
  <2>2. \A u, v \in S : place[u] = place[v] => u = v
    BY <1>1, <1>3
  <2> QED
    BY <2>1, <2>2 DEF Injection, IsInjective
<1>5. IsFiniteSet(1 .. n) /\ Cardinality(1 .. n) = n
    BY <1>1, FS_Interval
<1>6. place \in Surjection(S, 1 .. n)
    BY <1>1, <1>4, <1>5, FS_Injection
<1>7. \A k \in 1 .. n : \E u \in S : Cardinality(Upto(u)) = k
    BY <1>6 DEF Surjection
<1> HIDE DEF Upto
<1>8. \A k \in 1 .. n : at[k] \in S /\ Cardinality(Upto(at[k])) = k
    BY <1>7
<1>9. \A u \in S : u = at[place[u]]
  <2> TAKE u \in S
  <2>1. place[u] \in 1 .. n /\ place[u] = Cardinality(Upto(u))
    BY <1>2
  <2>2. at[place[u]] \in S /\ place[at[place[u]]] = place[u]
    BY <1>8, <2>1
  <2> QED
    BY <1>4, <2>2 DEF Injection, IsInjective
<1>10. at \in Seq(Uids) /\ ToSet(at) = S
  <2>1. at \in [1 .. n -> Uids]
    BY <1>8
  <2>2. ToSet(at) = {at[k] : k \in 1 .. n}
    BY DEF ToSet
  <2>3. \A k \in 1 .. n : at[k] \in S
    BY <1>8
  <2>4. \A u \in S : place[u] \in 1 .. n /\ u = at[place[u]]
    BY <1>2, <1>9
  <2> HIDE DEF at, n, place
  <2>5. at \in Seq(Uids)
    BY <1>1, <2>1
  <2>6. ToSet(at) = S
    BY <2>2, <2>3, <2>4
  <2> QED
    BY <2>5, <2>6
<1> QED
    BY <1>10 DEF ConvertUidListToCompareId, Upto

\* When as many objects are found as the ID has places, it consists of objects.
LEMMA ExistingObjects ==
    ASSUME NEW id, NEW n \in Nat, id = [i \in 1 .. n |-> id[i]], ObjectsExist(id)
    PROVE  ToSet(id) \subseteq objects /\ id \in Seq(objects)
<1>1. ToSet(id) = {id[i] : i \in 1 .. n}
    BY DEF ToSet
<1>2. id \in [1 .. n -> ToSet(id)]
    BY <1>1
<1>3. id \in Seq(ToSet(id)) /\ Len(id) = n
    BY <1>2
<1>4. id \in Surjection(1 .. n, ToSet(id))
    BY <1>1, <1>2 DEF Surjection
<1>5. IsFiniteSet(1 .. n) /\ Cardinality(1 .. n) = n
    BY FS_Interval
<1>6. IsFiniteSet(ToSet(id)) /\ Cardinality(ToSet(id)) <= n
    BY <1>4, <1>5, FS_Surjection
<1>7. PICK found : found = ToSet(id) \cap objects
    OBVIOUS
<1>8. found \in SUBSET ToSet(id) /\ Cardinality(found) = n
    BY <1>3, <1>7 DEF ObjectsExist
<1>9. Cardinality(ToSet(id)) \in Nat
    BY <1>6, FS_CardinalityType
<1>10. Cardinality(found) <= Cardinality(ToSet(id))
       /\ (Cardinality(ToSet(id)) = Cardinality(found) => ToSet(id) = found)
    BY <1>6, <1>8, FS_Subset
<1>11. ToSet(id) = found
    BY <1>6, <1>8, <1>9, <1>10
<1> QED
    BY <1>2, <1>7, <1>11

-----------------------------------------------------------------------------
(* The results of the plugins *)

LEMMA CoverageIsPartition ==
    ASSUME NEW T, NEW sets \in Seq(SUBSET T)
    PROVE  Partition(Coverage(sets))
<1> SUFFICES ASSUME Len(sets) > 1, NEW i \in DOMAIN sets
             PROVE  LET cov == Coverage(sets)
                        rest == IF cov.partial = <<>> THEN {} ELSE cov.partial[i] IN
                    /\ cov.sets[i] = cov.common \cup cov.exclusive[i] \cup rest
                    /\ cov.common \cap cov.exclusive[i] = {}
                    /\ rest \cap (cov.common \cup cov.exclusive[i]) = {}
                    /\ cov.exclusive[i] \cap Others(cov.sets, i) = {}
                    /\ rest \subseteq Others(cov.sets, i)
    BY DEF Partition, Coverage
<1> DEFINE common == InCommon(sets)
           mine == sets[i] \ Others(sets, i)
           between == (sets[i] \ common) \ mine
<1>1. DOMAIN sets = 1 .. Len(sets) /\ Len(sets) \in Nat
    OBVIOUS
<1>2. Exclusive(sets)[i] = mine
    BY DEF Exclusive
<1>3. PICK j \in DOMAIN sets : j # i
    BY <1>1
<1>4. common \subseteq sets[i] /\ common \subseteq Others(sets, i)
  <2>1. common \subseteq sets[i] /\ common \subseteq sets[j]
    BY DEF InCommon
  <2>2. sets[j] \subseteq Others(sets, i)
    BY <1>3 DEF Others
  <2> QED
    BY <2>1, <2>2
<1>5. CASE Len(sets) > 2
  <2>1. InMoreThanOne(sets) = [k \in DOMAIN sets |-> (sets[k] \ common) \ Exclusive(sets)[k]]
    BY <1>5 DEF InMoreThanOne
  <2>2. InMoreThanOne(sets) # <<>> /\ InMoreThanOne(sets)[i] = between
    BY <1>1, <1>2, <2>1
  <2> QED
    BY <1>2, <1>4, <2>2 DEF Coverage
<1>6. CASE Len(sets) = 2
  <2>1. InMoreThanOne(sets) = <<>>
    BY <1>6 DEF InMoreThanOne
  <2>2. Others(sets, i) = sets[j]
    BY <1>1, <1>3, <1>6 DEF Others
  <2>3. sets[i] \cap sets[j] \subseteq common
    <3>1. \A k \in DOMAIN sets : k = i \/ k = j
      BY <1>1, <1>3, <1>6
    <3>2. 1 \in DOMAIN sets
      BY <1>1
    <3> QED
      BY <3>1, <3>2 DEF InCommon
  <2> QED
    BY <1>2, <1>4, <2>1, <2>2, <2>3 DEF Coverage
<1> QED
    BY <1>1, <1>5, <1>6

\* What fits: one file of an object, and files that are similar.
Fits(groups) ==
    \A g \in groups : \A x, y \in g : x # y => x[1] # y[1] /\ <<x[2], y[2]>> \in Similar

LEMMA GroupsFit ==
    ASSUME NEW Object, NEW list \in Seq(Object)
    PROVE  Fits(SimilarityGroups(list))
<1> DEFINE similar == {q \in PairsToCompare(list) : <<q[1][2], q[2][2]>> \in Similar}
           edges == {{p[1], p[2]} : p \in similar}
<1> SUFFICES ASSUME NEW g \in SimilarityGroups(list), NEW x \in g, NEW y \in g, x # y
             PROVE  x[1] # y[1] /\ <<x[2], y[2]>> \in Similar
    BY DEF Fits
<1>1. {x, y} \in edges
    BY DEF SimilarityGroups
<1>2. PICK p \in similar : {x, y} = {p[1], p[2]}
    BY <1>1
<1>3. p[1][1] < p[2][1] /\ p[1][1] \in DOMAIN list /\ p[2][1] \in DOMAIN list
    BY <1>2 DEF PairsToCompare
<1>4. p[1][1] # p[2][1] /\ p[1] # p[2]
    BY <1>3
<1>5. <<p[1][2], p[2][2]>> \in Similar /\ <<p[2][2], p[1][2]>> \in Similar
    BY <1>2, ComparisonConstants
<1>6. (x = p[1] /\ y = p[2]) \/ (x = p[2] /\ y = p[1])
    BY <1>2
<1> QED
    BY <1>4, <1>5, <1>6

\* A loaded object, as the plugins get it.
Loaded ==
    [uid : Uids, direct : SUBSET Files, files : SUBSET Files, analysed : BOOLEAN,
     software : SUBSET {Component[f] : f \in Files}]

Sound(result) ==
    /\ result.uids \subseteq Uids
    /\ Partition(result.files) /\ Partition(result.software)
    /\ Fits(result.groups)

LEMMA LoadedType ==
    ASSUME NEW u \in Uids
    PROVE  LoadedObject(u) \in Loaded /\ LoadedObject(u).uid = u
<1>1. (IF u \in unpacked THEN Direct[u] ELSE {}) \in SUBSET Files
    BY ComparisonConstants DEF Files
<1>2. (u \in software) \in BOOLEAN
    OBVIOUS
<1> QED
    BY <1>1, <1>2 DEF LoadedObject, Loaded

\* The files that are listed for an object, and those whose summaries are read.
LEMMA FilesType ==
    ASSUME NEW o \in Loaded
    PROVE  FilesOf(o) \subseteq SUBSET Files /\ SummarizedFiles(o) \subseteq SUBSET Files
<1>1. o.uid \in Uids /\ o.files \subseteq Files
    BY DEF Loaded
<1>2. Included(o.uid) \subseteq Files /\ Content[o.uid] \subseteq Files
    BY <1>1 DEF Included, Files
<1> QED
    BY <1>1, <1>2 DEF FilesOf, SummarizedFiles

LEMMA ResultIsSound ==
    ASSUME NEW list \in Seq(Loaded)
    PROVE  Sound(CompareObjects(list))
<1>1. \A i \in 1 .. Len(list) : list[i] \in Loaded
    OBVIOUS
<1>2. FileSets(list) \in Seq(SUBSET Files)
  <2>1. FileSets(list) \in [1 .. Len(list) -> SUBSET Files]
    BY <1>1 DEF FileSets, Loaded
  <2> QED
    BY <2>1
<1>3. SoftwareSets(list) \in Seq(SUBSET {Component[f] : f \in Files})
  <2>1. SoftwareSets(list) \in [1 .. Len(list) -> SUBSET {Component[f] : f \in Files}]
    BY <1>1 DEF SoftwareSets, Loaded
  <2> QED
    BY <2>1
<1>4. Partition(Coverage(FileSets(list)))
    BY <1>2, CoverageIsPartition
<1>5. Partition(SoftwareResult(list))
  <2>1. Partition(Coverage(SoftwareSets(list)))
    BY <1>3, CoverageIsPartition
  <2>2. Partition(Skipped)
    BY DEF Partition, Skipped
  <2> QED
    BY <2>1, <2>2 DEF SoftwareResult
<1>6. Fits(SimilarityGroups(list))
    BY GroupsFit
<1>7. {list[i].uid : i \in DOMAIN list} \subseteq Uids
    BY <1>1 DEF Loaded
<1> QED
    BY <1>4, <1>5, <1>6, <1>7 DEF Sound, CompareObjects

-----------------------------------------------------------------------------
(* The invariant *)

Task == [id : Seq(Uids), redo : BOOLEAN]

Types ==
    /\ objects \subseteq Uids /\ unpacked \subseteq Uids /\ software \subseteq Uids
    /\ hashed \subseteq Files /\ basket \subseteq Uids
    /\ tasks \in Seq(Task) /\ queue \in Seq(Task)
    /\ requests \in Seq(Task) /\ Len(requests) <= MaxRequests
    /\ online \in {"up", "stopping", "down"}

\* What the process of the scheduler has at hand: the first objects of the comparison,
\* and then their result.
WorkerOK(w) ==
    /\ w = [step |-> w.step, id |-> w.id, redo |-> w.redo, loaded |-> w.loaded,
            result |-> w.result]
    /\ w.step \in {"idle", "load", "list", "summary", "check", "find", "insert", "update",
                   "ended", "dead"}
    /\ w.id \in Seq(Uids) /\ w.loaded \in Seq(Loaded) /\ Len(w.loaded) <= Len(w.id)
    /\ \A i \in 1 .. Len(w.loaded) : w.loaded[i].uid = w.id[i]
    /\ w.step \in {"list", "summary"} => Len(w.loaded) > 0
    /\ w.step \in {"check", "find", "insert", "update"} => Sound(w.result)

\* Only a redo that was requested is ever on its way, or has killed the process.
RedoRequested == \E i \in DOMAIN requests : requests[i].redo
RedoOK ==
    /\ \A i \in DOMAIN tasks : tasks[i].redo => RedoRequested
    /\ \A i \in DOMAIN queue : queue[i].redo => RedoRequested
    /\ At("dead") => RedoRequested

\* A result is stored under the sorted uids of its objects.
Stored(id, result) ==
    /\ id = CalculateCompId(result)
    /\ ToSet(id) \subseteq objects
    /\ Sound(result)
ResultsOK == \A id \in DOMAIN results : Stored(id, results[id])

IInv == Types /\ WorkerOK(worker) /\ RedoOK /\ ResultsOK

LEMMA IInvImpliesSound == IInv => ComparisonsSound
<1> SUFFICES ASSUME IInv PROVE ComparisonsSound
    OBVIOUS
<1>1. TypeOK
  <2>1. \A i \in DOMAIN queue : queue[i].id \in Seq(Uids) /\ queue[i].redo \in BOOLEAN
    <3> TAKE i \in DOMAIN queue
    <3>1. queue \in Seq(Task)
      BY DEF IInv, Types
    <3>2. queue[i] \in Task
      BY <3>1
    <3> QED
      BY <3>2, Zenon DEF Task
  <2>2. \A i \in DOMAIN worker.loaded : worker.loaded[i].uid = worker.id[i]
    BY DEF IInv, WorkerOK
  <2> QED
    BY <2>1, <2>2 DEF TypeOK, IInv, Types, WorkerOK
<1>2. \A id \in DOMAIN results :
        /\ id = ConvertUidListToCompareId(results[id].uids)
        /\ ToSet(id) = results[id].uids
        /\ ToSet(id) \subseteq objects /\ Sound(results[id])
  <2> TAKE id \in DOMAIN results
  <2>1. Stored(id, results[id])
    BY DEF IInv, ResultsOK
  <2>2. results[id].uids \in SUBSET Uids
    BY <2>1 DEF Stored, Sound
  <2>3. ToSet(ConvertUidListToCompareId(results[id].uids)) = results[id].uids
    BY <2>2, SortedSet
  <2> QED
    BY <2>1, <2>3 DEF Stored, CalculateCompId
<1>3. ResultsOfStoredObjects
    BY <1>2 DEF ResultsOfStoredObjects
<1>4. ResultsArePartitions
    BY <1>2 DEF ResultsArePartitions, Sound
<1>5. GroupsFitTheTable
    BY <1>2 DEF GroupsFitTheTable, Sound, Fits
<1> QED
    BY <1>1, <1>3, <1>4, <1>5 DEF ComparisonsSound, IInv, RedoOK, RedoRequested

LEMMA InitInv == Init => IInv
<1> SUFFICES ASSUME Init PROVE IInv
    OBVIOUS
<1>1. Types
    BY ComparisonConstants DEF Init, Types
<1>2. WorkerOK(worker)
    BY DEF Init, WorkerOK, Idle
<1>3. RedoOK
    BY DEF Init, RedoOK, At, Idle
<1>4. ResultsOK
    BY DEF Init, ResultsOK
<1> QED
    BY <1>1, <1>2, <1>3, <1>4 DEF IInv

-----------------------------------------------------------------------------
(* What a step leaves alone keeps its part of the invariant. *)

LEMMA ResultsFrame ==
    ASSUME ResultsOK, UNCHANGED <<objects, results>>
    PROVE  ResultsOK'
<1>1. ASSUME NEW id, NEW result, Stored(id, result) PROVE Stored(id, result)'
  <2>1. CalculateCompId(result)' = CalculateCompId(result)
    BY DEF CalculateCompId, ConvertUidListToCompareId
  <2>2. Sound(result)' <=> Sound(result)
    BY DEF Sound, Partition, Fits, Others
  <2> QED
    BY <1>1, <2>1, <2>2 DEF Stored
<1>2. DOMAIN results' = DOMAIN results /\ \A id \in DOMAIN results : results'[id] = results[id]
  OBVIOUS
<1>3. ASSUME NEW id \in DOMAIN results PROVE Stored(id, results[id])'
  <2>1. Stored(id, results[id])
    BY DEF ResultsOK
  <2> QED
    BY <1>1, <1>2, <2>1 DEF Stored
<1> QED
  BY <1>2, <1>3 DEF ResultsOK

LEMMA WorkerFrame ==
    ASSUME WorkerOK(worker), UNCHANGED worker
    PROVE  WorkerOK(worker)'
<1>1. worker' = worker
  OBVIOUS
<1>2. Sound(worker.result)' <=> Sound(worker'.result)
  BY DEF Sound, Partition, Fits, Others
<1> QED
  BY <1>1, <1>2 DEF WorkerOK

LEMMA RedoFrame ==
    ASSUME RedoOK, UNCHANGED <<tasks, queue, worker, requests>>
    PROVE  RedoOK'
BY DEF RedoOK, RedoRequested, At

\* A worker that has changed, with the requests as they were.
LEMMA RedoWorker ==
    ASSUME RedoOK, UNCHANGED <<tasks, queue, requests>>, worker'.step # "dead"
    PROVE  RedoOK'
BY DEF RedoOK, RedoRequested, At

LEMMA IdleOK == WorkerOK(Idle)
BY DEF WorkerOK, Idle

\* A worker that goes on to another step with the same objects and result.
LEMMA NextStep ==
    ASSUME NEW w, WorkerOK(w), NEW s, NEW v,
           s \in {"idle", "check", "find", "insert", "update", "ended", "dead"},
           s \in {"check", "find", "insert", "update"} => Sound(w.result),
           v = [w EXCEPT !.step = s]
    PROVE  WorkerOK(v) /\ v.step = s
<1>1. v = [step |-> s, id |-> w.id, redo |-> w.redo, loaded |-> w.loaded, result |-> w.result]
    BY DEF WorkerOK
<1>2. v.step = s /\ v.id = w.id /\ v.redo = w.redo /\ v.loaded = w.loaded /\ v.result = w.result
    BY <1>1
<1> QED
    BY <1>1, <1>2 DEF WorkerOK

LEMMA WorkerStep ==
    ASSUME NEW v, WorkerOK(v), worker' = v
    PROVE  WorkerOK(worker)'
<1>1. Sound(worker.result)' <=> Sound(worker'.result)
  BY DEF Sound, Partition, Fits, Others
<1> QED
  BY <1>1 DEF WorkerOK

-----------------------------------------------------------------------------
(* The frontend *)

LEMMA SelectKeeps ==
    ASSUME IInv, NEW u \in Uids,
           AddToCompareBasket(u) \/ RemoveFromCompareBasket(u) \/ ClearCompareBasket
    PROVE  IInv'
<1> USE DEF AddToCompareBasket, RemoveFromCompareBasket, ClearCompareBasket, database
<1>1. Types'
  <2>1. basket' \subseteq Uids
    BY DEF IInv, Types
  <2> QED
    BY <2>1 DEF IInv, Types
<1>2. WorkerOK(worker)' /\ RedoOK' /\ ResultsOK'
    BY WorkerFrame, RedoFrame, ResultsFrame DEF IInv
<1> QED
    BY <1>1, <1>2 DEF IInv

\* Requests and tasks grow by the same task.
LEMMA SendKeeps ==
    ASSUME IInv, CanRequest, NEW id \in Seq(Uids), NEW redo \in BOOLEAN, Send(id, redo),
           UNCHANGED <<database, results, queue, worker, online>>, basket' \subseteq Uids
    PROVE  IInv'
<1> DEFINE task == [id |-> id, redo |-> redo]
<1>1. tasks' = Append(tasks, task) /\ requests' = Append(requests, task) /\ task \in Task
    BY DEF Send, Task
<1>2. task.redo = redo
    OBVIOUS
<1>3. tasks \in Seq(Task) /\ requests \in Seq(Task) /\ queue \in Seq(Task)
    BY DEF IInv, Types
<1> HIDE DEF task
<1>4. tasks' \in Seq(Task) /\ requests' \in Seq(Task) /\ Len(requests') <= MaxRequests
  <2>1. Len(requests) < MaxRequests /\ Len(requests) \in Nat /\ MaxRequests \in Nat
    BY <1>3, ComparisonConstants DEF CanRequest
  <2>2. Len(requests') = Len(requests) + 1
    BY <1>1, <1>3
  <2> QED
    BY <1>1, <1>3, <2>1, <2>2
<1>5. Types'
    BY <1>4 DEF IInv, Types, database
<1>6. /\ RedoRequested => RedoRequested'
      /\ task.redo => RedoRequested'
  <2>1. \A i \in DOMAIN requests : i \in DOMAIN requests' /\ requests'[i] = requests[i]
    BY <1>1, <1>3
  <2>2. Len(requests) + 1 \in DOMAIN requests' /\ requests'[Len(requests) + 1] = task
    BY <1>1, <1>3
  <2> QED
    BY <2>1, <2>2 DEF RedoRequested
<1>7. \A i \in DOMAIN tasks' : tasks'[i] = task \/ (i \in DOMAIN tasks /\ tasks'[i] = tasks[i])
    BY <1>1, <1>3
<1>8. RedoOK'
    BY <1>6, <1>7 DEF IInv, RedoOK, At
<1>9. WorkerOK(worker)' /\ ResultsOK'
    BY WorkerFrame, ResultsFrame DEF IInv, database
<1> QED
    BY <1>5, <1>8, <1>9 DEF IInv

LEMMA StartCompareKeeps ==
    ASSUME IInv, NEW redo \in BOOLEAN, StartCompare(redo)
    PROVE  IInv'
<1> DEFINE id == ConvertUidListToCompareId(basket)
<1>1. id \in Seq(Uids)
    BY SortedSet DEF IInv, Types
<1>2. basket' = {} /\ UNCHANGED <<database, results, queue, worker, online>>
    BY DEF StartCompare
<1>3. CASE Send(id, redo)
    BY <1>1, <1>2, <1>3, SendKeeps DEF StartCompare
<1>4. CASE UNCHANGED <<tasks, requests>>
  <2>1. Types'
    BY <1>2, <1>4 DEF IInv, Types, database
  <2>2. WorkerOK(worker)' /\ RedoOK' /\ ResultsOK'
    BY <1>2, <1>4, WorkerFrame, RedoFrame, ResultsFrame DEF IInv, database
  <2> QED
    BY <2>1, <2>2 DEF IInv
<1> QED
    BY <1>3, <1>4 DEF StartCompare

LEMMA RestComparePutKeeps ==
    ASSUME IInv, NEW redo \in BOOLEAN, NEW list \in UidLists, RestComparePut(list, redo)
    PROVE  IInv'
<1> DEFINE id == NormalizeCompareId(list)
<1>1. ObjectsExist(id) /\ Send(id, redo) /\ CanRequest
      /\ UNCHANGED <<database, results, basket, queue, worker, online>>
    BY DEF RestComparePut
<1>2. DOMAIN list = 1 .. Len(list) /\ Len(list) \in Nat
    BY ComparisonConstants
<1>3. id = [i \in 1 .. Len(list) |-> id[i]]
    BY <1>2 DEF NormalizeCompareId
<1> HIDE DEF id
<1>4. id \in Seq(objects)
    BY <1>1, <1>2, <1>3, ExistingObjects
<1>5. id \in Seq(Uids) /\ basket' \subseteq Uids
    BY <1>1, <1>4 DEF IInv, Types
<1> QED
    BY <1>1, <1>5, SendKeeps

-----------------------------------------------------------------------------
(* The backend *)

LEMMA AddTaskKeeps ==
    ASSUME IInv, AddTask
    PROVE  IInv'
<1>1. tasks \in Seq(Task) /\ queue \in Seq(Task) /\ tasks # <<>>
    BY DEF IInv, Types, AddTask
<1>2. PICK head : head = Head(tasks)
    OBVIOUS
<1>3. head \in Task /\ 1 \in DOMAIN tasks /\ head = tasks[1]
    BY <1>1, <1>2
<1>4. tasks' \in Seq(Task) /\ \A i \in DOMAIN tasks' : \E j \in DOMAIN tasks : tasks'[i] = tasks[j]
  <2>1. tasks' = Tail(tasks)
    BY DEF AddTask
  <2>2. tasks' \in Seq(Task) /\ Len(tasks') = Len(tasks) - 1
        /\ \A i \in 1 .. Len(tasks') : tasks'[i] = tasks[i + 1]
    BY <1>1, <2>1
  <2>3. \A i \in DOMAIN tasks' : i + 1 \in DOMAIN tasks
    BY <1>1, <2>2
  <2> QED
    BY <2>2, <2>3
<1>5. queue' \in Seq(Task) /\ \A i \in DOMAIN queue' : queue'[i] = head \/ (i \in DOMAIN queue /\ queue'[i] = queue[i])
  <2>1. queue' = Append(queue, head) \/ queue' = queue
    BY <1>2 DEF AddTask
  <2> QED
    BY <1>1, <1>3, <2>1
<1>6. Types'
    BY <1>4, <1>5 DEF IInv, Types, AddTask, database
<1>7. RedoOK'
    BY <1>3, <1>4, <1>5 DEF IInv, RedoOK, RedoRequested, At, AddTask
<1>8. WorkerOK(worker)' /\ ResultsOK'
    BY WorkerFrame, ResultsFrame DEF IInv, AddTask, database
<1> QED
    BY <1>6, <1>7, <1>8 DEF IInv

LEMMA GetTaskKeeps ==
    ASSUME IInv, GetTask
    PROVE  IInv'
<1>1. queue \in Seq(Task) /\ queue # <<>>
    BY DEF IInv, Types, GetTask
<1>2. PICK task : task = Head(queue)
    OBVIOUS
<1>3. task \in Task /\ 1 \in DOMAIN queue /\ task = queue[1]
    BY <1>1, <1>2
<1>4. queue' \in Seq(Task) /\ \A i \in DOMAIN queue' : \E j \in DOMAIN queue : queue'[i] = queue[j]
  <2>1. queue' = Tail(queue)
    BY DEF GetTask
  <2>2. queue' \in Seq(Task) /\ Len(queue') = Len(queue) - 1
        /\ \A i \in 1 .. Len(queue') : queue'[i] = queue[i + 1]
    BY <1>1, <2>1
  <2>3. \A i \in DOMAIN queue' : i + 1 \in DOMAIN queue
    BY <1>1, <2>2
  <2> QED
    BY <2>2, <2>3
<1>5. \/ worker' = worker
      \/ worker' = [Idle EXCEPT !.step = "dead"] /\ task.redo
      \/ worker' = [Idle EXCEPT !.step = "load", !.id = task.id]
    BY <1>2 DEF GetTask
<1>6. WorkerOK(worker)' /\ (At("dead")' => At("dead") \/ task.redo)
  <2>1. CASE worker' = worker
    BY <2>1, WorkerFrame DEF IInv, At
  <2>2. CASE worker' = [Idle EXCEPT !.step = "dead"] /\ task.redo
    BY <2>2, IdleOK, NextStep, WorkerStep
  <2>3. CASE worker' = [Idle EXCEPT !.step = "load", !.id = task.id]
    <3>1. PICK v : v = [Idle EXCEPT !.step = "load", !.id = task.id]
      OBVIOUS
    <3>2. worker' = v
      BY <2>3, <3>1
    <3>3. /\ v = [step |-> v.step, id |-> v.id, redo |-> v.redo, loaded |-> v.loaded,
                 result |-> v.result]
          /\ v.step = "load" /\ v.id = task.id /\ v.loaded = <<>>
      BY <3>1 DEF Idle
    <3>4. task.id \in Seq(Uids)
      BY <1>3 DEF Task
    <3>5. WorkerOK(v)
      BY <3>3, <3>4 DEF WorkerOK
    <3>6. ~At("dead")'
      BY <3>2, <3>3 DEF At
    <3> QED
      BY <3>2, <3>5, <3>6, WorkerStep
  <2> QED
    BY <1>5, <2>1, <2>2, <2>3
<1>7. Types'
    BY <1>4 DEF IInv, Types, GetTask, database
<1>8. RedoOK'
  <2>1. RedoRequested' = RedoRequested /\ tasks' = tasks
    BY DEF GetTask, RedoRequested
  <2>2. task.redo => RedoRequested
    BY <1>3 DEF IInv, RedoOK
  <2>3. At("dead")' => RedoRequested
    BY <1>6, <2>2 DEF IInv, RedoOK
  <2>4. \A i \in DOMAIN queue' : queue'[i].redo => RedoRequested
    BY <1>4 DEF IInv, RedoOK
  <2>5. \A i \in DOMAIN tasks' : tasks'[i].redo => RedoRequested
    BY <2>1 DEF IInv, RedoOK
  <2> QED
    BY <2>1, <2>3, <2>4, <2>5 DEF RedoOK
<1>9. ResultsOK'
    BY ResultsFrame DEF IInv, GetTask, database
<1> QED
    BY <1>6, <1>7, <1>8, <1>9 DEF IInv

\* A step of the process with a comparison that ends it, or goes on to another step.
LEMMA WorkerKeeps ==
    ASSUME IInv, UNCHANGED <<database, basket, tasks, queue, requests>>,
           online' \in {"up", "stopping", "down"},
           NEW v, worker' = v, WorkerOK(v), v.step # "dead", ResultsOK'
    PROVE  IInv'
<1>1. Types'
    BY DEF IInv, Types, database
<1>2. WorkerOK(worker)'
    BY WorkerStep
<1>3. RedoOK'
    BY RedoWorker DEF IInv
<1> QED
    BY <1>1, <1>2, <1>3 DEF IInv

LEMMA LoadObjectKeeps ==
    ASSUME IInv, LoadObject
    PROVE  IInv'
<1>1. ResultsOK' /\ online' \in {"up", "stopping", "down"}
    BY ResultsFrame DEF IInv, Types, LoadObject, database
<1>2. UNCHANGED <<database, basket, tasks, queue, requests>>
    BY DEF LoadObject
<1> DEFINE u == worker.id[Len(worker.loaded) + 1]
<1>3. CASE worker' = Idle
    BY <1>1, <1>2, <1>3, IdleOK, WorkerKeeps DEF Idle
<1>4. CASE u \in objects /\ worker' = [worker EXCEPT !.step = "list", !.loaded = Append(@, LoadedObject(u))]
  <2>1. PICK w : w = worker
    OBVIOUS
  <2>2. PICK o : o = LoadedObject(u)
    OBVIOUS
  <2>3. u \in Uids
    BY <1>4 DEF IInv, Types
  <2>4. o \in Loaded /\ o.uid = w.id[Len(w.loaded) + 1]
    BY <2>1, <2>2, <2>3, LoadedType
  <2>5. WorkerOK(w) /\ w.step = "load" /\ Len(w.loaded) < Len(w.id)
    BY <2>1 DEF IInv, LoadObject, At
  <2>6. PICK v : v = [w EXCEPT !.step = "list", !.loaded = Append(@, o)]
    OBVIOUS
  <2>7. worker' = v
    BY <1>4, <2>1, <2>2, <2>6
  <2>8. /\ v = [step |-> v.step, id |-> v.id, redo |-> v.redo, loaded |-> v.loaded,
               result |-> v.result]
        /\ v.step = "list" /\ v.id = w.id /\ v.loaded = Append(w.loaded, o)
    BY <2>5, <2>6 DEF WorkerOK
  <2>9. w.id \in Seq(Uids) /\ w.loaded \in Seq(Loaded)
        /\ \A i \in 1 .. Len(w.loaded) : w.loaded[i].uid = w.id[i]
    BY <2>5 DEF WorkerOK
  <2>10. v.loaded \in Seq(Loaded) /\ Len(v.loaded) = Len(w.loaded) + 1 /\ Len(v.loaded) <= Len(v.id)
    BY <2>4, <2>5, <2>8, <2>9
  <2>11. \A i \in 1 .. Len(v.loaded) : v.loaded[i].uid = v.id[i]
    BY <2>4, <2>8, <2>9, <2>10
  <2>12. WorkerOK(v)
    BY <2>8, <2>9, <2>10, <2>11 DEF WorkerOK
  <2> QED
    BY <1>1, <1>2, <2>7, <2>8, <2>12, WorkerKeeps
<1> QED
    BY <1>3, <1>4 DEF LoadObject, Abort

\* The last object gets its files, or its software.
LEMMA LastObject ==
    ASSUME NEW w, WorkerOK(w), Len(w.loaded) > 0, NEW s \in {"summary", "load"}, NEW o \in Loaded,
           o.uid = w.loaded[Len(w.loaded)].uid, NEW v,
           v = [w EXCEPT !.step = s, !.loaded = [@ EXCEPT ![Len(w.loaded)] = o]]
    PROVE  WorkerOK(v) /\ v.step = s
<1>1. /\ v = [step |-> v.step, id |-> v.id, redo |-> v.redo, loaded |-> v.loaded,
              result |-> v.result]
      /\ v.step = s /\ v.id = w.id
      /\ v.loaded = [w.loaded EXCEPT ![Len(w.loaded)] = o]
    BY DEF WorkerOK
<1>2. /\ w.id \in Seq(Uids) /\ w.loaded \in Seq(Loaded) /\ Len(w.loaded) <= Len(w.id)
      /\ \A i \in 1 .. Len(w.loaded) : w.loaded[i].uid = w.id[i]
    BY DEF WorkerOK
<1>3. v.loaded \in Seq(Loaded) /\ Len(v.loaded) = Len(w.loaded)
    BY <1>1, <1>2
<1>4. \A i \in 1 .. Len(v.loaded) : v.loaded[i].uid = v.id[i]
    BY <1>1, <1>2, <1>3
<1> QED
    BY <1>1, <1>2, <1>3, <1>4 DEF WorkerOK

LEMMA ListAndSummaryKeep ==
    ASSUME IInv, ListFiles \/ GetSummary
    PROVE  IInv'
<1>1. ResultsOK' /\ online' \in {"up", "stopping", "down"}
    BY ResultsFrame DEF IInv, Types, ListFiles, GetSummary, database
<1>2. UNCHANGED <<database, basket, tasks, queue, requests>>
    BY DEF ListFiles, GetSummary
<1>3. PICK w : w = worker
    OBVIOUS
<1>4. WorkerOK(w) /\ Len(w.loaded) > 0
    BY <1>3 DEF IInv, ListFiles, GetSummary, At, WorkerOK
<1>5. PICK o : o = w.loaded[Len(w.loaded)]
    OBVIOUS
<1>6. o \in Loaded
  <2>1. w.loaded \in Seq(Loaded)
    BY <1>4 DEF WorkerOK
  <2> QED
    BY <1>4, <1>5, <2>1
<1>7. ASSUME NEW s \in {"summary", "load"}, NEW x \in Loaded, x.uid = o.uid,
             worker' = [w EXCEPT !.step = s, !.loaded = [@ EXCEPT ![Len(w.loaded)] = x]]
      PROVE  IInv'
  <2>1. PICK v : v = [w EXCEPT !.step = s, !.loaded = [@ EXCEPT ![Len(w.loaded)] = x]]
    OBVIOUS
  <2>2. WorkerOK(v) /\ v.step = s
    BY <1>4, <1>5, <1>7, <2>1, LastObject
  <2> QED
    BY <1>1, <1>2, <1>7, <2>1, <2>2, WorkerKeeps
<1>8. CASE ListFiles
  <2>1. PICK files \in FilesOf(o) :
          worker' = [w EXCEPT !.step = "summary", !.loaded[Len(w.loaded)].files = files]
    BY <1>3, <1>5, <1>8 DEF ListFiles
  <2>2. PICK x : x = [o EXCEPT !.files = files]
    OBVIOUS
  <2>3. x \in Loaded /\ x.uid = o.uid
    BY <1>6, <2>1, <2>2, FilesType DEF Loaded
  <2>4. worker' = [w EXCEPT !.step = "summary", !.loaded = [@ EXCEPT ![Len(w.loaded)] = x]]
    BY <1>5, <2>1, <2>2
  <2> QED
    BY <1>7, <2>3, <2>4
<1>9. CASE GetSummary
  <2>1. PICK files \in SummarizedFiles(o) :
          worker' = [w EXCEPT !.step = "load",
                        !.loaded[Len(w.loaded)].software =
                            IF o.analysed THEN {Component[f] : f \in files} ELSE {}]
    BY <1>3, <1>5, <1>9 DEF GetSummary
  <2>2. PICK components : components = IF o.analysed THEN {Component[f] : f \in files} ELSE {}
    OBVIOUS
  <2>3. components \subseteq {Component[f] : f \in Files}
    BY <1>6, <2>1, <2>2, FilesType
  <2>4. PICK x : x = [o EXCEPT !.software = components]
    OBVIOUS
  <2>5. x \in Loaded /\ x.uid = o.uid
    BY <1>6, <2>3, <2>4 DEF Loaded
  <2>6. worker' = [w EXCEPT !.step = "load", !.loaded = [@ EXCEPT ![Len(w.loaded)] = x]]
    BY <1>5, <2>1, <2>2, <2>4
  <2> QED
    BY <1>7, <2>5, <2>6
<1> QED
    BY <1>8, <1>9

LEMMA CompareKeeps ==
    ASSUME IInv, Compare
    PROVE  IInv'
<1>1. ResultsOK' /\ online' \in {"up", "stopping", "down"}
    BY ResultsFrame DEF IInv, Types, Compare, database
<1>2. UNCHANGED <<database, basket, tasks, queue, requests>>
    BY DEF Compare
<1>3. CASE worker' = Idle
    BY <1>1, <1>2, <1>3, IdleOK, WorkerKeeps DEF Idle
<1>4. CASE worker' = [worker EXCEPT !.step = "check", !.result = CompareObjects(worker.loaded)]
  <2>1. PICK w : w = worker
    OBVIOUS
  <2>2. PICK r : r = CompareObjects(w.loaded)
    OBVIOUS
  <2>3. WorkerOK(w)
    BY <2>1 DEF IInv
  <2>4. Sound(r)
    BY <2>2, <2>3, ResultIsSound DEF WorkerOK
  <2>5. PICK v : v = [w EXCEPT !.step = "check", !.result = r]
    OBVIOUS
  <2>6. worker' = v
    BY <1>4, <2>1, <2>2, <2>5
  <2>7. /\ v = [step |-> v.step, id |-> v.id, redo |-> v.redo, loaded |-> v.loaded,
               result |-> v.result]
        /\ v.step = "check" /\ v.id = w.id /\ v.loaded = w.loaded /\ v.result = r
    BY <2>3, <2>5 DEF WorkerOK
  <2>8. WorkerOK(v)
    BY <2>3, <2>4, <2>7 DEF WorkerOK
  <2> QED
    BY <1>1, <1>2, <2>6, <2>7, <2>8, WorkerKeeps
<1> QED
    BY <1>3, <1>4 DEF Compare, Abort

LEMMA CheckAndFindKeep ==
    ASSUME IInv, CheckObjects \/ FindComparison
    PROVE  IInv'
<1>1. ResultsOK' /\ online' \in {"up", "stopping", "down"}
    BY ResultsFrame DEF IInv, Types, CheckObjects, FindComparison, database
<1>2. UNCHANGED <<database, basket, tasks, queue, requests>>
    BY DEF CheckObjects, FindComparison
<1>3. CASE worker' = Idle
    BY <1>1, <1>2, <1>3, IdleOK, WorkerKeeps DEF Idle
<1>4. ASSUME NEW s \in {"find", "update", "insert"}, worker' = [worker EXCEPT !.step = s]
      PROVE  IInv'
  <2>1. PICK w : w = worker
    OBVIOUS
  <2>2. WorkerOK(w) /\ Sound(w.result)
    BY <2>1 DEF IInv, WorkerOK, CheckObjects, FindComparison, At
  <2>3. PICK v : v = [w EXCEPT !.step = s]
    OBVIOUS
  <2>4. worker' = v
    BY <1>4, <2>1, <2>3
  <2>5. WorkerOK(v) /\ v.step = s
    BY <2>2, <2>3, NextStep
  <2> QED
    BY <1>1, <1>2, <2>4, <2>5, WorkerKeeps
<1> QED
    BY <1>3, <1>4 DEF CheckObjects, FindComparison, Abort

\* An entry is made of objects that are in the database, or it replaces such an entry.
LEMMA StoreKeeps ==
    ASSUME IInv, InsertComparison \/ UpdateComparison
    PROVE  IInv'
<1>1. online' \in {"up", "stopping", "down"} /\ objects' = objects
      /\ UNCHANGED <<database, basket, tasks, queue, requests>> /\ worker' = Idle
    BY DEF IInv, Types, InsertComparison, UpdateComparison, Abort, database
<1> DEFINE key == CalculateCompId(worker.result)
<1>2. PICK id : id = key
    OBVIOUS
<1>3. PICK result : result = worker.result
    OBVIOUS
<1>4. Sound(result) /\ id = CalculateCompId(result)
    BY <1>2, <1>3 DEF IInv, WorkerOK, InsertComparison, UpdateComparison, At
<1>5. \/ UNCHANGED results
      \/ ToSet(id) \subseteq objects /\ results' = [c \in DOMAIN results \cup {id} |->
                                                 IF c = id THEN result ELSE results[c]]
  <2>1. CASE InsertComparison
    BY <1>2, <1>3, <2>1 DEF InsertComparison, WithResult
  <2>2. CASE UpdateComparison
    <3>1. CASE UNCHANGED results
      BY <3>1
    <3>2. CASE id \in DOMAIN results /\ results' = [results EXCEPT ![id] = result]
      <4>1. results' = [c \in DOMAIN results \cup {id} |-> IF c = id THEN result ELSE results[c]]
        BY <3>2
      <4>2. ToSet(id) \subseteq objects
        BY <3>2 DEF IInv, ResultsOK, Stored
      <4> QED
        BY <4>1, <4>2
    <3> QED
      BY <1>2, <1>3, <2>2, <3>1, <3>2 DEF UpdateComparison, ComparisonExists
  <2> QED
    BY <2>1, <2>2
<1>6. ResultsOK'
  <2>1. CASE UNCHANGED results
    BY <1>1, <2>1, ResultsFrame DEF IInv
  <2>2. CASE ToSet(id) \subseteq objects /\ results' = [c \in DOMAIN results \cup {id} |->
                                                  IF c = id THEN result ELSE results[c]]
    <3>1. \A c \in DOMAIN results' : Stored(c, results'[c])
      <4> TAKE c \in DOMAIN results'
      <4>1. CASE c = id
        BY <1>4, <2>2, <4>1 DEF Stored
      <4>2. CASE c # id
        BY <2>2, <4>2 DEF IInv, ResultsOK
      <4> QED
        BY <4>1, <4>2
    <3> QED
      BY <1>1, <3>1 DEF ResultsOK, Stored, CalculateCompId, ConvertUidListToCompareId, Sound,
                        Partition, Fits, Others
  <2> QED
    BY <1>5, <2>1, <2>2
<1> QED
  <2>1. Idle.step # "dead"
    BY DEF Idle
  <2> QED
    BY <1>1, <1>6, <2>1, IdleOK, WorkerKeeps

LEMMA LeaveLoopKeeps ==
    ASSUME IInv, LeaveLoop
    PROVE  IInv'
<1>1. ResultsOK' /\ online' \in {"up", "stopping", "down"}
    BY ResultsFrame DEF IInv, Types, LeaveLoop, database
<1>2. UNCHANGED <<database, basket, tasks, queue, requests>>
    BY DEF LeaveLoop
<1>3. PICK w : w = worker
    OBVIOUS
<1>4. WorkerOK(w)
    BY <1>3 DEF IInv
<1>5. PICK v : v = [w EXCEPT !.step = "ended"]
    OBVIOUS
<1>6. worker' = v
    BY <1>3, <1>5 DEF LeaveLoop
<1>7. WorkerOK(v) /\ v.step = "ended"
    BY <1>4, <1>5, NextStep
<1> QED
    BY <1>1, <1>2, <1>6, <1>7, WorkerKeeps

LEMMA StopKeeps ==
    ASSUME IInv, Shutdown \/ Join
    PROVE  IInv'
<1>1. online' \in {"up", "stopping", "down"}
      /\ UNCHANGED <<database, results, basket, tasks, queue, worker, requests>>
    BY DEF Shutdown, Join
<1>2. Types'
    BY <1>1 DEF IInv, Types, database
<1>3. WorkerOK(worker)' /\ RedoOK' /\ ResultsOK'
    BY <1>1, WorkerFrame, RedoFrame, ResultsFrame DEF IInv, database
<1> QED
    BY <1>2, <1>3 DEF IInv

LEMMA StartKeeps ==
    ASSUME IInv, Start
    PROVE  IInv'
<1>1. Types'
    BY DEF IInv, Types, Start, database
<1>2. WorkerOK(worker)'
    BY IdleOK, WorkerStep DEF Start
<1>3. RedoOK'
    BY DEF IInv, RedoOK, RedoRequested, At, Start, Idle
<1>4. ResultsOK'
    BY ResultsFrame DEF IInv, Start, database
<1> QED
    BY <1>1, <1>2, <1>3, <1>4 DEF IInv

-----------------------------------------------------------------------------
(* The rest of the system *)

LEMMA StoreAnalysesKeeps ==
    ASSUME IInv, StoreAnalyses
    PROVE  IInv'
<1>1. Types'
    BY DEF IInv, Types, StoreAnalyses
<1>2. WorkerOK(worker)' /\ RedoOK' /\ ResultsOK'
    BY WorkerFrame, RedoFrame, ResultsFrame DEF IInv, StoreAnalyses
<1> QED
    BY <1>1, <1>2 DEF IInv

LEMMA DeleteObjectKeeps ==
    ASSUME IInv, NEW u \in Uids, DeleteObject(u)
    PROVE  IInv'
<1>1. Types'
    BY DEF IInv, Types, DeleteObject
<1>2. WorkerOK(worker)' /\ RedoOK'
    BY WorkerFrame, RedoFrame DEF IInv, DeleteObject
<1>3. ResultsOK'
  <2>1. PICK kept : kept = {id \in DOMAIN results : u \notin ToSet(id)}
    OBVIOUS
  <2>2. results' = [id \in kept |-> results[id]]
    BY <2>1 DEF DeleteObject, Restrict
  <2>3. \A id \in DOMAIN results' : /\ id \in DOMAIN results /\ results'[id] = results[id]
                                    /\ u \notin ToSet(id)
    BY <2>1, <2>2
  <2>4. objects' = objects \ {u}
    BY DEF DeleteObject
  <2>5. \A id \in DOMAIN results' : Stored(id, results'[id]) /\ ToSet(id) \subseteq objects'
    BY <2>3, <2>4 DEF IInv, ResultsOK, Stored
  <2> QED
    BY <2>5 DEF ResultsOK, Stored, CalculateCompId, ConvertUidListToCompareId, Sound, Partition,
                Fits, Others
<1> QED
    BY <1>1, <1>2, <1>3 DEF IInv

-----------------------------------------------------------------------------
LEMMA NextInv == IInv /\ [Next]_vars => IInv'
<1> SUFFICES ASSUME IInv, [Next]_vars PROVE IInv'
    OBVIOUS
<1>1. ASSUME NEW u \in Uids, AddToCompareBasket(u) \/ RemoveFromCompareBasket(u)
      PROVE  IInv'
    BY <1>1, SelectKeeps
<1>2. ASSUME NEW u \in Uids, DeleteObject(u)
      PROVE  IInv'
    BY <1>2, DeleteObjectKeeps
<1>3. CASE ClearCompareBasket
  <2>1. basket # {} /\ basket \subseteq Uids
    BY <1>3 DEF ClearCompareBasket, IInv, Types
  <2>2. PICK u \in Uids : TRUE
    BY <2>1
  <2> QED
    BY <1>3, SelectKeeps
<1>4. ASSUME NEW redo \in BOOLEAN, StartCompare(redo)
      PROVE  IInv'
    BY <1>4, StartCompareKeeps
<1>5. ASSUME NEW redo \in BOOLEAN, NEW list \in UidLists, RestComparePut(list, redo)
      PROVE  IInv'
    BY <1>5, RestComparePutKeeps
<1>6. CASE AddTask
    BY <1>6, AddTaskKeeps
<1>7. CASE Worker
    BY <1>7, GetTaskKeeps, LoadObjectKeeps, ListAndSummaryKeep, CompareKeeps, CheckAndFindKeep, StoreKeeps,
       LeaveLoopKeeps DEF Worker
<1>8. CASE Shutdown \/ Join
    BY <1>8, StopKeeps
<1>9. CASE Start
    BY <1>9, StartKeeps
<1>10. CASE StoreAnalyses
    BY <1>10, StoreAnalysesKeeps
<1>11. CASE UNCHANGED vars
  <2>1. Types'
    BY <1>11 DEF IInv, Types, vars
  <2>2. WorkerOK(worker)' /\ RedoOK' /\ ResultsOK'
    BY <1>11, WorkerFrame, RedoFrame, ResultsFrame DEF IInv, vars
  <2> QED
    BY <2>1, <2>2 DEF IInv
<1> QED
    BY <1>1, <1>2, <1>3, <1>4, <1>5, <1>6, <1>7, <1>8, <1>9, <1>10, <1>11 DEF Next

\* What is stored about a comparison is made of objects in the database, once for a set
\* of objects; the coverage of files and of software divides each object without overlap,
\* and a group of similar files has at most one of each object.  Nothing but a redo that
\* somebody requested has ended the process of the scheduler.
THEOREM ComparisonsSoundTheorem == Spec => []ComparisonsSound
<1>1. Init => IInv
    BY InitInv
<1>2. IInv /\ [Next]_vars => IInv'
    BY NextInv
<1>3. IInv => ComparisonsSound
    BY IInvImpliesSound
<1> QED
    BY <1>1, <1>2, <1>3, PTL DEF Spec

(***************************************************************************)
(* Searches (Browse).  One join with the analyses serves all conditions:   *)
(* they combine unless they are about two plugins.                         *)
(***************************************************************************)
Alone(c) == [and |-> {c}, or |-> {}]

\* A set with at most one element.
LEMMA AtMostOne ==
    ASSUME NEW S, IsFiniteSet(S), Cardinality(S) <= 1, NEW x \in S, NEW y \in S
    PROVE  x = y
<1> SUFFICES ASSUME x # y PROVE FALSE
  OBVIOUS
<1>1. IsFiniteSet(S \ {x}) /\ Cardinality(S \ {x}) = Cardinality(S) - 1 /\ Cardinality(S) \in Nat
  BY FS_RemoveElement, FS_CardinalityType
<1>2. Cardinality(S \ {x}) \in Nat /\ Cardinality(S \ {x}) = 0
  BY <1>1, FS_CardinalityType
<1>3. S \ {x} = {}
  BY <1>1, <1>2, FS_EmptySet
<1> QED
  BY <1>3

\* What a condition on its own finds: no analysis is joined unless it is about one.
LEMMA FoundAlone ==
    ASSUME NEW d, NEW c, NEW u \in DOMAIN d
    PROVE  /\ ~OnAnalysis(c) =>
                 (u \in BuildQueryFromDict(d, Alone(c))
                    <=> Holds(d, c, [uid |-> u, fw |-> d[u].fw, plugin |-> "none"]))
           /\ OnAnalysis(c) =>
                 (u \in BuildQueryFromDict(d, Alone(c))
                    <=> /\ c.table \in DOMAIN d[u].analyses /\ c.table # "none"
                        /\ Holds(d, c, [uid |-> u, fw |-> d[u].fw, plugin |-> c.table]))
<1> DEFINE q == Alone(c)
           row(p) == [uid |-> u, fw |-> d[u].fw, plugin |-> p]
<1>1. q.or = {} /\ q.and = {c} /\ Effective(q) = {c}
  BY DEF Alone, Effective
<1>2. u \in BuildQueryFromDict(d, q) <=> \E r \in Joined(d, q, u) : Satisfies(d, q, r)
  BY DEF BuildQueryFromDict
<1>3. \A r : r \in Joined(d, q, u) <=>
          \E p \in DOMAIN d[u].analyses \cup {"none"} :
             /\ r = row(p) /\ (p = "none" <=> ~OnAnalysis(c))
             /\ c.table = "firmware" => d[u].fw # NoFw
  BY <1>1 DEF Joined
<1>4. \A r : Satisfies(d, q, r) <=> Holds(d, c, r)
  BY <1>1 DEF Satisfies
<1>5. ASSUME ~OnAnalysis(c)
      PROVE  u \in BuildQueryFromDict(d, q) <=> Holds(d, c, row("none"))
  <2>1. Holds(d, c, row("none")) /\ c.table = "firmware" => d[u].fw # NoFw
    BY DEF Holds
  <2> QED
    BY <1>2, <1>3, <1>4, <1>5, <2>1
<1>6. ASSUME OnAnalysis(c)
      PROVE  u \in BuildQueryFromDict(d, q) <=>
                 c.table \in DOMAIN d[u].analyses /\ c.table # "none" /\ Holds(d, c, row(c.table))
  <2>1. c.table \notin {"file_object", "firmware"}
    BY <1>6 DEF OnAnalysis, Tables
  <2>2. \A p : Holds(d, c, row(p)) => p = c.table
    BY <2>1 DEF Holds
  <2> QED
    BY <1>2, <1>3, <1>4, <1>6, <2>1, <2>2
<1> QED
  BY <1>5, <1>6

\* A condition that is not about an analysis does not look at the one that is joined.
LEMMA OtherColumns ==
    ASSUME NEW d, NEW c, ~OnAnalysis(c), NEW u, NEW p, NEW p2
    PROVE  Holds(d, c, [uid |-> u, fw |-> d[u].fw, plugin |-> p])
             <=> Holds(d, c, [uid |-> u, fw |-> d[u].fw, plugin |-> p2])
<1>1. c.table \in {"file_object", "firmware"}
  BY DEF OnAnalysis, Tables
<1> QED
  BY <1>1 DEF Holds

\* Conditions of a document, on the results of one plugin at most.
LEMMA AllConditions ==
    ASSUME NEW d, NEW q, q.or = {}, q.and # {}, IsFiniteSet(q.and),
           Cardinality({c.table : c \in q.and} \ Tables) <= 1,
           NEW u \in DOMAIN d
    PROVE  u \in BuildQueryFromDict(d, q)
             <=> \A c \in q.and : u \in BuildQueryFromDict(d, Alone(c))
<1> DEFINE row(p) == [uid |-> u, fw |-> d[u].fw, plugin |-> p]
           plugins == {c.table : c \in q.and} \ Tables
<1>1. Effective(q) = q.and
  BY DEF Effective
<1>2. u \in BuildQueryFromDict(d, q) <=>
         \E p \in DOMAIN d[u].analyses \cup {"none"} :
            /\ (p = "none") <=> (\A c \in q.and : ~OnAnalysis(c))
            /\ (\E c \in q.and : c.table = "firmware") => d[u].fw # NoFw
            /\ \A c \in q.and : Holds(d, c, row(p))
  <2>1. u \in BuildQueryFromDict(d, q) <=> \E r \in Joined(d, q, u) : Satisfies(d, q, r)
    BY DEF BuildQueryFromDict
  <2>2. \A r : r \in Joined(d, q, u) <=>
          \E p \in DOMAIN d[u].analyses \cup {"none"} :
             /\ r = row(p) /\ ((p = "none") <=> (\A c \in q.and : ~OnAnalysis(c)))
             /\ (\E c \in q.and : c.table = "firmware") => d[u].fw # NoFw
    BY <1>1 DEF Joined
  <2>3. \A r : Satisfies(d, q, r) <=> \A c \in q.and : Holds(d, c, r)
    BY DEF Satisfies
  <2> QED
    BY <2>1, <2>2, <2>3
<1>3. \A c \in q.and : \A p : Holds(d, c, row(p)) /\ c.table = "firmware" => d[u].fw # NoFw
  BY DEF Holds
<1>4. \A c \in q.and : OnAnalysis(c) => \A p : Holds(d, c, row(p)) => p = c.table
  BY DEF Holds, OnAnalysis, Tables
<1>5. CASE \A c \in q.and : ~OnAnalysis(c)
  BY <1>2, <1>3, <1>5, FoundAlone
<1>6. CASE \E a \in q.and : OnAnalysis(a)
  <2>1. PICK a \in q.and : OnAnalysis(a)
    BY <1>6
  <2>2. IsFiniteSet(plugins)
    <3> DEFINE tables == [c \in q.and |-> c.table]
    <3>1. tables \in Surjection(q.and, {c.table : c \in q.and})
      BY DEF Surjection
    <3>2. IsFiniteSet({c.table : c \in q.and})
      BY <3>1, FS_Surjection
    <3> QED
      BY <3>2, FS_Difference
  <2>3. \A c \in q.and : OnAnalysis(c) => c.table = a.table
    <3>1. \A c \in q.and : OnAnalysis(c) => c.table \in plugins
      BY DEF OnAnalysis
    <3> QED
      BY <2>1, <2>2, <3>1, AtMostOne
  <2>4. u \in BuildQueryFromDict(d, q) <=>
           /\ a.table \in DOMAIN d[u].analyses /\ a.table # "none"
           /\ \A c \in q.and : Holds(d, c, row(a.table))
    BY <1>2, <1>3, <1>4, <2>1
  <2>5. \A c \in q.and : OnAnalysis(c) =>
           (u \in BuildQueryFromDict(d, Alone(c)) <=>
              a.table \in DOMAIN d[u].analyses /\ a.table # "none" /\ Holds(d, c, row(a.table)))
    BY <2>3, FoundAlone
  <2>6. \A c \in q.and : ~OnAnalysis(c) =>
           (u \in BuildQueryFromDict(d, Alone(c)) <=> Holds(d, c, row(a.table)))
    BY FoundAlone, OtherColumns
  <2> QED
    BY <2>1, <2>4, <2>5, <2>6
<1> QED
  BY <1>5, <1>6

\* Alternatives, none of them on the result of a plugin.
LEMMA AnyCondition ==
    ASSUME NEW d, NEW q, q.or # {}, {c.table : c \in q.or} \ Tables = {}
    PROVE  BuildQueryFromDict(d, q) = UNION {BuildQueryFromDict(d, Alone(c)) : c \in q.or}
<1>1. Effective(q) = q.or /\ \A c \in q.or : ~OnAnalysis(c)
  BY DEF Effective, OnAnalysis
<1>2. ASSUME NEW u \in DOMAIN d
      PROVE  u \in BuildQueryFromDict(d, q)
               <=> \E c \in q.or : Holds(d, c, [uid |-> u, fw |-> d[u].fw, plugin |-> "none"])
  BY <1>1 DEF BuildQueryFromDict, Joined, Satisfies
<1>3. \A u \in DOMAIN d, c \in q.or :
         u \in BuildQueryFromDict(d, Alone(c))
           <=> Holds(d, c, [uid |-> u, fw |-> d[u].fw, plugin |-> "none"])
  BY <1>1, FoundAlone
<1>4. \A e : BuildQueryFromDict(d, e) \subseteq DOMAIN d
  BY DEF BuildQueryFromDict
<1> QED
  BY <1>2, <1>3, <1>4

(***************************************************************************)
(* The rows of a search come in one order only, if no two have one key.    *)
(***************************************************************************)
Smaller(k, l) == k[1] < l[1] \/ (k[1] = l[1] /\ k[2] < l[2])

\* Rows with keys of their own, and all of them in order.
Distinct(key, M) ==
    /\ \A u \in M : key[u][1] \in Nat /\ key[u][2] \in Nat
    /\ \A u, v \in M : key[u][1] = key[v][1] /\ key[u][2] = key[v][2] => u = v
Ascending(s, key, M, c) ==
    /\ s \in [1 .. c -> M] /\ \A i, j \in 1 .. c : i # j => s[i] # s[j]
    /\ \A u \in M : \E i \in 1 .. c : s[i] = u
    /\ \A i \in 1 .. c - 1 : NotAfter(key[s[i]], key[s[i + 1]])

\* Induction over the natural numbers, for a set of them.
LEMMA NatInd ==
    ASSUME NEW S \in SUBSET Nat, 0 \in S, \A n \in S : n + 1 \in S
    PROVE  S = Nat
<1> SUFFICES ASSUME S # Nat PROVE FALSE
  OBVIOUS
<1> DEFINE T == Nat \ S
           R == OpToRel(<, Nat)
<1>1. T \subseteq Nat /\ T # {}
  OBVIOUS
<1>2. IsWellFoundedOn(R, Nat)
  BY NatLessThanWellFounded
<1>3. \A a, b \in Nat : <<a, b>> \in R <=> a < b
  BY DEF OpToRel
<1> HIDE DEF R, T
<1>4. PICK x \in T : \A y \in T : <<y, x>> \notin R
  BY <1>1, <1>2, WFMin
<1>5. x \in Nat /\ \A y \in T : ~ (y < x)
  BY <1>1, <1>3, <1>4
<1>6. x # 0
  BY DEF T
<1>7. x - 1 \in Nat /\ x - 1 < x /\ (x - 1) + 1 = x
  BY <1>5, <1>6
<1>8. x - 1 \in S
  BY <1>5, <1>7 DEF T
<1> QED
  BY <1>4, <1>7, <1>8 DEF T

\* The key of a row is smaller than those of all rows behind it.
LEMMA KeysAscend ==
    ASSUME NEW M, NEW key, Distinct(key, M), NEW c \in Nat, NEW s, Ascending(s, key, M, c),
           NEW i \in 1 .. c, NEW j \in 1 .. c, i < j
    PROVE  Smaller(key[s[i]], key[s[j]])
<1> DEFINE N == {n \in Nat : i + n + 1 \in 1 .. c => Smaller(key[s[i]], key[s[i + n + 1]])}
<1>1. ASSUME NEW n \in 1 .. c - 1 PROVE Smaller(key[s[n]], key[s[n + 1]])
  <2>1. n \in 1 .. c /\ n + 1 \in 1 .. c /\ n # n + 1
    OBVIOUS
  <2>2. s[n] \in M /\ s[n + 1] \in M /\ s[n] # s[n + 1]
    BY <2>1 DEF Ascending
  <2>3. NotAfter(key[s[n]], key[s[n + 1]])
    BY DEF Ascending
  <2>4. /\ key[s[n]][1] \in Nat /\ key[s[n]][2] \in Nat
        /\ key[s[n + 1]][1] \in Nat /\ key[s[n + 1]][2] \in Nat
        /\ ~(key[s[n]][1] = key[s[n + 1]][1] /\ key[s[n]][2] = key[s[n + 1]][2])
    BY <2>2 DEF Distinct
  <2> QED
    BY <2>3, <2>4 DEF NotAfter, Smaller
<1>2. 0 \in N
  <2>1. i + 0 + 1 = i + 1 /\ (i + 1 \in 1 .. c => i \in 1 .. c - 1)
    OBVIOUS
  <2> QED
    BY <1>1, <2>1
<1>3. ASSUME NEW n \in N PROVE n + 1 \in N
  <2> SUFFICES ASSUME i + (n + 1) + 1 \in 1 .. c
               PROVE  Smaller(key[s[i]], key[s[i + (n + 1) + 1]])
    OBVIOUS
  <2> DEFINE m == i + n + 1
  <2>1. n \in Nat /\ m \in 1 .. c - 1 /\ m \in 1 .. c /\ m + 1 \in 1 .. c /\ i + (n + 1) + 1 = m + 1
    OBVIOUS
  <2>2. Smaller(key[s[i]], key[s[m]])
    BY <2>1
  <2> HIDE DEF m
  <2>3. Smaller(key[s[m]], key[s[m + 1]])
    BY <1>1, <2>1
  <2>4. s[i] \in M /\ s[m] \in M /\ s[m + 1] \in M
    BY <2>1 DEF Ascending
  <2>5. /\ key[s[i]][1] \in Nat /\ key[s[i]][2] \in Nat /\ key[s[m]][1] \in Nat
        /\ key[s[m]][2] \in Nat /\ key[s[m + 1]][1] \in Nat /\ key[s[m + 1]][2] \in Nat
    BY <2>4 DEF Distinct
  <2>6. Smaller(key[s[i]], key[s[m + 1]])
    BY <2>2, <2>3, <2>5 DEF Smaller
  <2> QED
    BY <2>1, <2>6
<1>4. N \in SUBSET Nat
  OBVIOUS
<1> HIDE DEF N
<1>5. N = Nat
  BY <1>2, <1>3, <1>4, NatInd
<1>6. j - i - 1 \in Nat /\ i + (j - i - 1) + 1 = j
  OBVIOUS
<1>7. j - i - 1 \in N
  BY <1>5, <1>6
<1> QED
  BY <1>6, <1>7 DEF N

\* Two lists that agree before a place do not differ in it: what comes later in one of
\* them has the greater key.
LEMMA NextRow ==
    ASSUME NEW M, NEW key, Distinct(key, M), NEW c \in Nat, NEW s, NEW t,
           Ascending(s, key, M, c), Ascending(t, key, M, c),
           NEW n \in 1 .. c, \A i \in 1 .. n - 1 : s[i] = t[i], s[n] # t[n]
    PROVE  Smaller(key[t[n]], key[s[n]])
<1>1. s[n] \in M
  BY DEF Ascending
<1>2. PICK j \in 1 .. c : t[j] = s[n]
  BY <1>1 DEF Ascending
<1>3. ~(j < n)
  <2> SUFFICES ASSUME j < n PROVE FALSE
    OBVIOUS
  <2>1. j \in 1 .. n - 1 /\ j # n
    OBVIOUS
  <2>2. s[j] = s[n]
    BY <1>2, <2>1
  <2> QED
    BY <2>1, <2>2 DEF Ascending
<1>4. n < j
  BY <1>2, <1>3
<1> QED
  BY <1>2, <1>4, KeysAscend

\* Rows with keys of their own are in one order only.
LEMMA OneOrder ==
    ASSUME NEW M, NEW key, Distinct(key, M), NEW c \in Nat, NEW s, NEW t,
           Ascending(s, key, M, c), Ascending(t, key, M, c)
    PROVE  s = t
<1> DEFINE N == {n \in Nat : \A i \in 1 .. c : i <= n => s[i] = t[i]}
<1>1. 0 \in N
  OBVIOUS
<1>2. ASSUME NEW n \in N PROVE n + 1 \in N
  <2>1. n \in Nat /\ \A i \in 1 .. c : i <= n + 1 => i <= n \/ i = n + 1
    OBVIOUS
  <2>2. \A i \in 1 .. c : i <= n => s[i] = t[i]
    OBVIOUS
  <2>3. ASSUME n + 1 \in 1 .. c, s[n + 1] # t[n + 1] PROVE FALSE
    <3>1. \A i \in 1 .. (n + 1) - 1 : s[i] = t[i] /\ t[i] = s[i]
      BY <2>1, <2>2, <2>3
    <3>2. Smaller(key[t[n + 1]], key[s[n + 1]]) /\ Smaller(key[s[n + 1]], key[t[n + 1]])
      <4> HIDE DEF N
      <4> QED
        BY <2>3, <3>1, NextRow
    <3>3. s[n + 1] \in M /\ t[n + 1] \in M
      BY <2>3 DEF Ascending
    <3>4. /\ key[s[n + 1]][1] \in Nat /\ key[s[n + 1]][2] \in Nat
          /\ key[t[n + 1]][1] \in Nat /\ key[t[n + 1]][2] \in Nat
      BY <3>3 DEF Distinct
    <3> QED
      BY <3>2, <3>4 DEF Smaller
  <2> QED
    BY <2>1, <2>2, <2>3
<1>3. N \in SUBSET Nat
  OBVIOUS
<1>4. c \in N
  <2> HIDE DEF N
  <2> QED
    BY <1>1, <1>2, <1>3, NatInd
<1>5. \A i \in 1 .. c : s[i] = t[i]
  BY <1>4
<1> QED
  BY <1>5 DEF Ascending

\* What a search finds is stored.
LEMMA MatchesAreStored ==
    ASSUME NEW d, WellFormed(d), NEW q, NEW only, NEW inverted
    PROVE  LET M == BuildGenericSearchQuery(d, q, only, inverted)
           IN  M \subseteq DOMAIN d /\ IsFiniteSet(M)
<1>1. BuildGenericSearchQuery(d, q, only, inverted) \subseteq DOMAIN d
  BY DEF BuildGenericSearchQuery, QueryParentFirmware, BuildQueryFromDict, Firmwares
<1> QED
  BY <1>1, FS_Subset DEF WellFormed

\* A listing of a search has every match once ...
LEMMA ListingIsComplete ==
    ASSUME NEW d, WellFormed(d), NEW q, NEW only, NEW inverted, NEW s \in Results(d, q, only, inverted)
    PROVE  LET M == BuildGenericSearchQuery(d, q, only, inverted)
           IN  /\ s \in [1 .. Cardinality(M) -> M] /\ s \in Seq(M) /\ Len(s) = Cardinality(M)
               /\ Cardinality(M) \in Nat
               /\ \A i, j \in 1 .. Cardinality(M) : i # j => s[i] # s[j]
               /\ \A u \in M : \E i \in 1 .. Cardinality(M) : s[i] = u
<1> DEFINE M == BuildGenericSearchQuery(d, q, only, inverted)
           c == Cardinality(M)
<1>1. M \subseteq DOMAIN d /\ IsFiniteSet(M)
  BY MatchesAreStored
<1>2. c \in Nat
  BY <1>1, FS_CardinalityType
<1>3. s \in [1 .. c -> M] /\ \A i, j \in 1 .. c : i # j => s[i] # s[j]
  BY DEF Results, SetToSeqs
<1> HIDE DEF M
<1>4. s \in Seq(M) /\ Len(s) = c
  BY <1>2, <1>3
<1>5. s \in Injection(1 .. c, M)
  BY <1>3 DEF Injection, IsInjective
<1>6. Cardinality(1 .. c) = c
  BY <1>2, FS_Interval
<1>7. s \in Surjection(1 .. c, M)
  BY <1>1, <1>5, <1>6, FS_Injection
<1> QED
  BY <1>2, <1>3, <1>4, <1>7 DEF Surjection, M

\* ... and there is only one, if no two matches have one key.
LEMMA OneListing ==
    ASSUME NEW d, WellFormed(d), NEW q, NEW only, NEW inverted,
           OrdersUniquely(d, q, only, BuildGenericSearchQuery(d, q, only, inverted)),
           NEW s \in Results(d, q, only, inverted), NEW t \in Results(d, q, only, inverted)
    PROVE  s = t
<1> DEFINE M == BuildGenericSearchQuery(d, q, only, inverted)
           c == Cardinality(M)
           key == [u \in M |-> SortKey(d, q, only, u)]
<1>1. M \subseteq DOMAIN d
  BY MatchesAreStored
<1>2. \A u \in DOMAIN d : /\ SortKey(d, q, only, u)[1] \in Nat /\ SortKey(d, q, only, u)[2] \in Nat
                          /\ SortKey(d, q, only, u) =
                                <<SortKey(d, q, only, u)[1], SortKey(d, q, only, u)[2]>>
  BY DEF WellFormed, SortKey
<1>3. \A u \in M : key[u] = SortKey(d, q, only, u)
  OBVIOUS
<1>4. Distinct(key, M)
  <2>1. ASSUME NEW u \in M, NEW v \in M, key[u][1] = key[v][1], key[u][2] = key[v][2] PROVE u = v
    <3>1. SortKey(d, q, only, u) = SortKey(d, q, only, v)
      BY <1>1, <1>2, <1>3, <2>1
    <3> QED
      BY <3>1 DEF OrdersUniquely
  <2>2. \A u \in M : key[u][1] \in Nat /\ key[u][2] \in Nat
    BY <1>1, <1>2, <1>3
  <2> HIDE DEF key, M
  <2> QED
    BY <2>1, <2>2 DEF Distinct
<1>5. ASSUME NEW r \in Results(d, q, only, inverted) PROVE Ascending(r, key, M, c)
  <2>1. /\ r \in [1 .. c -> M] /\ c \in Nat /\ Len(r) = c
        /\ \A i, j \in 1 .. c : i # j => r[i] # r[j]
        /\ \A u \in M : \E i \in 1 .. c : r[i] = u
    BY ListingIsComplete
  <2>2. \A i \in 1 .. c - 1 : NotAfter(SortKey(d, q, only, r[i]), SortKey(d, q, only, r[i + 1]))
    BY <2>1 DEF Results
  <2>3. \A i \in 1 .. c - 1 : r[i] \in M /\ r[i + 1] \in M
    <3>1. \A i \in 1 .. c - 1 : i \in 1 .. c /\ i + 1 \in 1 .. c
      BY <2>1
    <3> QED
      BY <2>1, <3>1
  <2>4. \A i \in 1 .. c - 1 : NotAfter(key[r[i]], key[r[i + 1]])
    BY <1>3, <2>2, <2>3
  <2> HIDE DEF key, M
  <2> QED
    BY <2>1, <2>4 DEF Ascending
<1>6. c \in Nat
  BY ListingIsComplete
<1> HIDE DEF key, M
<1> QED
  BY <1>4, <1>5, <1>6, OneOrder

-----------------------------------------------------------------------------
(* Pages *)

FirstOf(s, n) == SubSeq(s, 1, IF n < Len(s) THEN n ELSE Len(s))

\* The pages up to one, and the one after.
LEMMA PagesJoin ==
    ASSUME NEW S, NEW s \in Seq(S), NEW n \in Nat, NEW k \in Nat \ {0}
    PROVE  FirstOf(s, n) \o ApplyOffsetAndLimit(s, n, k) = FirstOf(s, n + k)
<1> DEFINE a == IF n < Len(s) THEN n ELSE Len(s)
           b == IF n + k < Len(s) THEN n + k ELSE Len(s)
<1>1. /\ Len(s) \in Nat /\ a \in Nat /\ b \in Nat /\ a <= b /\ b <= Len(s)
      /\ (a = n \/ (a = Len(s) /\ b = Len(s) /\ Len(s) <= n))
  OBVIOUS
<1>2. ApplyOffsetAndLimit(s, n, k) = SubSeq(s, n + 1, b)
  BY DEF ApplyOffsetAndLimit
<1>3. FirstOf(s, n) = SubSeq(s, 1, a) /\ FirstOf(s, n + k) = SubSeq(s, 1, b)
  BY DEF FirstOf
<1> HIDE DEF a, b
<1>4. CASE a = n
  <2>1. SubSeq(s, 1, a) \o SubSeq(s, a + 1, b) = SubSeq(s, 1, b)
    BY <1>1
  <2> QED
    BY <1>2, <1>3, <1>4, <2>1
<1>5. CASE a = Len(s) /\ b = Len(s) /\ Len(s) <= n
  <2>1. SubSeq(s, n + 1, b) = << >>
    BY <1>1, <1>5
  <2>2. SubSeq(s, 1, a) = s /\ SubSeq(s, 1, b) = s
    BY <1>5
  <2>3. s \o << >> = s
    OBVIOUS
  <2> QED
    BY <1>2, <1>3, <2>1, <2>2, <2>3
<1> QED
  BY <1>1, <1>4, <1>5

\* A page with one row, of pages that have more, is the last one.
LEMMA SingleRow ==
    ASSUME NEW S, NEW s \in Seq(S), NEW n \in Nat, NEW k \in Nat \ {0, 1},
           Len(ApplyOffsetAndLimit(s, n, k)) = 1
    PROVE  FirstOf(s, n + k) = s
<1>1. Len(s) \in Nat
  OBVIOUS
<1>2. SUFFICES ASSUME n + k < Len(s) PROVE FALSE
  BY <1>1 DEF FirstOf
<1>3. ApplyOffsetAndLimit(s, n, k) = SubSeq(s, n + 1, n + k)
  BY <1>2 DEF ApplyOffsetAndLimit
<1>4. Len(SubSeq(s, n + 1, n + k)) = k
  BY <1>1, <1>2
<1> QED
  BY <1>3, <1>4

-----------------------------------------------------------------------------
(* The invariant *)

Live == {"search", "count", "page", "single"}

IsSearch(r) ==
    /\ r = [step |-> r.step, form |-> r.form, query |-> r.query, page |-> r.page,
            rows |-> r.rows, seen |-> r.seen, total |-> r.total]
    /\ r.form \in Forms /\ r.page \in Nat \ {0}

SearchInv ==
    /\ WellFormed(db)
    /\ since = [search |-> since.search, tree |-> since.tree, stats |-> since.stats]
    /\ search.step \in Live => IsSearch(search)

Found(f) == BuildGenericSearchQuery(db, f.query, f.only, f.inverted)
Listings(f) == Results(db, f.query, f.only, f.inverted)

\* A request whose pages fit together.
Pageable(f) ==
    /\ OrdersUniquely(db, f.query, f.only, Found(f))
    /\ \A c \in f.query.and \cup f.query.or : ~Encoded(c)

\* What was shown is the beginning of the one listing there is, while nothing changes.
ListingInv ==
    LET f == search.form
        before == PerPage * (search.page - 1)
    IN
    /\ search.query = f.query
    /\ search.step # "search" => Listings(f) # {}
    /\ \A s \in Listings(f) :
          /\ search.step \in {"search", "count"} => search.seen = FirstOf(s, before)
          /\ search.step = "count" => search.rows = ApplyOffsetAndLimit(s, before, PerPage)
          /\ search.step = "page" => search.seen = FirstOf(s, PerPage * search.page)
          /\ search.step = "single" => search.seen = s
    /\ search.step = "page" => search.total = Cardinality(Found(f))

PageInv ==
    (search.step \in Live /\ ~since.search) =>
        /\ search.form.cached => cache = search.form.query
        /\ Pageable(search.form) => ListingInv

BrowseInv == SearchInv /\ PageInv

\* Using a query leaves it as it was, if none of its values is encoded.
LEMMA UsedIsTheSame ==
    ASSUME NEW f \in Forms, \A c \in f.query.and \cup f.query.or : ~Encoded(c)
    PROVE  AfterUse(f.query) = f.query
<1> DEFINE q == f.query
<1>1. q = [and |-> q.and, or |-> q.or]
  BY BrowseConstants
<1>2. \A C : (\A c \in C : ~Encoded(c))
               => {IF Encoded(c) THEN [c EXCEPT !.dumps = @ + 1] ELSE c : c \in C} = C
  OBVIOUS
<1>3. \A c \in q.and : ~Encoded(c)
  OBVIOUS
<1>4. \A c \in q.or : ~Encoded(c)
  OBVIOUS
<1>5. {IF Encoded(c) THEN [c EXCEPT !.dumps = @ + 1] ELSE c : c \in q.and} = q.and
  BY <1>2, <1>3
<1>6. {IF Encoded(c) THEN [c EXCEPT !.dumps = @ + 1] ELSE c : c \in q.or} = q.or
  BY <1>2, <1>4
<1> HIDE DEF q
<1>7. [q EXCEPT !.or = q.or] = q /\ [q EXCEPT !.and = q.and] = q
  BY <1>1
<1>8. AfterUse(q) = q
  BY <1>5, <1>6, <1>7 DEF AfterUse
<1> QED
  BY <1>8 DEF q

\* The total is that of what the search finds.
LEMMA TotalOfMatches ==
    ASSUME NEW d, NEW q, NEW only, NEW inverted
    PROVE  GetNumberOfTotalMatches(d, q, only, inverted)
             = Cardinality(BuildGenericSearchQuery(d, q, only, inverted))
  BY DEF GetNumberOfTotalMatches, BuildGenericSearchQuery

\* The rows before a page, and those up to its end.
LEMMA RowsBefore ==
    ASSUME NEW p \in Nat \ {0}
    PROVE  /\ PerPage * (p - 1) \in Nat /\ PerPage * (p - 1) + PerPage = PerPage * p
           /\ PerPage * p \in Nat /\ (p + 1) - 1 = p /\ p + 1 \in Nat \ {0} /\ PerPage * (1 - 1) = 0
<1>1. PerPage \in Nat /\ p - 1 \in Nat
  BY BrowseConstants
<1>2. \A a, b \in Nat : a * b \in Nat /\ a * b + a = a * (b + 1) /\ a * 0 = 0
  OBVIOUS
<1> QED
  BY <1>1, <1>2

-----------------------------------------------------------------------------
(* The steps of a search *)

\* Nothing has been searched for.
LEMMA BrowseInitInv == BrowseInit => BrowseInv
<1> SUFFICES ASSUME BrowseInit PROVE BrowseInv
  OBVIOUS
<1>1. WellFormed(db)
  BY BrowseConstants DEF BrowseInit
<1>2. search.step = "none"
  BY DEF BrowseInit, NoSearch
<1>3. since = [search |-> since.search, tree |-> since.tree, stats |-> since.stats]
  BY DEF BrowseInit
<1> QED
  BY <1>1, <1>2, <1>3 DEF BrowseInv, SearchInv, PageInv, Live

\* The first page is asked for.
LEMMA StartSearchKeeps ==
    ASSUME BrowseInv, NEW form \in Forms, StartSearch(form)
    PROVE  BrowseInv'
<1>1. search' = [step |-> "search", form |-> form, query |-> form.query, page |-> 1,
                 rows |-> <<>>, seen |-> <<>>, total |-> 0]
  BY DEF StartSearch
<1>2. IsSearch(search')
  BY <1>1 DEF IsSearch
<1>3. SearchInv'
  <2>1. db' = db /\ since' = [since EXCEPT !.search = FALSE]
    BY DEF StartSearch
  <2>2. WellFormed(db)' /\ since' = [search |-> since'.search, tree |-> since'.tree, stats |-> since'.stats]
    BY <2>1 DEF BrowseInv, SearchInv
  <2> QED
    BY <1>2, <2>2 DEF SearchInv, IsSearch
<1>4. search'.form.cached => cache' = search'.form.query
  BY <1>1 DEF StartSearch
<1>5. ListingInv'
  <2>1. /\ search'.step = "search" /\ search'.query = search'.form.query
        /\ search'.page = 1 /\ search'.seen = << >>
    BY <1>1
  <2>2. PerPage * (1 - 1) = 0
    BY RowsBefore
  <2>3. ASSUME NEW s \in Listings(search.form)' PROVE FirstOf(s, 0) = << >>
    <3> DEFINE M == BuildGenericSearchQuery(db', search'.form.query, search'.form.only, search'.form.inverted)
    <3>1. s \in Seq(M)
      BY <1>3, ListingIsComplete DEF Listings, SearchInv
    <3> HIDE DEF M
    <3> QED
      BY <3>1 DEF FirstOf
  <2> QED
    BY <2>1, <2>2, <2>3 DEF ListingInv
<1> QED
  BY <1>3, <1>4, <1>5 DEF BrowseInv, PageInv

\* A page is searched: the listing it is cut from is the one of the pages before.
LEMMA SearchDatabaseKeeps ==
    ASSUME BrowseInv, SearchDatabase
    PROVE  BrowseInv'
<1> DEFINE f == search.form
           skip == PerPage * (search.page - 1)
<1>1. /\ search.step = "search" /\ IsSearch(search) /\ search.step \in Live
      /\ UNCHANGED <<db, cache, tree, stats, updating, changes, since>>
  BY DEF SearchDatabase, BrowseInv, SearchInv, Live
<1>2. CASE search' = [search EXCEPT !.step = "error"]
  <2>1. search'.step = "error"
    BY <1>1, <1>2 DEF IsSearch
  <2> QED
    BY <1>1, <2>1 DEF BrowseInv, SearchInv, PageInv, Live
<1>3. ASSUME NEW s \in Results(db, search.query, f.only, f.inverted),
             search' = [search EXCEPT !.step = "count", !.query = AfterUse(@),
                                      !.rows = ApplyOffsetAndLimit(s, skip, PerPage)]
      PROVE  BrowseInv'
  <2>1. /\ search'.step = "count" /\ search'.form = f /\ search'.page = search.page
        /\ search'.query = AfterUse(search.query) /\ search'.seen = search.seen
        /\ search'.rows = ApplyOffsetAndLimit(s, skip, PerPage)
        /\ search' = [step |-> search'.step, form |-> search'.form, query |-> search'.query,
                      page |-> search'.page, rows |-> search'.rows, seen |-> search'.seen,
                      total |-> search'.total]
    BY <1>1, <1>3 DEF IsSearch
  <2>2. SearchInv'
    BY <1>1, <2>1 DEF BrowseInv, SearchInv, IsSearch
  <2>3. ASSUME ~since.search, Pageable(f) PROVE ListingInv'
    <3>1. ListingInv
      BY <1>1, <2>3 DEF BrowseInv, PageInv
    <3>2. search.query = f.query /\ AfterUse(f.query) = f.query
      BY <1>1, <2>3, <3>1, UsedIsTheSame DEF ListingInv, Pageable, IsSearch
    <3>3. s \in Listings(f) /\ \A t \in Listings(f) : t = s
      BY <1>3, <2>3, <3>2, OneListing DEF Listings, Pageable, Found, BrowseInv, SearchInv
    <3>4. search.seen = FirstOf(s, skip)
      BY <1>1, <3>1, <3>3 DEF ListingInv
    <3>5. Listings(search.form)' = Listings(f)
      BY <1>1, <2>1 DEF Listings
    <3> QED
      BY <2>1, <3>2, <3>3, <3>4, <3>5 DEF ListingInv
  <2>4. /\ cache' = cache /\ since' = since /\ search'.form = f
        /\ ~since.search => (f.cached => cache = f.query)
    BY <1>1, <2>1 DEF BrowseInv, PageInv
  <2>5. Pageable(search.form)' <=> Pageable(f)
    BY <1>1, <2>1 DEF Pageable, Found
  <2> QED
    BY <2>2, <2>3, <2>4, <2>5 DEF BrowseInv, PageInv
<1> QED
  BY <1>2, <1>3 DEF SearchDatabase

\* The rows are shown; a single one at once, and it is then the last.
LEMMA CountMatchesKeeps ==
    ASSUME BrowseInv, CountMatches
    PROVE  BrowseInv'
<1> DEFINE f == search.form
           skip == PerPage * (search.page - 1)
           single == Len(search.rows) = 1
           total == GetNumberOfTotalMatches(db, search.query, f.only, f.inverted)
<1>1. /\ search.step = "count" /\ IsSearch(search) /\ search.step \in Live
      /\ UNCHANGED <<db, cache, tree, stats, updating, changes, since>>
  BY DEF CountMatches, BrowseInv, SearchInv, Live
<1>2. /\ search'.step = IF single THEN "single" ELSE "page"
      /\ search'.form = f /\ search'.page = search.page /\ search'.query = search.query
      /\ search'.seen = search.seen \o search.rows
      /\ ~single => search'.total = total
      /\ search' = [step |-> search'.step, form |-> search'.form, query |-> search'.query,
                    page |-> search'.page, rows |-> search'.rows, seen |-> search'.seen,
                    total |-> search'.total]
  BY <1>1 DEF CountMatches, IsSearch
<1>3. SearchInv'
  BY <1>1, <1>2 DEF BrowseInv, SearchInv, IsSearch
<1>4. ASSUME ~since.search, Pageable(f) PROVE ListingInv'
  <2>1. ListingInv
    BY <1>1, <1>4 DEF BrowseInv, PageInv
  <2>2. /\ search.query = f.query /\ Listings(f) # {}
        /\ \A s \in Listings(f) : /\ search.seen = FirstOf(s, skip)
                                  /\ search.rows = ApplyOffsetAndLimit(s, skip, PerPage)
    BY <1>1, <2>1 DEF ListingInv
  <2>3. search.page \in Nat \ {0} /\ PerPage \in Nat \ {0, 1}
    BY <1>1, BrowseConstants DEF IsSearch
  <2>4. skip \in Nat /\ skip + PerPage = PerPage * search.page
    BY <2>3, RowsBefore
  <2>5. ASSUME NEW s \in Listings(f)
        PROVE  /\ search'.seen = FirstOf(s, PerPage * search.page)
               /\ single => search'.seen = s
    <3> DEFINE M == BuildGenericSearchQuery(db, f.query, f.only, f.inverted)
    <3>1. s \in Seq(M)
      BY ListingIsComplete DEF Listings, BrowseInv, SearchInv
    <3>2. /\ search.seen = FirstOf(s, skip) /\ search.rows = ApplyOffsetAndLimit(s, skip, PerPage)
          /\ skip + PerPage = PerPage * search.page /\ skip \in Nat
      BY <2>2, <2>4
    <3> HIDE DEF M, skip
    <3>3. FirstOf(s, skip) \o ApplyOffsetAndLimit(s, skip, PerPage) = FirstOf(s, skip + PerPage)
      BY <2>3, <3>1, <3>2, PagesJoin
    <3>4. Len(ApplyOffsetAndLimit(s, skip, PerPage)) = 1 => FirstOf(s, skip + PerPage) = s
      BY <2>3, <3>1, <3>2, SingleRow
    <3>5. search'.seen = FirstOf(s, skip + PerPage)
      BY <1>2, <3>2, <3>3
    <3> QED
      BY <3>2, <3>4, <3>5
  <2>6. ~single => search'.total = Cardinality(Found(f))
    <3>1. total = GetNumberOfTotalMatches(db, f.query, f.only, f.inverted)
      BY <2>2
    <3>2. total = Cardinality(BuildGenericSearchQuery(db, f.query, f.only, f.inverted))
      BY <3>1, TotalOfMatches
    <3> QED
      BY <1>2, <3>2 DEF Found
  <2>7. Listings(search.form)' = Listings(f) /\ Found(search.form)' = Found(f)
    BY <1>1, <1>2 DEF Listings, Found
  <2> QED
    BY <1>2, <2>2, <2>5, <2>6, <2>7 DEF ListingInv
<1>5. /\ cache' = cache /\ since' = since /\ search'.form = f
      /\ ~since.search => (f.cached => cache = f.query)
  BY <1>1, <1>2 DEF BrowseInv, PageInv
<1>6. Pageable(search.form)' <=> Pageable(f)
  BY <1>1, <1>2 DEF Pageable, Found
<1> QED
  BY <1>3, <1>4, <1>5, <1>6 DEF BrowseInv, PageInv

\* The next page is asked for, with the query of the form or what is cached of it.
LEMMA NextPageKeeps ==
    ASSUME BrowseInv, NextPage
    PROVE  BrowseInv'
<1> DEFINE f == search.form
<1>1. /\ search.step = "page" /\ IsSearch(search) /\ search.step \in Live
      /\ UNCHANGED <<db, cache, tree, stats, updating, changes, since>>
  BY DEF NextPage, BrowseInv, SearchInv, Live
<1>2. /\ search'.step = "search" /\ search'.form = f /\ search'.page = search.page + 1
      /\ search'.query = IF f.cached THEN cache ELSE f.query
      /\ search'.seen = search.seen
      /\ search' = [step |-> search'.step, form |-> search'.form, query |-> search'.query,
                    page |-> search'.page, rows |-> search'.rows, seen |-> search'.seen,
                    total |-> search'.total]
  BY <1>1 DEF NextPage, IsSearch
<1>3. /\ search.page \in Nat \ {0} /\ search.page + 1 \in Nat \ {0}
      /\ (search.page + 1) - 1 = search.page
  BY <1>1 DEF IsSearch
<1>4. SearchInv'
  BY <1>1, <1>2, <1>3 DEF BrowseInv, SearchInv, IsSearch
<1>5. ~since.search => (f.cached => cache = f.query)
  BY <1>1 DEF BrowseInv, PageInv
<1>6. ASSUME ~since.search, Pageable(f) PROVE ListingInv'
  <2>1. ListingInv
    BY <1>1, <1>6 DEF BrowseInv, PageInv
  <2>2. \A s \in Listings(f) : search.seen = FirstOf(s, PerPage * search.page)
    BY <1>1, <2>1 DEF ListingInv
  <2>3. Listings(search.form)' = Listings(f)
    BY <1>1, <1>2 DEF Listings
  <2>4. PerPage * (search'.page - 1) = PerPage * search.page
    BY <1>2, <1>3
  <2> QED
    BY <1>2, <1>5, <1>6, <2>2, <2>3, <2>4 DEF ListingInv
<1>7. Pageable(search.form)' <=> Pageable(f)
  BY <1>1, <1>2 DEF Pageable, Found
<1> QED
  BY <1>1, <1>2, <1>4, <1>5, <1>6, <1>7 DEF BrowseInv, PageInv

\* Other pages, and changes: while nothing changes, no page of a search does.
LEMMA OthersKeep ==
    ASSUME BrowseInv, UNCHANGED <<db, cache, search>>, since'.search = since.search,
           since' = [search |-> since'.search, tree |-> since'.tree, stats |-> since'.stats]
    PROVE  BrowseInv'
<1>1. SearchInv'
  BY DEF BrowseInv, SearchInv, IsSearch
<1>2. PageInv'
  BY DEF BrowseInv, PageInv, ListingInv, Pageable, Listings, Found
<1> QED
  BY <1>1, <1>2 DEF BrowseInv

\* A changed database is one that can be sorted.
LEMMA ChangeKeeps ==
    ASSUME BrowseInv, Change
    PROVE  BrowseInv'
<1>1. search' = search /\ since'.search
      /\ since' = [search |-> since'.search, tree |-> since'.tree, stats |-> since'.stats]
  BY DEF Change
<1>2. WellFormed(db)
  BY DEF BrowseInv, SearchInv
<1>3. ASSUME NEW u \in DOMAIN db, NEW v \in Values, SetAnalysis(u, v) PROVE WellFormed(db')
  <2>1. /\ DOMAIN db' = DOMAIN db
        /\ \A w \in DOMAIN db : \/ db'[w] = db[w]
                                \/ \E a : db'[w] = [db[w] EXCEPT !.analyses = a]
    BY <1>3 DEF SetAnalysis
  <2>2. \A w \in DOMAIN db : /\ DOMAIN db'[w] = DOMAIN db[w]
                             /\ db'[w].name = db[w].name /\ db'[w].fw = db[w].fw
                             /\ db'[w].size = db[w].size /\ db'[w].roots = db[w].roots
    BY <1>2, <2>1 DEF WellFormed
  <2>3. Firmwares(db') = Firmwares(db)
    BY <2>1, <2>2 DEF Firmwares
  <2> QED
    BY <1>2, <2>1, <2>2, <2>3 DEF WellFormed
<1>4. ASSUME NEW f \in Firmwares(db), DeleteFirmware(f) PROVE WellFormed(db')
  <2> DEFINE gone == {u \in DOMAIN db : db[u].roots = {f}} \cup {f}
  <2>1. db' = [u \in DOMAIN db \ gone |->
                 [db[u] EXCEPT !.roots = @ \ gone, !.parents = @ \ gone, !.paths = {p \in @ : p.root # f}]]
    BY <1>4 DEF DeleteFirmware
  <2> HIDE DEF gone
  <2>2. DOMAIN db' = DOMAIN db \ gone
    BY <2>1
  <2>3. \A w \in DOMAIN db' : /\ DOMAIN db'[w] = DOMAIN db[w]
                              /\ db'[w].name = db[w].name /\ db'[w].fw = db[w].fw
                              /\ db'[w].size = db[w].size /\ db'[w].roots = db[w].roots \ gone
    BY <1>2, <2>1, <2>2 DEF WellFormed
  <2>4. IsFiniteSet(DOMAIN db')
    BY <1>2, <2>2, FS_Subset DEF WellFormed
  <2>5. Firmwares(db') = Firmwares(db) \ gone
    BY <2>2, <2>3 DEF Firmwares
  <2>6. \A w \in DOMAIN db' : db'[w].roots \subseteq Firmwares(db')
    BY <1>2, <2>2, <2>3, <2>5 DEF WellFormed
  <2> QED
    BY <1>2, <2>2, <2>3, <2>4, <2>6 DEF WellFormed
<1>5. WellFormed(db')
  BY <1>2, <1>3, <1>4 DEF Change
<1>6. SearchInv'
  BY <1>1, <1>5 DEF BrowseInv, SearchInv, IsSearch
<1> QED
  BY <1>1, <1>6 DEF BrowseInv, PageInv

\* Every step keeps it.
LEMMA BrowseNextInv == BrowseInv /\ [BrowseNext]_browseVars => BrowseInv'
<1> SUFFICES ASSUME BrowseInv, [BrowseNext]_browseVars PROVE BrowseInv'
  OBVIOUS
<1>1. since = [search |-> since.search, tree |-> since.tree, stats |-> since.stats]
  BY DEF BrowseInv, SearchInv
<1>2. ASSUME NEW form \in Forms, StartSearch(form) PROVE BrowseInv'
  BY <1>2, StartSearchKeeps
<1>3. ASSUME NEW form \in Forms, RestSearch(form) PROVE BrowseInv'
  <2>1. search'.step \in {"error", "rest"} /\ db' = db
    BY <1>3 DEF RestSearch
  <2>2. since' = [search |-> since'.search, tree |-> since'.tree, stats |-> since'.stats]
    BY <1>1, <1>3 DEF RestSearch
  <2> QED
    BY <2>1, <2>2 DEF BrowseInv, SearchInv, PageInv, Live
<1>4. CASE SearchDatabase
  BY <1>4, SearchDatabaseKeeps
<1>5. CASE CountMatches
  BY <1>5, CountMatchesKeeps
<1>6. CASE NextPage
  BY <1>6, NextPageKeeps
<1>7. ASSUME NEW u, NEW root, OpenRoot(u, root) PROVE BrowseInv'
  <2>1. /\ UNCHANGED <<db, cache, search>> /\ since' = [since EXCEPT !.tree = FALSE]
    BY <1>7 DEF OpenRoot
  <2> QED
    BY <1>1, <2>1, OthersKeep
<1>8. ASSUME NEW u, Unfold(u) PROVE BrowseInv'
  <2>1. UNCHANGED <<db, cache, search, since>>
    BY <1>8 DEF Unfold
  <2> QED
    BY <1>1, <2>1, OthersKeep
<1>9. CASE UpdateStatistic
  <2>1. /\ UNCHANGED <<db, cache, search>>
        /\ since' = IF updating = 0 THEN [since EXCEPT !.stats = FALSE] ELSE since
    BY <1>9 DEF UpdateStatistic
  <2> QED
    BY <1>1, <2>1, OthersKeep
<1>10. CASE Change
  BY <1>10, ChangeKeeps
<1>11. CASE UNCHANGED browseVars
  BY <1>1, <1>11, OthersKeep DEF browseVars
<1> QED
  BY <1>2, <1>3, <1>4, <1>5, <1>6, <1>7, <1>8, <1>9, <1>10, <1>11 DEF BrowseNext

\* The invariant of the searches.
LEMMA BrowseSpecInv == BrowseSpec => []BrowseInv
  BY BrowseInitInv, BrowseNextInv, PTL DEF BrowseSpec

(***************************************************************************)
(* Whoever pages through a search while nothing changes has seen every     *)
(* match once (browse_database, generic_search): there is one listing, and *)
(* what was shown is its beginning.                                        *)
(***************************************************************************)
THEOREM EveryMatchIsShown == BrowseSpec => []PagesShowEveryMatch
<1>1. BrowseInv => PagesShowEveryMatch
  <2> DEFINE f == search.form
             M == Found(f)
  <2> SUFFICES ASSUME BrowseInv, search.step \in {"page", "single"}, ~since.search,
                      search.step = "page" => search.page * PerPage >= search.total,
                      OrdersUniquely(db, f.query, f.only, M),
                      \A c \in f.query.and \cup f.query.or : ~Encoded(c)
               PROVE  /\ IsInjective(search.seen) /\ ToSet(search.seen) = M
                      /\ search.step = "page" => search.total = Cardinality(M)
    BY DEF PagesShowEveryMatch, Found
  <2>1. IsSearch(search) /\ ListingInv /\ WellFormed(db)
    BY DEF BrowseInv, SearchInv, PageInv, Live, Pageable
  <2>2. PICK s \in Listings(f) : TRUE
    BY <2>1 DEF ListingInv
  <2>3. /\ s \in [1 .. Cardinality(M) -> M] /\ s \in Seq(M) /\ Len(s) = Cardinality(M)
        /\ Cardinality(M) \in Nat
        /\ \A i, j \in 1 .. Cardinality(M) : i # j => s[i] # s[j]
        /\ \A u \in M : \E i \in 1 .. Cardinality(M) : s[i] = u
    BY <2>1, ListingIsComplete DEF Listings, Found
  <2>4. search.step = "page" => search.total = Cardinality(M)
    BY <2>1 DEF ListingInv
  <2>5. search.seen = s
    <3>1. CASE search.step = "single"
      BY <2>1, <3>1 DEF ListingInv
    <3>2. CASE search.step = "page"
      <4>1. search.seen = FirstOf(s, PerPage * search.page)
        BY <2>1, <3>2 DEF ListingInv
      <4>2. PerPage * search.page \in Nat /\ PerPage * search.page >= Len(s)
        <5>1. search.page \in Nat \ {0} /\ PerPage \in Nat
          BY <2>1, BrowseConstants DEF IsSearch
        <5>2. PerPage * search.page = search.page * PerPage /\ PerPage * search.page \in Nat
          BY <5>1
        <5> QED
          BY <2>3, <2>4, <3>2, <5>2
      <4> HIDE DEF M
      <4>3. FirstOf(s, PerPage * search.page) = SubSeq(s, 1, Len(s))
        BY <2>3, <4>2 DEF FirstOf
      <4> QED
        BY <2>3, <4>1, <4>3
    <3> QED
      BY <3>1, <3>2
  <2> HIDE DEF M
  <2> QED
    BY <2>3, <2>4, <2>5 DEF IsInjective, ToSet
<1> QED
  BY <1>1, BrowseSpecInv, PTL

(***************************************************************************)
(* Conditions combine as they are meant to, for any query with conditions  *)
(* on one plugin at most (build_query_from_dict).                          *)
(***************************************************************************)
THEOREM ConditionsCombineTheorem == BrowseSpec => []ConditionsCombine
<1>1. BrowseInv => ConditionsCombine
  <2> DEFINE q == search.form.query
             plugins == {c.table : c \in Effective(q)} \ Tables
  <2> SUFFICES ASSUME BrowseInv, search.step = "count"
               PROVE  /\ (q.or = {} /\ q.and # {} /\ Cardinality(plugins) <= 1) =>
                           \A u \in DOMAIN db : u \in BuildQueryFromDict(db, q)
                              <=> \A c \in q.and : u \in BuildQueryFromDict(db, Alone(c))
                      /\ (q.or # {} /\ plugins = {}) =>
                           BuildQueryFromDict(db, q) = UNION {BuildQueryFromDict(db, Alone(c)) : c \in q.or}
    BY DEF ConditionsCombine, Alone
  <2>1. search.form \in Forms
    BY DEF BrowseInv, SearchInv, Live, IsSearch
  <2>2. IsFiniteSet(q.and)
    BY <2>1, BrowseConstants
  <2>3. ASSUME q.or = {}, q.and # {}, Cardinality(plugins) <= 1, NEW u \in DOMAIN db
        PROVE  u \in BuildQueryFromDict(db, q)
                 <=> \A c \in q.and : u \in BuildQueryFromDict(db, Alone(c))
    <3>1. plugins = {c.table : c \in q.and} \ Tables
      BY <2>3 DEF Effective
    <3> QED
      BY <2>2, <2>3, <3>1, AllConditions
  <2>4. ASSUME q.or # {}, plugins = {}
        PROVE  BuildQueryFromDict(db, q) = UNION {BuildQueryFromDict(db, Alone(c)) : c \in q.or}
    <3>1. plugins = {c.table : c \in q.or} \ Tables
      BY <2>4 DEF Effective
    <3> QED
      BY <2>4, <3>1, AnyCondition
  <2> QED
    BY <2>3, <2>4
<1> QED
  BY <1>1, BrowseSpecInv, PTL

(***************************************************************************)
(* Sums over finite sets.                                                  *)
(***************************************************************************)

\* Induction over the subsets of a finite set, for a set of them.
LEMMA SubsetInd ==
    ASSUME NEW D, IsFiniteSet(D), NEW G \in SUBSET SUBSET D,
           \A S \in SUBSET D : (\A x \in S : S \ {x} \in G) => S \in G
    PROVE  G = SUBSET D
<1> DEFINE N == {n \in Nat : \A S \in SUBSET D : Cardinality(S) = n => S \in G}
<1>1. \A S \in SUBSET D : IsFiniteSet(S) /\ Cardinality(S) \in Nat
  BY FS_Subset, FS_CardinalityType
<1>2. 0 \in N
  <2> SUFFICES ASSUME NEW S \in SUBSET D, Cardinality(S) = 0 PROVE S \in G
    OBVIOUS
  <2>1. S = {}
    BY <1>1, FS_EmptySet
  <2> QED
    BY <2>1
<1>3. ASSUME NEW n \in N PROVE n + 1 \in N
  <2> SUFFICES ASSUME NEW S \in SUBSET D, Cardinality(S) = n + 1 PROVE S \in G
    OBVIOUS
  <2>1. ASSUME NEW x \in S PROVE S \ {x} \in G
    <3>1. Cardinality(S \ {x}) = Cardinality(S) - 1
      BY <1>1, FS_RemoveElement
    <3>2. n \in Nat /\ Cardinality(S \ {x}) = n /\ S \ {x} \in SUBSET D
      BY <3>1
    <3> QED
      BY <3>2
  <2> QED
    BY <2>1
<1>4. N \in SUBSET Nat
  OBVIOUS
<1> HIDE DEF N
<1>5. N = Nat
  BY <1>2, <1>3, <1>4, NatInd
<1> QED
  BY <1>1, <1>5 DEF N

\* The sum over a set, with g for those over smaller ones.
SumWith(f, g, T) ==
    IF T = {} THEN 0 ELSE LET x == CHOOSE x \in T : TRUE IN f[x] + g[T \ {x}]

\* The recursion ends.
LEMMA SumsAreDefined ==
    ASSUME NEW f, IsFiniteSet(DOMAIN f)
    PROVE  \E g : g = [T \in SUBSET DOMAIN f |-> SumWith(f, g, T)]
<1> DEFINE D == DOMAIN f
           Solves(g, n) == g = [T \in {T \in SUBSET D : Cardinality(T) < n} |-> SumWith(f, g, T)]
           N == {n \in Nat : \E g : Solves(g, n)}
<1>1. \A T \in SUBSET D : IsFiniteSet(T) /\ Cardinality(T) \in Nat
  BY FS_Subset, FS_CardinalityType
<1>2. 0 \in N
  <2>1. {T \in SUBSET D : Cardinality(T) < 0} = {}
    BY <1>1
  <2>2. Solves([T \in {} |-> 0], 0)
    BY <2>1
  <2> QED
    BY <2>2
<1>3. ASSUME NEW n \in N PROVE n + 1 \in N
  <2>1. n \in Nat
    OBVIOUS
  <2>2. PICK g : Solves(g, n)
    OBVIOUS
  <2> DEFINE h == [T \in {T \in SUBSET D : Cardinality(T) < n + 1} |-> SumWith(f, g, T)]
  <2>3. \A T \in SUBSET D : Cardinality(T) < n => h[T] = g[T]
    <3>1. \A T \in SUBSET D : Cardinality(T) < n => Cardinality(T) < n + 1
      BY <1>1, <2>1
    <3> QED
      BY <2>2, <3>1
  <2>4. ASSUME NEW T \in SUBSET D, Cardinality(T) < n + 1 PROVE SumWith(f, g, T) = SumWith(f, h, T)
    <3>1. ASSUME NEW x \in T PROVE T \ {x} \in SUBSET D /\ Cardinality(T \ {x}) < n
      <4>1. Cardinality(T \ {x}) = Cardinality(T) - 1
        BY <1>1, FS_RemoveElement
      <4> QED
        BY <1>1, <2>1, <2>4, <4>1
    <3> HIDE DEF h
    <3>2. ASSUME NEW x \in T PROVE g[T \ {x}] = h[T \ {x}]
      BY <2>3, <3>1
    <3>3. T # {} => (CHOOSE x \in T : TRUE) \in T
      OBVIOUS
    <3> QED
      BY <3>2, <3>3 DEF SumWith
  <2>5. Solves(h, n + 1)
    BY <2>4
  <2> HIDE DEF h, Solves
  <2> QED
    BY <2>1, <2>5
<1>4. N \in SUBSET Nat
  OBVIOUS
<1>5. N = Nat
  <2> HIDE DEF N
  <2> QED
    BY <1>2, <1>3, <1>4, NatInd
<1>6. Cardinality(D) \in Nat /\ \A T \in SUBSET D : Cardinality(T) < Cardinality(D) + 1
  BY <1>1, FS_Subset
<1>7. Cardinality(D) + 1 \in N
  <2> HIDE DEF N, D
  <2> QED
    BY <1>5, <1>6
<1>8. PICK g : Solves(g, Cardinality(D) + 1)
  BY <1>7
<1>9. {T \in SUBSET D : Cardinality(T) < Cardinality(D) + 1} = SUBSET D
  BY <1>6
<1> QED
  BY <1>8, <1>9

\* The sum takes an element of the set, and is a number if the values are.
LEMMA SumUnfolds ==
    ASSUME NEW f, IsFiniteSet(DOMAIN f), NEW T \in SUBSET DOMAIN f
    PROVE  /\ T = {} => SumOver(f, T) = 0
           /\ T # {} => \E x \in T : SumOver(f, T) = f[x] + SumOver(f, T \ {x})
<1> DEFINE g == CHOOSE g : g = [S \in SUBSET DOMAIN f |-> SumWith(f, g, S)]
<1>1. g = [S \in SUBSET DOMAIN f |-> SumWith(f, g, S)]
  BY SumsAreDefined
<1>2. \A S \in SUBSET DOMAIN f : SumOver(f, S) = g[S]
  BY DEF SumOver, SumWith
<1> HIDE DEF g
<1>3. g[T] = SumWith(f, g, T)
  BY <1>1
<1>4. T # {} => LET x == CHOOSE x \in T : TRUE IN x \in T /\ T \ {x} \in SUBSET DOMAIN f
  OBVIOUS
<1> QED
  BY <1>2, <1>3, <1>4 DEF SumWith

\* Sums of numbers are numbers.
LEMMA SumIsNat ==
    ASSUME NEW D, IsFiniteSet(D), NEW f \in [D -> Nat], NEW T \in SUBSET D
    PROVE  SumOver(f, T) \in Nat
<1> DEFINE G == {S \in SUBSET D : SumOver(f, S) \in Nat}
<1>1. ASSUME NEW S \in SUBSET D, \A x \in S : S \ {x} \in G PROVE S \in G
  <2>1. CASE S = {}
    BY <2>1, SumUnfolds
  <2>2. CASE S # {}
    <3>1. PICK x \in S : SumOver(f, S) = f[x] + SumOver(f, S \ {x})
      BY <2>2, SumUnfolds
    <3>2. f[x] \in Nat /\ SumOver(f, S \ {x}) \in Nat
      BY <1>1
    <3> QED
      BY <3>1, <3>2
  <2> QED
    BY <2>1, <2>2
<1>2. G \in SUBSET SUBSET D
  OBVIOUS
<1> HIDE DEF G
<1>3. G = SUBSET D
  BY <1>1, <1>2, SubsetInd
<1> QED
  BY <1>3 DEF G

\* Any element may be taken first.
LEMMA SumTakes ==
    ASSUME NEW D, IsFiniteSet(D), NEW f \in [D -> Nat], NEW T \in SUBSET D, NEW z \in T
    PROVE  SumOver(f, T) = f[z] + SumOver(f, T \ {z})
<1> DEFINE G == {S \in SUBSET D : \A x \in S : SumOver(f, S) = f[x] + SumOver(f, S \ {x})}
<1>1. ASSUME NEW S \in SUBSET D, \A x \in S : S \ {x} \in G PROVE S \in G
  <2> SUFFICES ASSUME NEW x \in S PROVE SumOver(f, S) = f[x] + SumOver(f, S \ {x})
    OBVIOUS
  <2>1. PICK y \in S : SumOver(f, S) = f[y] + SumOver(f, S \ {y})
    BY SumUnfolds
  <2>2. CASE x # y
    <3> DEFINE r == SumOver(f, (S \ {x}) \ {y})
    <3>1. SumOver(f, S \ {y}) = f[x] + SumOver(f, (S \ {y}) \ {x})
      BY <1>1, <2>2
    <3>2. SumOver(f, S \ {x}) = f[y] + SumOver(f, (S \ {x}) \ {y})
      BY <1>1, <2>2
    <3>3. (S \ {y}) \ {x} = (S \ {x}) \ {y}
      OBVIOUS
    <3>4. f[x] \in Nat /\ f[y] \in Nat /\ r \in Nat
      BY SumIsNat
    <3>5. SumOver(f, S \ {y}) = f[x] + r /\ SumOver(f, S \ {x}) = f[y] + r
      BY <3>1, <3>2, <3>3
    <3> HIDE DEF r
    <3> QED
      BY <2>1, <3>4, <3>5
  <2> QED
    BY <2>1, <2>2
<1>2. G \in SUBSET SUBSET D
  OBVIOUS
<1> HIDE DEF G
<1>3. G = SUBSET D
  BY <1>1, <1>2, SubsetInd
<1> QED
  BY <1>3 DEF G

\* The sum over a set of one element.
LEMMA SumOfOne ==
    ASSUME NEW D, IsFiniteSet(D), NEW f \in [D -> Nat], NEW z \in D
    PROVE  SumOver(f, {z}) = f[z]
<1>1. {z} \in SUBSET D /\ z \in {z} /\ {z} \ {z} = {} /\ {} \in SUBSET D
  OBVIOUS
<1>2. SumOver(f, {z}) = f[z] + SumOver(f, {})
  <2>1. SumOver(f, {z}) = f[z] + SumOver(f, {z} \ {z})
    BY <1>1, SumTakes
  <2> QED
    BY <1>1, <2>1
<1>3. SumOver(f, {}) = 0
  BY <1>1, SumUnfolds
<1>4. f[z] \in Nat
  OBVIOUS
<1> QED
  BY <1>2, <1>3, <1>4

\* The sum over two sets that are disjoint.
LEMMA SumOfUnion ==
    ASSUME NEW D, IsFiniteSet(D), NEW f \in [D -> Nat], NEW A \in SUBSET D, NEW B \in SUBSET D,
           A \cap B = {}
    PROVE  SumOver(f, A \cup B) = SumOver(f, A) + SumOver(f, B)
<1> DEFINE G == {S \in SUBSET B : SumOver(f, A \cup S) = SumOver(f, A) + SumOver(f, S)}
<1>1. ASSUME NEW S \in SUBSET B, \A x \in S : S \ {x} \in G PROVE S \in G
  <2>1. CASE S = {}
    <3>1. SumOver(f, S) = 0 /\ A \cup S = A /\ SumOver(f, A) \in Nat
      BY <2>1, SumUnfolds, SumIsNat
    <3> QED
      BY <3>1
  <2>2. CASE S # {}
    <3>1. PICK x \in S : TRUE
      BY <2>2
    <3>2. (A \cup S) \ {x} = A \cup (S \ {x})
      OBVIOUS
    <3>3. SumOver(f, A \cup S) = f[x] + SumOver(f, A \cup (S \ {x}))
      BY <3>2, SumTakes
    <3>4. SumOver(f, S) = f[x] + SumOver(f, S \ {x})
      BY SumTakes
    <3>5. SumOver(f, A \cup (S \ {x})) = SumOver(f, A) + SumOver(f, S \ {x})
      BY <1>1
    <3>6. f[x] \in Nat /\ SumOver(f, A) \in Nat /\ SumOver(f, S \ {x}) \in Nat
      BY SumIsNat
    <3> QED
      BY <3>3, <3>4, <3>5, <3>6
  <2> QED
    BY <2>1, <2>2
<1>2. G \in SUBSET SUBSET B /\ IsFiniteSet(B)
  BY FS_Subset
<1> HIDE DEF G
<1>3. G = SUBSET B
  BY <1>1, <1>2, SubsetInd
<1> QED
  BY <1>3 DEF G

\* The rows with the vendor w.
Part(R, ven, w) == {r \in R : ven[r] = w}

\* A sum is that of its parts, for a partition by ven.
LEMMA SumOfParts ==
    ASSUME NEW D, IsFiniteSet(D), NEW f \in [D -> Nat], NEW R \in SUBSET D,
           NEW V, IsFiniteSet(V), NEW ven, \A r \in R : ven[r] \in V,
           NEW h \in [V -> Nat], \A w \in V : h[w] = SumOver(f, Part(R, ven, w))
    PROVE  SumOver(h, V) = SumOver(f, R)
<1> DEFINE Of(T) == {r \in R : ven[r] \in T}
           G == {T \in SUBSET V : SumOver(h, T) = SumOver(f, Of(T))}
<1>1. ASSUME NEW T \in SUBSET V, \A x \in T : T \ {x} \in G PROVE T \in G
  <2>1. CASE T = {}
    <3>1. Of(T) = {} /\ SumOver(h, T) = 0
      BY <2>1, SumUnfolds
    <3>2. SumOver(f, {}) = 0
      BY SumUnfolds
    <3> QED
      BY <3>1, <3>2
  <2>2. CASE T # {}
    <3>1. PICK x \in T : TRUE
      BY <2>2
    <3> DEFINE A == Of(T \ {x})
               B == Part(R, ven, x)
    <3>2. Of(T) = A \cup B /\ A \cap B = {} /\ A \in SUBSET D /\ B \in SUBSET D
      BY DEF Part
    <3>3. SumOver(h, T) = h[x] + SumOver(h, T \ {x})
      BY SumTakes
    <3>4. h[x] = SumOver(f, B) /\ SumOver(h, T \ {x}) = SumOver(f, A)
      BY <1>1
    <3> HIDE DEF A, B, Of
    <3>5. SumOver(f, Of(T)) = SumOver(f, A) + SumOver(f, B)
      BY <3>2, SumOfUnion
    <3>6. SumOver(f, A) \in Nat /\ SumOver(f, B) \in Nat
      BY <3>2, SumIsNat
    <3>7. SumOver(h, T) = SumOver(f, Of(T))
      BY <3>3, <3>4, <3>5, <3>6
    <3> QED
      BY <3>7
  <2> QED
    BY <2>1, <2>2
<1>2. G \in SUBSET SUBSET V
  OBVIOUS
<1>3. G = SUBSET V
  <2> HIDE DEF G
  <2> QED
    BY <1>1, <1>2, SubsetInd
<1>4. Of(V) = R
  OBVIOUS
<1> QED
  BY <1>3, <1>4

\* The size of a set is a sum.
LEMMA SizeIsSum ==
    ASSUME NEW D, IsFiniteSet(D), NEW T \in SUBSET D
    PROVE  SumOver([r \in D |-> 1], T) = Cardinality(T)
<1> DEFINE f == [r \in D |-> 1]
           G == {S \in SUBSET D : SumOver(f, S) = Cardinality(S)}
<1>1. f \in [D -> Nat] /\ \A x \in D : f[x] = 1
  OBVIOUS
<1> HIDE DEF f
<1>2. ASSUME NEW S \in SUBSET D, \A x \in S : S \ {x} \in G PROVE S \in G
  <2>1. IsFiniteSet(S)
    BY FS_Subset
  <2>2. CASE S = {}
    BY <1>1, <2>2, SumUnfolds, FS_EmptySet
  <2>3. CASE S # {}
    <3>1. PICK x \in S : TRUE
      BY <2>3
    <3>2. SumOver(f, S) = 1 + SumOver(f, S \ {x}) /\ SumOver(f, S \ {x}) = Cardinality(S \ {x})
      BY <1>1, <1>2, SumTakes
    <3>3. Cardinality(S \ {x}) = Cardinality(S) - 1 /\ Cardinality(S) \in Nat
      BY <2>1, FS_RemoveElement, FS_CardinalityType
    <3> QED
      BY <3>2, <3>3
  <2> QED
    BY <2>2, <2>3
<1>3. G \in SUBSET SUBSET D
  OBVIOUS
<1> HIDE DEF G
<1>4. G = SUBSET D
  BY <1>2, <1>3, SubsetInd
<1> QED
  BY <1>4 DEF G, f

\* The size of a set is the sum of those of its parts.
LEMMA SizeOfParts ==
    ASSUME NEW R, IsFiniteSet(R), NEW V, IsFiniteSet(V), NEW ven, \A r \in R : ven[r] \in V,
           NEW h, h = [w \in V |-> Cardinality(Part(R, ven, w))]
    PROVE  SumOver(h, V) = Cardinality(R)
<1> DEFINE f == [r \in R |-> 1]
<1>1. f \in [R -> Nat] /\ R \in SUBSET R
  OBVIOUS
<1>2. \A T \in SUBSET R : SumOver(f, T) = Cardinality(T) /\ Cardinality(T) \in Nat
  BY SizeIsSum, FS_Subset, FS_CardinalityType
<1> HIDE DEF f
<1>3. \A w \in V : Part(R, ven, w) \in SUBSET R
  BY DEF Part
<1>4. h \in [V -> Nat]
  BY <1>2, <1>3
<1>5. \A w \in V : h[w] = SumOver(f, Part(R, ven, w))
  BY <1>2, <1>3
<1>6. SumOver(h, V) = SumOver(f, R)
  BY <1>1, <1>4, <1>5, SumOfParts
<1> QED
  BY <1>1, <1>2, <1>6

\* The least and the greatest number of a finite set.
LEMMA MinAndMax ==
    ASSUME NEW S \in SUBSET Nat, IsFiniteSet(S), S # {}
    PROVE  /\ Min(S) \in S /\ Max(S) \in S
           /\ \A y \in S : Min(S) <= y /\ y <= Max(S)
<1> DEFINE Bounds(T) == (\E x \in T : \A y \in T : x <= y) /\ (\E x \in T : \A y \in T : x >= y)
           G == {T \in SUBSET S : T = {} \/ Bounds(T)}
<1>1. ASSUME NEW T \in SUBSET S, \A x \in T : T \ {x} \in G PROVE T \in G
  <2> SUFFICES ASSUME T # {} PROVE Bounds(T)
    OBVIOUS
  <2>1. PICK x \in T : TRUE
    OBVIOUS
  <2>2. CASE T \ {x} = {}
    <3>1. \A y \in T : y = x /\ y \in Nat
      BY <2>2
    <3> QED
      BY <3>1
  <2>3. CASE T \ {x} # {}
    <3>1. Bounds(T \ {x})
      BY <1>1, <2>3
    <3>2. PICK a \in T \ {x} : \A y \in T \ {x} : a <= y
      BY <3>1
    <3>3. PICK b \in T \ {x} : \A y \in T \ {x} : b >= y
      BY <3>1
    <3>4. a \in Nat /\ b \in Nat /\ x \in Nat /\ \A y \in T : y \in Nat /\ (y = x \/ y \in T \ {x})
      OBVIOUS
    <3>5. \E m \in T : \A y \in T : m <= y
      <4>1. CASE a <= x
        BY <3>2, <3>4, <4>1
      <4>2. CASE ~(a <= x)
        BY <3>2, <3>4, <4>2
      <4> QED
        BY <4>1, <4>2
    <3>6. \E m \in T : \A y \in T : m >= y
      <4>1. CASE b >= x
        BY <3>3, <3>4, <4>1
      <4>2. CASE ~(b >= x)
        BY <3>3, <3>4, <4>2
      <4> QED
        BY <4>1, <4>2
    <3> QED
      BY <3>5, <3>6
  <2> QED
    BY <2>2, <2>3
<1>2. G \in SUBSET SUBSET S
  OBVIOUS
<1>3. G = SUBSET S
  <2> HIDE DEF G
  <2> QED
    BY <1>1, <1>2, SubsetInd
<1>4. Bounds(S)
  BY <1>3
<1>5. Min(S) \in S /\ \A y \in S : Min(S) <= y
  BY <1>4 DEF Min
<1>6. Max(S) \in S /\ \A y \in S : Max(S) >= y
  BY <1>4 DEF Max
<1>7. \A y \in S : y \in Nat
  OBVIOUS
<1> QED
  BY <1>5, <1>6, <1>7

-----------------------------------------------------------------------------
(* Numbers and vendors *)

Vendors(d) == {d[f].fw.vendor : f \in Firmwares(d)}
VendorOf(d, r) == d[r[2]].fw.vendor
\* The images of a vendor, and the rows with one.
MadeBy(d, F, w) == {f \in F : d[f].fw.vendor = w}
OfVendor(d, R, w) == {r \in R : VendorOf(d, r) = w}

\* The tables are finite, and a vendor is a filter.
LEMMA TablesAreFinite ==
    ASSUME NEW d, WellFormed(d)
    PROVE  /\ Firmwares(d) \subseteq DOMAIN d /\ IsFiniteSet(Firmwares(d))
           /\ IsFiniteSet(DOMAIN d) /\ IsFiniteSet(Vendors(d))
           /\ IsFiniteSet((DOMAIN d) \X Firmwares(d))
<1>1. Firmwares(d) \subseteq DOMAIN d /\ IsFiniteSet(DOMAIN d)
  BY DEF WellFormed, Firmwares
<1>2. IsFiniteSet(Firmwares(d))
  BY <1>1, FS_Subset
<1>3. IsFiniteSet(Vendors(d))
  <2> DEFINE F == Firmwares(d)
             ven == [f \in F |-> d[f].fw.vendor]
  <2>1. ven \in Surjection(F, Vendors(d))
    BY DEF Vendors, Surjection
  <2> HIDE DEF F, ven
  <2> QED
    BY <1>2, <2>1, FS_Surjection DEF F
<1>4. IsFiniteSet((DOMAIN d) \X Firmwares(d))
  BY <1>1, <1>2, FS_Product
<1> QED
  BY <1>1, <1>2, <1>3, <1>4

\* Without a filter every image matches,
LEMMA AllMatch ==
    ASSUME NEW d
    PROVE  Matching(d, AnyFw) = Firmwares(d)
  BY DEF Matching

\* with one those of the vendor.
LEMMA WhatMatches ==
    ASSUME NEW d, NEW w
    PROVE  Matching(d, {w}) = MadeBy(d, Firmwares(d), w)
<1>1. {w} # AnyFw
  BY DEF AnyFw
<1> QED
  BY <1>1 DEF Matching, MadeBy

\* Images are counted by vendor.
LEMMA ImagesByVendor ==
    ASSUME NEW d, WellFormed(d), NEW R \in SUBSET Firmwares(d), NEW h,
           h = [w \in Vendors(d) |-> Cardinality(MadeBy(d, R, w))]
    PROVE  SumOver(h, Vendors(d)) = Cardinality(R)
<1> DEFINE ven == [f \in R |-> d[f].fw.vendor]
<1>1. IsFiniteSet(R) /\ IsFiniteSet(Vendors(d))
  BY TablesAreFinite, FS_Subset
<1>2. \A f \in R : ven[f] \in Vendors(d)
  BY DEF Vendors
<1>3. \A w \in Vendors(d) : Part(R, ven, w) = MadeBy(d, R, w)
  BY DEF Part, MadeBy
<1> HIDE DEF ven
<1>4. h = [w \in Vendors(d) |-> Cardinality(Part(R, ven, w))]
  BY <1>3
<1> QED
  BY <1>1, <1>2, <1>4, SizeOfParts

\* So are the rows of a join with images,
LEMMA RowsByVendor ==
    ASSUME NEW d, WellFormed(d), NEW R \in SUBSET ((DOMAIN d) \X Firmwares(d)), NEW h,
           h = [w \in Vendors(d) |-> Cardinality(OfVendor(d, R, w))]
    PROVE  SumOver(h, Vendors(d)) = Cardinality(R)
<1> DEFINE ven == [r \in R |-> VendorOf(d, r)]
<1>1. IsFiniteSet(R) /\ IsFiniteSet(Vendors(d))
  BY TablesAreFinite, FS_Subset
<1>2. \A r \in R : ven[r] \in Vendors(d)
  BY DEF Vendors, VendorOf
<1>3. \A w \in Vendors(d) : Part(R, ven, w) = OfVendor(d, R, w)
  BY DEF Part, OfVendor
<1> HIDE DEF ven
<1>4. h = [w \in Vendors(d) |-> Cardinality(Part(R, ven, w))]
  BY <1>3
<1> QED
  BY <1>1, <1>2, <1>4, SizeOfParts

\* and the sizes in them.
Sizes(d) == [r \in (DOMAIN d) \X Firmwares(d) |-> d[r[1]].size]

LEMMA SizesByVendor ==
    ASSUME NEW d, WellFormed(d), NEW R \in SUBSET ((DOMAIN d) \X Firmwares(d))
    PROVE  SumOver([w \in Vendors(d) |-> SumOver(Sizes(d), OfVendor(d, R, w))], Vendors(d))
             = SumOver(Sizes(d), R)
<1> DEFINE h == [w \in Vendors(d) |-> SumOver(Sizes(d), OfVendor(d, R, w))]
           ven == [r \in R |-> VendorOf(d, r)]
           D == (DOMAIN d) \X Firmwares(d)
           f == Sizes(d)
           V == Vendors(d)
<1>1. IsFiniteSet(D) /\ IsFiniteSet(V)
  BY TablesAreFinite
<1>2. \A r \in R : ven[r] \in V
  BY DEF Vendors, VendorOf
<1>3. \A w \in V : Part(R, ven, w) = OfVendor(d, R, w)
  BY DEF Part, OfVendor
<1>4. \A r \in D : d[r[1]].size \in Nat
  BY DEF WellFormed
<1>5. f \in [D -> Nat] /\ R \in SUBSET D
  BY <1>4 DEF Sizes
<1> HIDE DEF ven, D, f, V, h
<1>6. \A w \in V : Part(R, ven, w) \in SUBSET D
  BY <1>5 DEF Part
<1>7. h = [w \in V |-> SumOver(f, Part(R, ven, w))]
  BY <1>3 DEF V, f, h
<1>8. \A w \in V : SumOver(f, Part(R, ven, w)) \in Nat
  BY <1>1, <1>5, <1>6, SumIsNat
<1>9. h \in [V -> Nat] /\ \A w \in V : h[w] = SumOver(f, Part(R, ven, w))
  BY <1>7, <1>8
<1>10. SumOver(h, V) = SumOver(f, R)
  BY <1>1, <1>2, <1>5, <1>9, SumOfParts
<1> QED
  BY <1>10 DEF V, f, h

\* The joins of a vendor are the rows with its images,
LEMMA JoinsByVendor ==
    ASSUME NEW d, NEW w
    PROVE  /\ JoinFw(d, {w}) = OfVendor(d, JoinFw(d, AnyFw), w)
           /\ JoinFo(d, {w}) = OfVendor(d, JoinFo(d, AnyFw), w)
<1> DEFINE F == Firmwares(d)
           M == {f \in F : d[f].fw.vendor = w}
<1>0. Matching(d, AnyFw) = F /\ Matching(d, {w}) = M
  BY AllMatch, WhatMatches DEF MadeBy
<1>1. JoinFw(d, {w}) = OfVendor(d, JoinFw(d, AnyFw), w)
  <2>1. JoinFw(d, {w}) = {<<f, f>> : f \in M} /\ JoinFw(d, AnyFw) = {<<f, f>> : f \in F}
    BY <1>0 DEF JoinFw
  <2>2. {<<f, f>> : f \in M} = {r \in {<<f, f>> : f \in F} : d[r[2]].fw.vendor = w}
    <3> HIDE DEF F
    <3> QED
      OBVIOUS
  <2> QED
    BY <2>1, <2>2 DEF VendorOf, OfVendor
<1>2. JoinFo(d, {w}) = OfVendor(d, JoinFo(d, AnyFw), w)
  <2>1. /\ JoinFo(d, {w}) = {r \in (DOMAIN d) \X M : r[2] \in d[r[1]].roots}
        /\ JoinFo(d, AnyFw) = {r \in (DOMAIN d) \X F : r[2] \in d[r[1]].roots}
    BY <1>0 DEF JoinFo
  <2> HIDE DEF F
  <2>2. \A r \in (DOMAIN d) \X F : r \in (DOMAIN d) \X M <=> VendorOf(d, r) = w
    BY DEF VendorOf
  <2>3. \A r \in (DOMAIN d) \X M : r \in (DOMAIN d) \X F
    OBVIOUS
  <2> QED
    BY <2>1, <2>2, <2>3 DEF OfVendor
<1> QED
  BY <1>1, <1>2

\* also those with a result.
LEMMA ResultsByVendor ==
    ASSUME NEW d, NEW w, NEW p, NEW v
    PROVE  WithValue(d, JoinFo(d, {w}), p, v) = OfVendor(d, WithValue(d, JoinFo(d, AnyFw), p, v), w)
<1>1. JoinFo(d, {w}) = OfVendor(d, JoinFo(d, AnyFw), w)
  BY JoinsByVendor
<1> QED
  BY <1>1 DEF WithValue, WithAnalysis, OfVendor

\* Joins are of files with images.
LEMMA JoinsAreRows ==
    ASSUME NEW d
    PROVE  /\ JoinFw(d, AnyFw) \in SUBSET ((DOMAIN d) \X Firmwares(d))
           /\ JoinFo(d, AnyFw) \in SUBSET ((DOMAIN d) \X Firmwares(d))
           /\ \A p, v : WithValue(d, JoinFo(d, AnyFw), p, v) \in SUBSET ((DOMAIN d) \X Firmwares(d))
<1>0. Matching(d, AnyFw) = Firmwares(d) /\ Firmwares(d) \subseteq DOMAIN d
  BY AllMatch DEF Firmwares
<1>1. JoinFw(d, AnyFw) \in SUBSET ((DOMAIN d) \X Firmwares(d))
  BY <1>0 DEF JoinFw
<1>2. JoinFo(d, AnyFw) \in SUBSET ((DOMAIN d) \X Firmwares(d))
  BY <1>0 DEF JoinFo
<1>3. \A p, v : WithValue(d, JoinFo(d, AnyFw), p, v) \in SUBSET ((DOMAIN d) \X Firmwares(d))
  BY <1>2 DEF WithValue, WithAnalysis
<1> QED
  BY <1>1, <1>2, <1>3

-----------------------------------------------------------------------------
(* The entries *)

NumbersFor(d, match, id) == GetStats(d, match, Plugin, Values, id)
\* The numbers of an entry are the sums of those for the vendors.
AddsUp(d, id) ==
    \A v \in DOMAIN NumbersFor(d, AnyFw, id) :
        NumbersFor(d, AnyFw, id)[v] = SumOver([w \in Vendors(d) |-> Number(NumbersFor(d, {w}, id), v)], Vendors(d))

\* The number of images.
LEMMA MetaAddsUp ==
    ASSUME NEW d, WellFormed(d)
    PROVE  AddsUp(d, "firmware_meta")
<1> DEFINE id == "firmware_meta"
           h == [w \in Vendors(d) |-> Cardinality(MadeBy(d, Firmwares(d), w))]
<1>1. \A match : NumbersFor(d, match, id) = [f \in {1} |-> Cardinality(Matching(d, match))]
  BY DEF NumbersFor, GetStats
<1>2. \A v \in {1}, w \in Vendors(d) : Number(NumbersFor(d, {w}, id), v) = h[w]
  <2> TAKE v \in {1}, w \in Vendors(d)
  <2>1. Matching(d, {w}) = MadeBy(d, Firmwares(d), w)
    BY WhatMatches
  <2>2. Number(NumbersFor(d, {w}, id), v) = Cardinality(Matching(d, {w}))
    BY <1>1 DEF Number
  <2> QED
    BY <2>1, <2>2
<1>3. SumOver(h, Vendors(d)) = Cardinality(Firmwares(d))
  BY ImagesByVendor
<1>4. \A v \in {1} : [w \in Vendors(d) |-> Number(NumbersFor(d, {w}, id), v)] = h
  BY <1>2
<1>5. DOMAIN NumbersFor(d, AnyFw, id) = {1} /\ NumbersFor(d, AnyFw, id)[1] = Cardinality(Firmwares(d))
  BY <1>1, AllMatch
<1> HIDE DEF h
<1> QED
  BY <1>3, <1>4, <1>5 DEF AddsUp

\* The types of files and their keys.
LEMMA ResultsAddUp ==
    ASSUME NEW d, WellFormed(d), NEW id \in {"file_type", "crypto_material"}
    PROVE  AddsUp(d, id)
<1> DEFINE R(v) == WithValue(d, JoinFo(d, AnyFw), Plugin, v)
           h(v) == [w \in Vendors(d) |-> Cardinality(OfVendor(d, R(v), w))]
<1>1. \A match : NumbersFor(d, match, id) =
                    [v \in Values |-> Cardinality(WithValue(d, JoinFo(d, match), Plugin, v))]
  BY DEF NumbersFor, GetStats, CountInAnalysis
<1>2. \A v \in Values, w \in Vendors(d) : Number(NumbersFor(d, {w}, id), v) = h(v)[w]
  <2> TAKE v \in Values, w \in Vendors(d)
  <2>1. WithValue(d, JoinFo(d, {w}), Plugin, v) = OfVendor(d, R(v), w)
    BY ResultsByVendor
  <2>2. Number(NumbersFor(d, {w}, id), v) = Cardinality(WithValue(d, JoinFo(d, {w}), Plugin, v))
    BY <1>1 DEF Number
  <2> QED
    BY <2>1, <2>2
<1>3. \A v \in Values : SumOver(h(v), Vendors(d)) = Cardinality(R(v))
  BY RowsByVendor, JoinsAreRows
<1>4. \A v \in Values : [w \in Vendors(d) |-> Number(NumbersFor(d, {w}, id), v)] = h(v)
  BY <1>2
<1>5. DOMAIN NumbersFor(d, AnyFw, id) = Values /\ \A v \in Values : NumbersFor(d, AnyFw, id)[v] = Cardinality(R(v))
  BY <1>1
<1> HIDE DEF h, R
<1> QED
  BY <1>3, <1>4, <1>5 DEF AddsUp

\* Architectures: each image has the one that was chosen for it.
LEMMA ArchitecturesAddUp ==
    ASSUME NEW d, WellFormed(d)
    PROVE  AddsUp(d, "architecture")
<1> DEFINE id == "architecture"
           Has(f, v) == /\ MostFrequent(d, f, Plugin, Values) # {}
                        /\ v = CHOOSE w \in MostFrequent(d, f, Plugin, Values) : TRUE
           R(v) == {f \in Firmwares(d) : Has(f, v)}
           h(v) == [w \in Vendors(d) |-> Cardinality(MadeBy(d, R(v), w))]
<1>1. \A match : NumbersFor(d, match, id) =
                    [v \in Values |-> Cardinality({f \in Matching(d, match) : Has(f, v)})]
  BY DEF NumbersFor, GetStats, ArchStats
<1> HIDE DEF Has
<1>2. \A v \in Values, w \in Vendors(d) : Number(NumbersFor(d, {w}, id), v) = h(v)[w]
  <2> TAKE v \in Values, w \in Vendors(d)
  <2>1. Matching(d, {w}) = MadeBy(d, Firmwares(d), w)
    BY WhatMatches
  <2>2. {f \in Matching(d, {w}) : Has(f, v)} = MadeBy(d, R(v), w)
    BY <2>1 DEF MadeBy
  <2>3. Number(NumbersFor(d, {w}, id), v) = Cardinality({f \in Matching(d, {w}) : Has(f, v)})
    BY <1>1 DEF Number
  <2> QED
    BY <2>2, <2>3
<1>3. \A v \in Values : SumOver(h(v), Vendors(d)) = Cardinality(R(v))
  BY ImagesByVendor
<1>4. \A v \in Values : [w \in Vendors(d) |-> Number(NumbersFor(d, {w}, id), v)] = h(v)
  BY <1>2
<1>5. DOMAIN NumbersFor(d, AnyFw, id) = Values /\ \A v \in Values : NumbersFor(d, AnyFw, id)[v] = Cardinality(R(v))
  BY <1>1, AllMatch
<1> HIDE DEF h, R
<1> QED
  BY <1>3, <1>4, <1>5 DEF AddsUp

\* The number of files and of images, and their sizes.
LEMMA GeneralAddsUp ==
    ASSUME NEW d, WellFormed(d)
    PROVE  AddsUp(d, "general")
<1> DEFINE id == "general"
           V == Vendors(d)
           f == Sizes(d)
           Fw == JoinFw(d, AnyFw)
           Fo == JoinFo(d, AnyFw)
           Of(R) == [w \in V |-> OfVendor(d, R, w)]
           Entry(a, b) == [i \in {1, 2, 3, 4} |->
                             CASE i = 1 -> Cardinality(a) [] i = 2 -> SumOver(f, a)
                               [] i = 3 -> Cardinality(b) [] i = 4 -> SumOver(f, b)]
<1>1. \A match : NumbersFor(d, match, id) = Entry(JoinFw(d, match), JoinFo(d, match))
  BY DEF NumbersFor, GetStats, GetCount, GetSum, Sizes
<1>2. \A w \in V : JoinFw(d, {w}) = Of(Fw)[w] /\ JoinFo(d, {w}) = Of(Fo)[w]
  BY JoinsByVendor
<1>3. Fw \in SUBSET ((DOMAIN d) \X Firmwares(d)) /\ Fo \in SUBSET ((DOMAIN d) \X Firmwares(d))
  BY JoinsAreRows
<1>4. \A R \in {Fw, Fo} : /\ SumOver([w \in V |-> Cardinality(Of(R)[w])], V) = Cardinality(R)
                          /\ SumOver([w \in V |-> SumOver(f, Of(R)[w])], V) = SumOver(f, R)
  <2> TAKE R \in {Fw, Fo}
  <2>1. R \in SUBSET ((DOMAIN d) \X Firmwares(d))
    BY <1>3
  <2>2. [w \in V |-> Cardinality(Of(R)[w])] = [w \in V |-> Cardinality(OfVendor(d, R, w))]
    OBVIOUS
  <2>3. [w \in V |-> SumOver(f, Of(R)[w])] = [w \in V |-> SumOver(f, OfVendor(d, R, w))]
    OBVIOUS
  <2>4. SumOver([w \in V |-> Cardinality(OfVendor(d, R, w))], V) = Cardinality(R)
    BY <2>1, RowsByVendor
  <2>5. SumOver([w \in V |-> SumOver(f, OfVendor(d, R, w))], V) = SumOver(f, R)
    BY <2>1, SizesByVendor
  <2> HIDE DEF Of, V, f, Fw, Fo
  <2> QED
    BY <2>2, <2>3, <2>4, <2>5
<1>5. NumbersFor(d, AnyFw, id) = Entry(Fw, Fo)
  BY <1>1
<1>6. \A w \in V : NumbersFor(d, {w}, id) = Entry(Of(Fw)[w], Of(Fo)[w])
  BY <1>1, <1>2
<1> HIDE DEF Of, V, f, Fw, Fo, id
<1>7. \A i \in {1, 2, 3, 4}, w \in V : Number(NumbersFor(d, {w}, id), i) = Entry(Of(Fw)[w], Of(Fo)[w])[i]
  BY <1>6 DEF Number
<1>8. /\ [w \in V |-> Number(NumbersFor(d, {w}, id), 1)] = [w \in V |-> Cardinality(Of(Fw)[w])]
      /\ [w \in V |-> Number(NumbersFor(d, {w}, id), 2)] = [w \in V |-> SumOver(f, Of(Fw)[w])]
      /\ [w \in V |-> Number(NumbersFor(d, {w}, id), 3)] = [w \in V |-> Cardinality(Of(Fo)[w])]
      /\ [w \in V |-> Number(NumbersFor(d, {w}, id), 4)] = [w \in V |-> SumOver(f, Of(Fo)[w])]
  BY <1>7
<1>9. DOMAIN NumbersFor(d, AnyFw, id) = {1, 2, 3, 4}
  BY <1>5
<1>10. /\ NumbersFor(d, AnyFw, id)[1] = Cardinality(Fw) /\ NumbersFor(d, AnyFw, id)[2] = SumOver(f, Fw)
       /\ NumbersFor(d, AnyFw, id)[3] = Cardinality(Fo) /\ NumbersFor(d, AnyFw, id)[4] = SumOver(f, Fo)
  BY <1>5
<1>11. \A i \in {1, 2, 3, 4} : NumbersFor(d, AnyFw, id)[i] = SumOver([w \in V |-> Number(NumbersFor(d, {w}, id), i)], V)
  BY <1>4, <1>8, <1>10
<1> QED
  BY <1>9, <1>11 DEF AddsUp, V, id

\* The images released in a month.
LEMMA DatesAddUp ==
    ASSUME NEW d, WellFormed(d)
    PROVE  AddsUp(d, "release_date")
<1> DEFINE id == "release_date"
           In(m) == {f \in Firmwares(d) : d[f].fw.date = m}
           Months(match) == {d[f].fw.date : f \in Matching(d, match)} \ {0}
           Of(match, m) == {f \in Matching(d, match) : d[f].fw.date = m}
           h(m) == [w \in Vendors(d) |-> Cardinality(MadeBy(d, In(m), w))]
<1>1. \A match : NumbersFor(d, match, id) =
          IF Months(match) = {} THEN <<>>
          ELSE [m \in Min(Months(match)) .. Max(Months(match)) |-> Cardinality(Of(match, m))]
  BY DEF NumbersFor, GetStats, DateHistogram
<1>2. \A match : Months(match) \in SUBSET (Nat \ {0}) /\ IsFiniteSet(Months(match))
  <2> TAKE match
  <2> DEFINE F == Matching(d, match)
             dates == [f \in F |-> d[f].fw.date]
  <2>1. F \subseteq Firmwares(d) /\ Firmwares(d) \subseteq DOMAIN d
    BY DEF Matching, Firmwares
  <2>2. IsFiniteSet(F)
    BY <2>1, TablesAreFinite, FS_Subset
  <2>3. {d[f].fw.date : f \in F} \subseteq Nat
    BY <2>1 DEF WellFormed
  <2>4. dates \in Surjection(F, {d[f].fw.date : f \in F})
    BY DEF Surjection
  <2>5. IsFiniteSet({d[f].fw.date : f \in F})
    <3> HIDE DEF F, dates
    <3> QED
      BY <2>2, <2>4, FS_Surjection
  <2>6. IsFiniteSet(Months(match))
    BY <2>5, FS_Subset
  <2> QED
    BY <2>3, <2>6
<1>3. \A match, m : m \notin Months(match) /\ m # 0 => Of(match, m) = {}
  OBVIOUS
<1> HIDE DEF Months, Of
<1>4. \A match, m : m \in Nat \ {0} => Number(NumbersFor(d, match, id), m) = Cardinality(Of(match, m))
  <2> SUFFICES ASSUME NEW match, NEW m \in Nat \ {0}
               PROVE  Number(NumbersFor(d, match, id), m) = Cardinality(Of(match, m))
    OBVIOUS
  <2> DEFINE M == Months(match)
             c == NumbersFor(d, match, id)
  <2>1. m \notin DOMAIN c => m \notin M
    <3>1. CASE M = {}
      BY <3>1
    <3>2. CASE M # {}
      <4>1. M \in SUBSET Nat /\ IsFiniteSet(M)
        BY <1>2
      <4> HIDE DEF M
      <4>2. Min(M) \in Nat /\ Max(M) \in Nat /\ \A y \in M : y \in Nat /\ Min(M) <= y /\ y <= Max(M)
        BY <3>2, <4>1, MinAndMax
      <4>3. DOMAIN c = Min(M) .. Max(M)
        BY <1>1, <3>2 DEF M
      <4> QED
        BY <4>2, <4>3
    <3> QED
      BY <3>1, <3>2
  <2>2. m \in DOMAIN c => c[m] = Cardinality(Of(match, m))
    <3>1. CASE M = {}
      <4>1. c = << >>
        BY <1>1, <3>1
      <4> QED
        BY <4>1
    <3>2. CASE M # {}
      <4>1. c = [k \in Min(M) .. Max(M) |-> Cardinality(Of(match, k))]
        BY <1>1, <3>2
      <4> QED
        BY <4>1
    <3> QED
      BY <3>1, <3>2
  <2>3. m \notin DOMAIN c => Cardinality(Of(match, m)) = 0
    BY <1>3, <2>1, FS_EmptySet
  <2> QED
    BY <2>2, <2>3 DEF Number
<1>5. \A m \in DOMAIN NumbersFor(d, AnyFw, id) : m \in Nat \ {0}
  <2> DEFINE M == Months(AnyFw)
  <2>1. CASE M = {}
    BY <1>1, <2>1
  <2>2. CASE M # {}
    <3>1. M \in SUBSET Nat /\ IsFiniteSet(M) /\ 0 \notin M
      BY <1>2
    <3>2. DOMAIN NumbersFor(d, AnyFw, id) = Min(M) .. Max(M)
      BY <1>1, <2>2
    <3> HIDE DEF M
    <3>3. Min(M) \in M /\ Max(M) \in M
      BY <2>2, <3>1, MinAndMax
    <3>4. Min(M) \in Nat \ {0} /\ Max(M) \in Nat
      BY <3>1, <3>3
    <3> QED
      BY <3>2, <3>4
  <2> QED
    BY <2>1, <2>2
<1>6. \A m \in DOMAIN NumbersFor(d, AnyFw, id) : NumbersFor(d, AnyFw, id)[m] = Cardinality(In(m))
  <2> TAKE m \in DOMAIN NumbersFor(d, AnyFw, id)
  <2>1. Number(NumbersFor(d, AnyFw, id), m) = NumbersFor(d, AnyFw, id)[m]
    BY DEF Number
  <2>2. Of(AnyFw, m) = In(m)
    BY AllMatch DEF Of
  <2> QED
    BY <1>4, <1>5, <2>1, <2>2
<1>7. \A m \in Nat \ {0}, w \in Vendors(d) : Number(NumbersFor(d, {w}, id), m) = h(m)[w]
  <2> TAKE m \in Nat \ {0}, w \in Vendors(d)
  <2>1. Matching(d, {w}) = MadeBy(d, Firmwares(d), w)
    BY WhatMatches
  <2>2. Of({w}, m) = MadeBy(d, In(m), w)
    BY <2>1 DEF Of, MadeBy
  <2>3. Number(NumbersFor(d, {w}, id), m) = Cardinality(Of({w}, m))
    BY <1>4
  <2> QED
    BY <2>2, <2>3
<1>8. \A m \in Nat \ {0} : [w \in Vendors(d) |-> Number(NumbersFor(d, {w}, id), m)] = h(m)
  BY <1>7
<1>9. \A m \in Nat \ {0} : SumOver(h(m), Vendors(d)) = Cardinality(In(m))
  BY ImagesByVendor
<1> HIDE DEF h, In, id
<1> QED
  BY <1>5, <1>6, <1>8, <1>9 DEF AddsUp, id

\* Every file with a result is in one image.
OneImage(d) ==
    \A u \in DOMAIN d : Plugin \in DOMAIN d[u].analyses => u \notin Firmwares(d) /\ Cardinality(d[u].roots) = 1

\* Then the rows with images are those without.
LEMMA JoinDoesNotMatter ==
    ASSUME NEW d, WellFormed(d), OneImage(d), NEW v
    PROVE  Cardinality(WithValue(d, JoinFo(d, AnyFw), Plugin, v)) = Cardinality(WithValue(d, NoJoin(d), Plugin, v))
<1> DEFINE Has(u) == Plugin \in DOMAIN d[u].analyses /\ d[u].analyses[Plugin] = v
           A == {r \in (DOMAIN d) \X Firmwares(d) : r[2] \in d[r[1]].roots /\ Has(r[1])}
           U == {u \in DOMAIN d : Has(u)}
           B == {<<u, u>> : u \in U}
           file == [r \in A |-> <<r[1], r[1]>>]
<1>1. WithValue(d, JoinFo(d, AnyFw), Plugin, v) = A
  <2>1. JoinFo(d, AnyFw) = {r \in (DOMAIN d) \X Firmwares(d) : r[2] \in d[r[1]].roots}
    BY AllMatch DEF JoinFo
  <2> QED
    BY <2>1 DEF WithValue, WithAnalysis
<1>2. WithValue(d, NoJoin(d), Plugin, v) = B
  BY DEF WithValue, WithAnalysis, NoJoin
<1>3. ASSUME NEW u \in U PROVE \E f \in Firmwares(d) : d[u].roots = {f}
  <2>1. d[u].roots \subseteq Firmwares(d) /\ IsFiniteSet(d[u].roots) /\ Cardinality(d[u].roots) = 1
    BY TablesAreFinite, FS_Subset DEF WellFormed, OneImage
  <2> QED
    BY <2>1, FS_Singleton
<1>4. \A r \in A : r[1] \in U /\ r[2] \in d[r[1]].roots /\ r = <<r[1], r[2]>>
  OBVIOUS
<1>5. \A u \in U, f \in Firmwares(d) : f \in d[u].roots => <<u, f>> \in A
  OBVIOUS
<1> HIDE DEF A, U
<1>6. file \in [A -> B]
  BY <1>4
<1>7. \A r, s \in A : file[r] = file[s] => r = s
  <2> SUFFICES ASSUME NEW r \in A, NEW s \in A, file[r] = file[s] PROVE r = s
    OBVIOUS
  <2>1. r[1] = s[1]
    OBVIOUS
  <2>2. r[2] = s[2]
    BY <1>3, <1>4, <2>1
  <2> QED
    BY <1>4, <2>1, <2>2
<1>8. \A b \in B : \E r \in A : file[r] = b
  <2> TAKE b \in B
  <2>0. PICK u \in U : b = <<u, u>>
    OBVIOUS
  <2>1. PICK f \in Firmwares(d) : d[u].roots = {f}
    BY <1>3
  <2>2. <<u, f>> \in A
    BY <1>5, <2>1
  <2>3. file[<<u, f>>] = <<u, u>>
    BY <2>2
  <2> QED
    BY <2>0, <2>2, <2>3
<1>9. IsFiniteSet(A)
  BY <1>1, TablesAreFinite, JoinsAreRows, FS_Subset
<1> HIDE DEF B, file
<1>10. file \in Bijection(A, B)
  BY <1>6, <1>7, <1>8 DEF Bijection, Injection, Surjection, IsInjective
<1>11. Cardinality(A) = Cardinality(B)
  BY <1>9, <1>10, FS_Bijection DEF ExistsBijection
<1> QED
  BY <1>1, <1>2, <1>11

\* If no file is in two images, a join has a row for each file that is in one.
LEMMA UniqueFiles ==
    ASSUME NEW d, WellFormed(d), \A u \in DOMAIN d : Cardinality(d[u].roots) <= 1,
           NEW U, U = {u \in DOMAIN d : d[u].roots # {}}
    PROVE  /\ NumbersFor(d, AnyFw, "general")[3] = Cardinality(U)
           /\ NumbersFor(d, AnyFw, "general")[4] = SumOver([u \in DOMAIN d |-> d[u].size], U)
<1> DEFINE A == {r \in (DOMAIN d) \X Firmwares(d) : r[2] \in d[r[1]].roots}
           R == (DOMAIN d) \X Firmwares(d)
           D == DOMAIN d
           f == Sizes(d)
           ven == [r \in A |-> r[1]]
           g == [u \in DOMAIN d |-> d[u].size]
           one == [r \in R |-> 1]
           all == [u \in DOMAIN d |-> 1]
<1>1. /\ NumbersFor(d, AnyFw, "general")[3] = Cardinality(A)
      /\ NumbersFor(d, AnyFw, "general")[4] = SumOver(f, A)
  <2>1. JoinFo(d, AnyFw) = A
    BY AllMatch DEF JoinFo
  <2> HIDE DEF A
  <2> QED
    BY <2>1 DEF NumbersFor, GetStats, GetCount, GetSum, Sizes
<1>2. IsFiniteSet(R) /\ IsFiniteSet(D) /\ U \in SUBSET D /\ IsFiniteSet(U) /\ A \in SUBSET R
  BY TablesAreFinite, FS_Subset
<1>3. \A u \in DOMAIN d : d[u].size \in Nat
  BY DEF WellFormed
<1>4. /\ f \in [R -> Nat] /\ g \in [D -> Nat] /\ one \in [R -> Nat] /\ all \in [D -> Nat]
      /\ \A r \in R : f[r] = g[r[1]] /\ one[r] = all[r[1]]
  BY <1>3 DEF Sizes
<1>5. \A r \in A : ven[r] \in U
  OBVIOUS
<1>6. ASSUME NEW u \in U PROVE \E r \in A : r[1] = u /\ Part(A, ven, u) = {r}
  <2>1. d[u].roots \subseteq Firmwares(d) /\ IsFiniteSet(d[u].roots)
    BY TablesAreFinite, FS_Subset DEF WellFormed
  <2>2. PICK root \in Firmwares(d) : d[u].roots = {root}
    <3>1. Cardinality(d[u].roots) \in Nat /\ Cardinality(d[u].roots) <= 1 /\ Cardinality(d[u].roots) # 0
      BY <2>1, FS_CardinalityType, FS_EmptySet
    <3>2. Cardinality(d[u].roots) = 1
      BY <3>1
    <3> QED
      BY <2>1, <3>2, FS_Singleton
  <2>3. <<u, root>> \in A /\ Part(A, ven, u) = {<<u, root>>}
    BY <2>2 DEF Part
  <2> QED
    BY <2>3
<1> HIDE DEF A, R, D, f, g, ven, one, all
<1>7. ASSUME NEW x \in [R -> Nat], NEW y \in [D -> Nat], \A r \in R : x[r] = y[r[1]]
      PROVE  SumOver(x, A) = SumOver(y, U)
  <2> DEFINE h == [u \in U |-> y[u]]
             part == [u \in D |-> IF u \in U THEN {u} ELSE {}]
             own == [u \in U |-> u]
  <2>1. h \in [U -> Nat]
    BY <1>2
  <2>2. \A u \in U : h[u] = SumOver(x, Part(A, ven, u))
    <3> TAKE u \in U
    <3>1. PICK r \in A : r[1] = u /\ Part(A, ven, u) = {r}
      BY <1>6
    <3>2. r \in R /\ SumOver(x, {r}) = x[r]
      BY <1>2, SumOfOne
    <3> QED
      BY <1>7, <3>1, <3>2
  <2>3. \A u \in U : h[u] = SumOver(y, Part(U, own, u))
    <3> TAKE u \in U
    <3>1. Part(U, own, u) = {u} /\ u \in D
      BY <1>2 DEF Part
    <3>2. SumOver(y, {u}) = y[u]
      BY <1>2, <3>1, SumOfOne
    <3> QED
      BY <3>1, <3>2
  <2>4. \A u \in U : own[u] \in U
    OBVIOUS
  <2>5. A \in SUBSET R /\ U \in SUBSET D /\ IsFiniteSet(R) /\ IsFiniteSet(D) /\ IsFiniteSet(U)
    BY <1>2
  <2> HIDE DEF h, own
  <2>6. SumOver(h, U) = SumOver(x, A)
    BY <1>5, <2>1, <2>2, <2>5, SumOfParts
  <2>7. SumOver(h, U) = SumOver(y, U)
    <3>1. IsFiniteSet(D) /\ IsFiniteSet(U)
      BY <2>5
    <3>2. PICK T \in SUBSET D : T = U
      BY <2>5
    <3>3. \A r \in T : own[r] \in U
      BY <2>4, <3>2
    <3>4. \A w \in U : h[w] = SumOver(y, Part(T, own, w))
      BY <2>3, <3>2
    <3>5. SumOver(h, U) = SumOver(y, T)
      BY <2>1, <3>1, <3>3, <3>4, SumOfParts
    <3> QED
      BY <3>2, <3>5
  <2> QED
    BY <2>6, <2>7
<1>8. SumOver(f, A) = SumOver(g, U)
  BY <1>4, <1>7
<1>9. SumOver(one, A) = SumOver(all, U)
  BY <1>4, <1>7
<1>10. SumOver(one, A) = Cardinality(A) /\ SumOver(all, U) = Cardinality(U)
  BY <1>2, SizeIsSum DEF one, all, D
<1> QED
  BY <1>1, <1>8, <1>9, <1>10 DEF g

\* Numbers that are counted without a join unless there is a filter.
LEMMA UnjoinedAddUp ==
    ASSUME NEW d, WellFormed(d), OneImage(d), NEW id \in {"unpacking", "ips_and_uris", "software_components"}
    PROVE  AddsUp(d, id)
<1> DEFINE R(v) == WithValue(d, JoinFo(d, AnyFw), Plugin, v)
           h(v) == [w \in Vendors(d) |-> Cardinality(OfVendor(d, R(v), w))]
           Rows(match) == IF id = "unpacking" THEN JoinAllIfFiltered(d, match) ELSE JoinFoIfFiltered(d, match)
<1>1. \A match : NumbersFor(d, match, id) = [v \in Values |-> Cardinality(WithValue(d, Rows(match), Plugin, v))]
  BY DEF NumbersFor, GetStats, CountUnpacked, CountInArray
<1>2. Rows(AnyFw) = NoJoin(d)
  BY DEF JoinAllIfFiltered, JoinFoIfFiltered
<1>3. \A v, w : WithValue(d, Rows({w}), Plugin, v) = WithValue(d, JoinFo(d, {w}), Plugin, v)
  <2> TAKE v, w
  <2>1. {w} # AnyFw
    BY DEF AnyFw
  <2>2. Rows({w}) = JoinFo(d, {w}) \/ Rows({w}) = JoinFo(d, {w}) \cup JoinFw(d, {w})
    BY <2>1 DEF JoinAllIfFiltered, JoinFoIfFiltered, JoinAll
  <2>3. \A r \in JoinFw(d, {w}) : Plugin \notin DOMAIN d[r[1]].analyses
    <3>1. \A f \in Firmwares(d) : Plugin \notin DOMAIN d[f].analyses
      BY DEF Firmwares, OneImage
    <3>2. Matching(d, {w}) \subseteq Firmwares(d)
      BY DEF Matching
    <3>3. \A r \in JoinFw(d, {w}) : r[1] \in Matching(d, {w})
      BY DEF JoinFw
    <3> QED
      BY <3>1, <3>2, <3>3
  <2> HIDE DEF Rows
  <2> QED
    BY <2>2, <2>3 DEF WithValue, WithAnalysis
<1> HIDE DEF Rows
<1>4. \A v \in Values, w \in Vendors(d) : Number(NumbersFor(d, {w}, id), v) = h(v)[w]
  <2> TAKE v \in Values, w \in Vendors(d)
  <2>1. WithValue(d, JoinFo(d, {w}), Plugin, v) = OfVendor(d, R(v), w)
    BY ResultsByVendor
  <2>2. Number(NumbersFor(d, {w}, id), v) = Cardinality(WithValue(d, Rows({w}), Plugin, v))
    BY <1>1 DEF Number
  <2> QED
    BY <1>3, <2>1, <2>2
<1>5. \A v \in Values : SumOver(h(v), Vendors(d)) = Cardinality(R(v))
  BY RowsByVendor, JoinsAreRows
<1>6. \A v \in Values : [w \in Vendors(d) |-> Number(NumbersFor(d, {w}, id), v)] = h(v)
  BY <1>4
<1>7. \A v : Cardinality(R(v)) = Cardinality(WithValue(d, NoJoin(d), Plugin, v))
  BY JoinDoesNotMatter
<1> HIDE DEF h, R
<1>8. DOMAIN NumbersFor(d, AnyFw, id) = Values /\ \A v \in Values : NumbersFor(d, AnyFw, id)[v] = Cardinality(R(v))
  BY <1>1, <1>2, <1>7
<1> QED
  BY <1>5, <1>6, <1>8 DEF AddsUp

\* Every entry but that of the executables, which is never filtered.
LEMMA EntriesAddUp ==
    ASSUME NEW d, WellFormed(d), NEW id \in {Identifiers[i] : i \in 1 .. 10}, id # "elf_executable",
           id \in {"unpacking", "ips_and_uris", "software_components"} => OneImage(d)
    PROVE  AddsUp(d, id)
<1>1. id \in {"firmware_meta", "file_type", "crypto_material", "unpacking", "architecture", "ips_and_uris",
              "release_date", "software_components", "general"}
  BY DEF Identifiers
<1> QED
  BY <1>1, MetaAddsUp, ResultsAddUp, ArchitecturesAddUp, UnjoinedAddUp, DatesAddUp, GeneralAddsUp

-----------------------------------------------------------------------------
(* The update *)

\* An entry that is what the database has now.
Current(i) == Identifiers[i] \in DOMAIN stats => stats[Identifiers[i]] = NumbersFor(db, AnyFw, Identifiers[i])

\* The entries the update has been at are current, and all of them when it is done.
StatsInv ==
    /\ updating \in 0 .. 9
    /\ DOMAIN stats \subseteq {Identifiers[i] : i \in 1 .. 10}
    /\ ~since.stats => /\ updating = 0 => \A i \in 1 .. 10 : Current(i)
                       /\ \A i \in 1 .. updating : Current(i)

\* The entries are different.
LEMMA EntriesDiffer ==
    /\ Len(Identifiers) = 10
    /\ \A i, j \in 1 .. 10 : Identifiers[i] = Identifiers[j] => i = j
  BY DEF Identifiers

\* Nothing has been stored.
LEMMA StatsInitInv == BrowseInit => StatsInv
<1> SUFFICES ASSUME BrowseInit PROVE StatsInv
  OBVIOUS
<1>1. DOMAIN stats = {} /\ updating = 0
  BY DEF BrowseInit
<1> QED
  BY <1>1 DEF StatsInv, Current

\* The update goes on with the next entry, or is done.
LEMMA UpdateKeeps ==
    ASSUME StatsInv, SearchInv, UpdateStatistic
    PROVE  StatsInv'
<1>0. PICK k \in 1 .. 10 : k = updating + 1
  BY DEF StatsInv
<1> DEFINE next == Identifiers[k]
<1>1. /\ db' = db /\ updating' = k % 10
      /\ stats' = [id \in DOMAIN stats \cup {next} |->
                     IF id = next THEN NumbersFor(db, AnyFw, next) ELSE stats[id]]
      /\ since'.stats = IF updating = 0 THEN FALSE ELSE since.stats
  BY <1>0, EntriesDiffer DEF UpdateStatistic, SearchInv, NumbersFor
<1>2. k = updating + 1 /\ k \in 1 .. 10 /\ updating \in 0 .. 9
  BY <1>0 DEF StatsInv
<1>3. updating' \in 0 .. 9 /\ (updating' = 0 => k = 10) /\ (updating' # 0 => updating' = k)
  BY <1>1, <1>2
<1>4. Current(k)'
  BY <1>1 DEF Current
<1>5. \A i \in 1 .. 10 : i # k /\ Current(i) => Current(i)'
  BY <1>1, <1>2, EntriesDiffer DEF Current
<1>6. DOMAIN stats' \subseteq {Identifiers[i] : i \in 1 .. 10}
  BY <1>1, <1>2 DEF StatsInv
<1>7. ASSUME ~since'.stats PROVE \A i \in 1 .. k : Current(i)'
  <2>1. \A i \in 1 .. k : i = k \/ i \in 1 .. updating
    BY <1>2
  <2>2. \A i \in 1 .. updating : i # k /\ i \in 1 .. 10
    BY <1>2
  <2>3. \A i \in 1 .. updating : Current(i)
    <3>1. CASE updating = 0
      BY <3>1
    <3>2. CASE updating # 0
      BY <1>1, <1>7, <3>2 DEF StatsInv
    <3> QED
      BY <3>1, <3>2
  <2> QED
    BY <1>4, <1>5, <2>1, <2>2, <2>3
<1>8. ASSUME ~since'.stats
      PROVE  (updating' = 0 => \A i \in 1 .. 10 : Current(i)') /\ \A i \in 1 .. updating' : Current(i)'
  <2>1. \A i \in 1 .. k : Current(i)'
    BY <1>7, <1>8
  <2>2. CASE updating' = 0
    BY <1>3, <2>1, <2>2
  <2>3. CASE updating' # 0
    BY <1>3, <2>1, <2>3
  <2> QED
    BY <2>2, <2>3
<1> QED
  BY <1>3, <1>6, <1>8 DEF StatsInv

\* Every step keeps it.
LEMMA StatsNextInv == StatsInv /\ SearchInv /\ [BrowseNext]_browseVars => StatsInv'
<1> SUFFICES ASSUME StatsInv, SearchInv, [BrowseNext]_browseVars PROVE StatsInv'
  OBVIOUS
<1>1. CASE UpdateStatistic
  BY <1>1, UpdateKeeps
<1>2. ASSUME UNCHANGED <<db, stats, updating>>, since'.stats = since.stats PROVE StatsInv'
  BY <1>2 DEF StatsInv, Current
<1>3. CASE Change
  <2>1. UNCHANGED <<stats, updating>> /\ since'.stats = (since.stats \/ db' # db)
    BY <1>3 DEF Change
  <2>2. CASE db' = db
    BY <2>1, <2>2, <1>2 DEF StatsInv, Current
  <2>3. CASE db' # db
    BY <2>1, <2>3 DEF StatsInv
  <2> QED
    BY <2>2, <2>3
<1>4. ASSUME NEW form \in Forms, StartSearch(form) \/ RestSearch(form) PROVE StatsInv'
  BY <1>2, <1>4 DEF StartSearch, RestSearch, SearchInv
<1>5. CASE SearchDatabase \/ CountMatches \/ NextPage
  BY <1>2, <1>5 DEF SearchDatabase, CountMatches, NextPage
<1>6. ASSUME NEW u \in DOMAIN db, NEW root \in DOMAIN db, OpenRoot(u, root) PROVE StatsInv'
  BY <1>2, <1>6 DEF OpenRoot, SearchInv
<1>7. ASSUME NEW u \in DOMAIN db, Unfold(u) PROVE StatsInv'
  BY <1>2, <1>7 DEF Unfold
<1>8. CASE UNCHANGED browseVars
  BY <1>2, <1>8 DEF browseVars
<1> QED
  BY <1>1, <1>3, <1>4, <1>5, <1>6, <1>7, <1>8 DEF BrowseNext

(***************************************************************************)
(* What an update that nothing interrupted stored (update_all_stats) is    *)
(* the sum of what the page shows live for the vendors: every row of a     *)
(* join belongs to one image, and so to one vendor.  The numbers called    *)
(* unique are those of the different files where none is in two images.    *)
(***************************************************************************)
THEOREM StatisticsAddUpTheorem == BrowseSpec => []StatisticsAddUp
<1>1. ASSUME StatsInv, SearchInv, ~since.stats, updating = 0, NEW id \in DOMAIN stats
      PROVE  stats[id] = NumbersFor(db, AnyFw, id) /\ id \in {Identifiers[j] : j \in 1 .. 10}
  <2>1. PICK i \in 1 .. 10 : id = Identifiers[i]
    BY <1>1 DEF StatsInv
  <2> QED
    BY <1>1, <2>1 DEF StatsInv, Current
<1>2. ASSUME StatsInv, SearchInv, ~since.stats, updating = 0,
             NEW id \in DOMAIN stats \ {"elf_executable"},
             id \in {"unpacking", "ips_and_uris", "software_components"} =>
               \A u \in DOMAIN db : Plugin \in DOMAIN db[u].analyses =>
                   u \notin Firmwares(db) /\ Cardinality(db[u].roots) = 1
      PROVE  \A v \in DOMAIN stats[id] :
               stats[id][v] =
                 SumOver([w \in AllVendors |-> Number(GetStats(db, {w}, Plugin, Values, id), v)],
                         AllVendors)
  <2>1. stats[id] = NumbersFor(db, AnyFw, id) /\ id \in {Identifiers[j] : j \in 1 .. 10}
    BY <1>1, <1>2
  <2>2. WellFormed(db)
    BY <1>2 DEF SearchInv
  <2>3. id \in {"unpacking", "ips_and_uris", "software_components"} => OneImage(db)
    BY <1>2 DEF OneImage
  <2>4. AddsUp(db, id)
    BY <1>2, <2>1, <2>2, <2>3, EntriesAddUp
  <2>5. AllVendors = Vendors(db)
    BY DEF AllVendors, Vendors
  <2> QED
    BY <2>1, <2>4, <2>5 DEF AddsUp, NumbersFor
<1>3. ASSUME StatsInv, SearchInv, ~since.stats, updating = 0, "general" \in DOMAIN stats, FilesAreUnique
      PROVE  /\ stats["general"][3] = Cardinality(FilesOfImages)
             /\ stats["general"][4] = SumOver([u \in DOMAIN db |-> db[u].size], FilesOfImages)
  <2>1. stats["general"] = NumbersFor(db, AnyFw, "general")
    BY <1>1, <1>3
  <2>2. WellFormed(db)
    BY <1>3 DEF SearchInv
  <2> QED
    BY <1>3, <2>1, <2>2, UniqueFiles DEF FilesAreUnique, FilesOfImages
<1>4. StatsInv /\ SearchInv => StatisticsAddUp
  BY <1>2, <1>3 DEF StatisticsAddUp
<1>5. BrowseInv => SearchInv
  BY DEF BrowseInv
<1> QED
  BY <1>4, <1>5, BrowseSpecInv, StatsInitInv, StatsNextInv, PTL DEF BrowseSpec
=============================================================================
