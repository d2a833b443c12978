----------------------------- MODULE Comparison -----------------------------
(***************************************************************************)
(* Comparisons: the pages and the REST resource that request them, the     *)
(* listener and the scheduler of the backend that carry them out           *)
(* (scheduler/comparison_scheduler.py), the comparison plugins and the     *)
(* database interface for the results.  Objects are deleted meanwhile, and *)
(* analyses are stored.                                                    *)
(*                                                                         *)
(* A session of the database is a step.  UIDs are numbers; a comparison ID *)
(* is the sequence of its UIDs, sorted.                                    *)
(***************************************************************************)
EXTENDS Integers, Sequences, FiniteSets, SequencesExt, FiniteSetsExt, Functions, TLC

CONSTANTS
    Uids,          \* firmware and other objects
    Images,        \* the objects that are firmware images
    Content,       \* the files that each object includes
    Direct,        \* those among them that are not in another file of the object
    Component,     \* the software component of each file
    Header,        \* the first bytes of each object
    Similar,       \* pairs of files whose fuzzy hashes are similar
    UidLists,      \* what the REST resource gets: in any order, an object twice
    MaxRequests,   \* bound: comparisons that are requested
    MaxDeleted     \* bound: objects that are deleted

Files == UNION {Content[u] : u \in Uids}

ASSUME ComparisonConstants ==
    /\ Uids \subseteq Nat /\ IsFiniteSet(Uids) /\ MaxRequests \in Nat /\ MaxDeleted \in Nat
    /\ DOMAIN Content = Uids /\ DOMAIN Header = Uids /\ Images \subseteq Uids
    /\ DOMAIN Direct = Uids /\ \A u \in Uids : Direct[u] \subseteq Content[u]
    /\ DOMAIN Component = Files /\ UidLists \subseteq Seq(Uids)
    /\ \A p \in Similar : <<p[2], p[1]>> \in Similar

VARIABLES
    objects,       \* objects in the database
    unpacked,      \* objects whose files are in the database
    hashed,        \* files with a result of file_hashes
    software,      \* objects with a result of software_components
    results,       \* the stored comparisons, by their ID
    basket,        \* the objects selected in the session of a browser
    tasks,         \* the queue to the listener
    queue,         \* in_queue of the scheduler
    worker,        \* the process of the scheduler
    done,          \* comparisons_done: kept in the process
    failed,        \* history: comparisons that ended with an exception or were lost in the queue
    requests,      \* history: the requests so far
    online         \* the scheduler: "up", "stopping" or "down"

vars == <<objects, unpacked, hashed, software, results, basket, tasks, queue, worker,
          done, failed, requests, online>>
database == <<objects, unpacked, hashed, software>>

Idle == [step |-> "idle", id |-> <<>>, redo |-> FALSE, loaded |-> <<>>, result |-> <<>>]

Init ==
    /\ objects = Uids
    /\ unpacked \in SUBSET Uids /\ hashed \in SUBSET Files /\ software \in SUBSET Uids
    /\ results = <<>>
    /\ basket = {}
    /\ tasks = <<>> /\ queue = <<>>
    /\ worker = Idle
    /\ done = {} /\ failed = {} /\ requests = <<>>
    /\ online = "up"

-----------------------------------------------------------------------------
(* Comparison IDs *)

\* sorted(), of a set and of a list, where equal UIDs keep their order.
ConvertUidListToCompareId(uids) ==
    [n \in 1 .. Cardinality(uids) |-> CHOOSE u \in uids : Cardinality({v \in uids : v <= u}) = n]

Place(list, i) ==
    Cardinality({j \in DOMAIN list : list[j] < list[i] \/ (list[j] = list[i] /\ j <= i)})
NormalizeCompareId(list) ==
    [n \in DOMAIN list |-> list[CHOOSE i \in DOMAIN list : Place(list, i) = n]]

\* The rows that are found are counted: an ID with an UID twice does not exist.
ObjectsExist(id) == Cardinality(ToSet(id) \cap objects) = Len(id)
ComparisonExists(id) == id \in DOMAIN results

-----------------------------------------------------------------------------
(* The plugins.  A comparison gets a list of objects, each with the files it     *)
(* includes (files_included and list_of_all_included_files) and its software. *)

Included(u) == IF u \in unpacked THEN Content[u] ELSE {}
LoadedObject(u) ==
    [uid |-> u, direct |-> IF u \in unpacked THEN Direct[u] ELSE {}, files |-> {},
     analysed |-> u \in software, software |-> {}]

Others(sets, i) == UNION {sets[j] : j \in DOMAIN sets \ {i}}

\* What all sets have in common, what only one has, and (for more than two) the rest.
InCommon(sets) == {x \in sets[1] : \A i \in DOMAIN sets : x \in sets[i]}

Exclusive(sets) == [i \in DOMAIN sets |-> sets[i] \ Others(sets, i)]
InMoreThanOne(sets) ==
    IF Len(sets) > 2
      THEN [i \in DOMAIN sets |-> (sets[i] \ InCommon(sets)) \ Exclusive(sets)[i]]
      ELSE <<>>
Coverage(sets) ==
    [sets |-> sets, common |-> InCommon(sets), exclusive |-> Exclusive(sets),
     partial |-> InMoreThanOne(sets)]

FileSets(list) == [i \in DOMAIN list |-> list[i].files]
SoftwareSets(list) == [i \in DOMAIN list |-> list[i].software]

\* The pairs that _get_similar_files compares: an exclusive file of one object with the
\* files_included of a later one.
PairsToCompare(list) ==
    {p \in ((DOMAIN list) \X Files) \X ((DOMAIN list) \X Files) :
        /\ p[1][1] < p[2][1]
        /\ p[1][2] \in Exclusive(FileSets(list))[p[1][1]] \cap hashed
        /\ p[2][2] \in list[p[2][1]].direct}

\* ssdeep.compare is called before the hash of the other file is checked.
HashMissing(list) == \E p \in PairsToCompare(list) : p[2][2] \notin hashed

\* generate_similarity_sets: the maximal cliques.
SimilarityGroups(list) ==
    LET edges == {{p[1], p[2]} : p \in {q \in PairsToCompare(list) : <<q[1][2], q[2][2]>> \in Similar}}
        Clique(g) == \A x, y \in g : x # y => {x, y} \in edges
        cliques == {g \in SUBSET (UNION edges) : Cardinality(g) > 1 /\ Clique(g)}
    IN  {g \in cliques : \A h \in cliques : g \subseteq h => g = h}

\* File_Header: which bytes of the headers agree.
ByteMask(list) ==
    LET headers == [i \in DOMAIN list |-> Header[list[i].uid]]
        bound == Min({Len(headers[i]) : i \in DOMAIN headers})
        Color(n) == IF \A i \in DOMAIN headers : headers[i][n] = headers[1][n] THEN "green"
                    ELSE IF ~IsInjective([i \in DOMAIN headers |-> headers[i][n]]) THEN "blue"
                    ELSE "red"
    IN  [n \in 1 .. bound |-> Color(n)]

\* A plugin with an unmatched dependency is skipped.
Skipped == [sets |-> <<>>, common |-> {}, exclusive |-> <<>>, partial |-> <<>>]
SoftwareResult(list) ==
    IF \A i \in DOMAIN list : list[i].analysed THEN Coverage(SoftwareSets(list)) ELSE Skipped

CompareObjects(list) ==
    [uids |-> {list[i].uid : i \in DOMAIN list}, files |-> Coverage(FileSets(list)),
     software |-> SoftwareResult(list), groups |-> SimilarityGroups(list), mask |-> ByteMask(list)]

CalculateCompId(result) == ConvertUidListToCompareId(result.uids)

-----------------------------------------------------------------------------
(* The frontend *)

Send(id, redo) ==
    /\ tasks' = Append(tasks, [id |-> id, redo |-> redo])
    /\ requests' = Append(requests, [id |-> id, redo |-> redo])

CanRequest == Len(requests) < MaxRequests

AddToCompareBasket(u) ==
    /\ CanRequest /\ u \in objects /\ u \notin basket
    /\ basket' = basket \cup {u}
    /\ UNCHANGED <<database, results, tasks, queue, worker, done, failed, requests, online>>

RemoveFromCompareBasket(u) ==
    /\ CanRequest /\ u \in basket
    /\ basket' = basket \ {u}
    /\ UNCHANGED <<database, results, tasks, queue, worker, done, failed, requests, online>>

\* remove_all_from_compare_basket, and a comparison of two text files
ClearCompareBasket ==
    /\ CanRequest /\ basket # {}
    /\ basket' = {}
    /\ UNCHANGED <<database, results, tasks, queue, worker, done, failed, requests, online>>

\* The basket is emptied before the objects are looked up.
StartCompare(redo) ==
    /\ CanRequest /\ Cardinality(basket) >= 2
    /\ basket' = {}
    /\ LET id == ConvertUidListToCompareId(basket) IN
         IF ~ObjectsExist(id) \/ (~redo /\ ComparisonExists(id))
           THEN UNCHANGED <<tasks, requests>>
           ELSE Send(id, redo)
    /\ UNCHANGED <<database, results, queue, worker, done, failed, online>>

RestComparePut(list, redo) ==
    /\ CanRequest
    /\ LET id == NormalizeCompareId(list) IN
         /\ redo \/ ~ComparisonExists(id)
         /\ ObjectsExist(id)
         /\ Send(id, redo)
    /\ UNCHANGED <<database, results, basket, queue, worker, done, failed, online>>

-----------------------------------------------------------------------------
(* The backend *)

\* The listener calls add_task.
AddTask ==
    /\ tasks # <<>> /\ online = "up"
    /\ tasks' = Tail(tasks)
    /\ queue' = IF ObjectsExist(Head(tasks).id) THEN Append(queue, Head(tasks)) ELSE queue
    /\ UNCHANGED <<database, results, basket, worker, done, failed, requests, online>>

At(step) == worker.step = step

ShouldStart(task) == task.redo \/ task.id \notin done

\* _compare_single_run: there is no db_admin_interface, so a redo ends the process with
\* an AttributeError.  The function of a new process gets an argument it does not have
\* (check_worker_exceptions passes an index), so the new process ends at once.
GetTask ==
    /\ At("idle") /\ queue # <<>> /\ online = "up"
    /\ queue' = Tail(queue)
    /\ LET task == Head(queue) IN
         IF ~ShouldStart(task) THEN UNCHANGED <<worker, done, failed>>
         ELSE IF task.redo
           THEN /\ worker' = [Idle EXCEPT !.step = "dead"]
                /\ done' = {}
                /\ failed' = failed \cup {task.id}
           ELSE /\ worker' = [Idle EXCEPT !.step = "load", !.id = task.id]
                /\ done' = done \cup {task.id}
                /\ UNCHANGED failed
    /\ UNCHANGED <<database, results, basket, tasks, requests, online>>

\* Mutant: the exception is not caught.
Crash ==
    /\ worker' = [worker EXCEPT !.step = "dead"]
    /\ failed' = failed \cup {worker.id}

\* Every exception of a comparison is caught and only logged.
Abort ==
    /\ worker' = Idle
    /\ failed' = failed \cup {worker.id}

\* get_complete_object_including_all_summaries: the object, its list of files and the
\* summary of its files (of software_components) are three sessions.
LoadObject ==
    /\ At("load") /\ Len(worker.loaded) < Len(worker.id)
    /\ LET u == worker.id[Len(worker.loaded) + 1] IN
         IF u \in objects
           THEN /\ worker' = [worker EXCEPT !.step = "list", !.loaded = Append(@, LoadedObject(u))]
                /\ UNCHANGED failed
           ELSE Abort
    /\ UNCHANGED <<database, results, basket, tasks, queue, done, requests, online>>

\* Of an object that is gone: no rows for an image; a file comes with its files_included
\* and with those of them that are left.
FilesOf(o) ==
    IF o.uid \in objects THEN {Included(o.uid)}
    ELSE IF o.uid \in Images THEN {{}}
    ELSE {files \in SUBSET Content[o.uid] : o.direct \subseteq files}

ListFiles ==
    LET n == Len(worker.loaded) IN
    /\ At("list")
    /\ \E files \in FilesOf(worker.loaded[n]) :
         worker' = [worker EXCEPT !.step = "summary", !.loaded[n].files = files]
    /\ UNCHANGED <<database, results, basket, tasks, queue, done, failed, requests, online>>

\* The rows of an image are read again; the analyses of files that are gone are not found.
SummarizedFiles(o) ==
    IF o.uid \in Images THEN {IF o.uid \in objects THEN Included(o.uid) ELSE {}}
    ELSE IF o.uid \in objects THEN {o.files} ELSE SUBSET o.files

GetSummary ==
    LET n == Len(worker.loaded)
        o == worker.loaded[n] IN
    /\ At("summary")
    /\ \E files \in SummarizedFiles(o) :
         worker' = [worker EXCEPT !.step = "load",
                        !.loaded[n].software = IF o.analysed
                                               THEN {Component[f] : f \in files} ELSE {}]
    /\ UNCHANGED <<database, results, basket, tasks, queue, done, failed, requests, online>>

Compare ==
    /\ At("load") /\ Len(worker.loaded) = Len(worker.id)
    /\ IF HashMissing(worker.loaded) THEN Abort
       ELSE /\ worker' = [worker EXCEPT !.step = "check", !.result = CompareObjects(worker.loaded)]
            /\ UNCHANGED failed
    /\ UNCHANGED <<database, results, basket, tasks, queue, done, requests, online>>

\* add_comparison_result: the objects, the comparison, and the result are three sessions.
CheckObjects ==
    /\ At("check")
    /\ IF ObjectsExist(CalculateCompId(worker.result))
         THEN worker' = [worker EXCEPT !.step = "find"] /\ UNCHANGED failed
         ELSE Abort
    /\ UNCHANGED <<database, results, basket, tasks, queue, done, requests, online>>

FindComparison ==
    /\ At("find")
    /\ worker' = [worker EXCEPT !.step =
                    IF ComparisonExists(CalculateCompId(worker.result)) THEN "update" ELSE "insert"]
    /\ UNCHANGED <<database, results, basket, tasks, queue, done, failed, requests, online>>

WithResult(id) ==
    [c \in DOMAIN results \cup {id} |-> IF c = id THEN worker.result ELSE results[c]]

\* Mutant: the result is inserted although an object is gone.
InsertAnyway ==
    LET id == CalculateCompId(worker.result) IN
    /\ At("insert")
    /\ results' = WithResult(id)
    /\ worker' = Idle
    /\ UNCHANGED <<database, basket, tasks, queue, done, failed, requests, online>>

\* An object that is gone is None in the list of the entry, which is an exception.
InsertComparison ==
    LET id == CalculateCompId(worker.result) IN
    /\ At("insert")
    /\ IF ToSet(id) \subseteq objects
         THEN /\ results' = WithResult(id)
              /\ worker' = Idle /\ UNCHANGED failed
         ELSE Abort /\ UNCHANGED results
    /\ UNCHANGED <<database, basket, tasks, queue, done, requests, online>>

UpdateComparison ==
    LET id == CalculateCompId(worker.result) IN
    /\ At("update")
    /\ IF ComparisonExists(id)
         THEN /\ results' = [results EXCEPT ![id] = worker.result]
              /\ worker' = Idle /\ UNCHANGED failed
         ELSE Abort /\ UNCHANGED results
    /\ UNCHANGED <<database, basket, tasks, queue, done, requests, online>>

Shutdown ==
    /\ online = "up"
    /\ online' = "stopping"
    /\ UNCHANGED <<database, results, basket, tasks, queue, worker, done, failed, requests>>

LeaveLoop ==
    /\ At("idle") /\ online = "stopping"
    /\ worker' = [worker EXCEPT !.step = "ended"]
    /\ UNCHANGED <<database, results, basket, tasks, queue, done, failed, requests, online>>

\* The process is joined without a time limit.
Join ==
    /\ online = "stopping" /\ worker.step \in {"ended", "dead"}
    /\ online' = "down"
    /\ UNCHANGED <<database, results, basket, tasks, queue, worker, done, failed, requests>>

\* Mutant: the tasks of the listener are cleared at the start.
StartEmpty ==
    /\ online = "down"
    /\ online' = "up"
    /\ tasks' = <<>> /\ queue' = <<>> /\ worker' = Idle /\ done' = {}
    /\ failed' = failed \cup {queue[i].id : i \in DOMAIN queue}
    /\ UNCHANGED <<database, results, basket, requests>>

\* The backend is started again: Redis has kept the tasks of the listener, the scheduler
\* begins with an empty queue and has no comparison done.
Start ==
    /\ online = "down"
    /\ online' = "up"
    /\ queue' = <<>> /\ worker' = Idle /\ done' = {}
    /\ failed' = failed \cup {queue[i].id : i \in DOMAIN queue}
    /\ UNCHANGED <<database, results, basket, tasks, requests>>

-----------------------------------------------------------------------------
(* The rest of the system: analyses are stored, an object is deleted. *)

StoreAnalyses ==
    /\ \/ \E u \in objects \ unpacked : unpacked' = unpacked \cup {u} /\ UNCHANGED <<hashed, software>>
       \/ \E f \in Files \ hashed : hashed' = hashed \cup {f} /\ UNCHANGED <<unpacked, software>>
       \/ \E u \in objects \ software : software' = software \cup {u} /\ UNCHANGED <<unpacked, hashed>>
    /\ UNCHANGED <<objects, results, basket, tasks, queue, worker, done, failed, requests, online>>

\* The comparisons of an object are deleted with it.
DeleteObject(u) ==
    /\ u \in objects /\ Cardinality(Uids \ objects) < MaxDeleted
    /\ objects' = objects \ {u}
    /\ results' = Restrict(results, {id \in DOMAIN results : u \notin ToSet(id)})
    /\ UNCHANGED <<unpacked, hashed, software, basket, tasks, queue, worker, done, failed,
                   requests, online>>

Worker ==
    \/ GetTask \/ LoadObject \/ ListFiles \/ GetSummary \/ Compare \/ CheckObjects \/ FindComparison
    \/ InsertComparison \/ UpdateComparison \/ LeaveLoop

Next ==
    \/ \E u \in Uids : AddToCompareBasket(u) \/ RemoveFromCompareBasket(u) \/ DeleteObject(u)
    \/ ClearCompareBasket
    \/ \E redo \in BOOLEAN : StartCompare(redo) \/ \E list \in UidLists : RestComparePut(list, redo)
    \/ AddTask \/ Worker \/ Shutdown \/ Join \/ Start \/ StoreAnalyses

Fairness == WF_vars(AddTask) /\ WF_vars(Worker) /\ WF_vars(Join)

Spec == Init /\ [][Next]_vars /\ Fairness

-----------------------------------------------------------------------------
(* What the plugin File_Coverage makes of the sets of files: the table of  *)
(* similar files, the common files that are not all zeros, and the text    *)
(* files that changed.  A similar file is <<uid of the object, uid of the  *)
(* file>>; Short maps an uid to its first four digits.                     *)

\* The similarity of each pair of a group that was compared: lowest and highest.
get_similarity_value(group, similarity) ==
    LET values == {similarity[pair] : pair \in {p \in DOMAIN similarity : p \subseteq group}}
    IN  IF values = {} THEN << >> ELSE <<Min(values), Max(values)>>

get_similar_file_group_id(group, Short) ==
    [i \in DOMAIN group |-> <<Short[group[i][1]], Short[group[i][2]]>>]

\* The row of a group has one cell for each object: the last of its files.
Row(group, uids, similarity) ==
    [files |-> [u \in uids |->
                  LET mine == {i \in DOMAIN group : group[i][1] = u}
                  IN  IF mine = {} THEN "none" ELSE group[Max(mine)][2]],
     similarity |-> get_similarity_value(ToSet(group), similarity)]

\* Groups whose abbreviations agree share a row, that of the last.
combine_similarity_results(groups, uids, similarity, Short) ==
    LET Id(i) == get_similar_file_group_id(groups[i], Short)
    IN  [id \in {Id(i) : i \in DOMAIN groups} |->
            Row(groups[Max({i \in DOMAIN groups : Id(i) = id})], uids, similarity)]

\* The uids without an entropy of the unpacker count as zeros.
evaluate_entropy_for_list_of_uids(uids, entropy, threshold) ==
    {u \in uids \cap DOMAIN entropy : entropy[u] > threshold}

get_non_zero_common_files(in_all, not_in_all, entropy, threshold) ==
    LET lists == [k \in {"all"} \cup DOMAIN not_in_all |->
                    evaluate_entropy_for_list_of_uids(IF k = "all" THEN in_all ELSE not_in_all[k],
                                                      entropy, threshold)]
    IN  Restrict(lists, {k \in DOMAIN lists : lists[k] # {}})

\* A text file is [uid, paths]: its paths under the image.
transpose_vfp_dict(files) ==
    [path \in UNION {f.paths : f \in files} |-> {f.uid : f \in {g \in files : path \in g.paths}}]

get_vfp_of_included_text_files(files, blacklist) ==
    transpose_vfp_dict({f \in files : f.uid \notin blacklist /\ f.mime = "text/plain"})

find_changed_text_files(files_a, files_b, common_files) ==
    LET a == get_vfp_of_included_text_files(files_a, common_files)
        b == get_vfp_of_included_text_files(files_b, common_files)
    IN  [path \in DOMAIN a \cap DOMAIN b |-> a[path] \X b[path]]

-----------------------------------------------------------------------------
(* Properties *)

\* The type of the state.
TypeOK ==
    /\ objects \subseteq Uids /\ unpacked \subseteq Uids /\ software \subseteq Uids
    /\ hashed \subseteq Files /\ basket \subseteq Uids
    /\ Len(requests) <= MaxRequests
    /\ \A i \in DOMAIN queue : queue[i].id \in Seq(Uids) /\ queue[i].redo \in BOOLEAN
    /\ worker.step \in {"idle", "load", "list", "summary", "check", "find", "insert", "update", "ended", "dead"}
    /\ \A i \in DOMAIN worker.loaded : worker.loaded[i].uid = worker.id[i]
    /\ online \in {"up", "stopping", "down"}

\* There is one result for a set of objects, and all of them are in the database,
\* whatever is deleted between the sessions of add_comparison_result.
ResultsOfStoredObjects ==
    \A id \in DOMAIN results :
        /\ ToSet(id) \subseteq objects /\ ToSet(id) = results[id].uids
        /\ \A other \in DOMAIN results : ToSet(other) = ToSet(id) => other = id

\* Every element of a set is in exactly one part of the coverage (File_Coverage and
\* Software), if there are at least two objects.
Partition(cov) ==
    Len(cov.sets) > 1 =>
        \A i \in DOMAIN cov.sets :
            LET rest == IF cov.partial = <<>> THEN {} ELSE cov.partial[i] IN
            /\ cov.sets[i] = cov.common \cup cov.exclusive[i] \cup rest
            /\ cov.common \cap cov.exclusive[i] = {} /\ rest \cap (cov.common \cup cov.exclusive[i]) = {}
            /\ cov.exclusive[i] \cap Others(cov.sets, i) = {}
            /\ rest \subseteq Others(cov.sets, i)
ResultsArePartitions ==
    \A id \in DOMAIN results : Partition(results[id].files) /\ Partition(results[id].software)

\* combine_similarity_results has one place per object for a group of similar files: no
\* group has two files of an object, and all of its files are similar.
GroupsFitTheTable ==
    \A id \in DOMAIN results : \A g \in results[id].groups : \A x, y \in g :
        x # y => x[1] # y[1] /\ <<x[2], y[2]>> \in Similar

\* What is stored about a comparison is sound, and nothing but a redo ends the process
\* of the scheduler for good: whatever goes wrong in a comparison is caught
\* (_process_comparison).
ComparisonsSound ==
    /\ TypeOK /\ ResultsOfStoredObjects /\ ResultsArePartitions /\ GroupsFitTheTable
    /\ At("dead") => \E i \in DOMAIN requests : requests[i].redo

\* Once the backend stays up, and the process of its scheduler alive, every comparison
\* that was requested ends up in the database, also one that was sent before a restart or
\* while the backend was down: Redis has kept what the listener did not take.  The
\* exceptions: it failed (also an earlier time: comparisons_done keeps it from being tried
\* again), it was in the scheduler's own queue at a shutdown, or an object is deleted.
StaysUp == <>[](online = "up" /\ ~At("dead"))

RequestsAreServed ==
    StaysUp =>
        \A i \in 1 .. MaxRequests :
            (Len(requests) >= i)
              ~> /\ Len(requests) >= i
                 /\ \/ ComparisonExists(requests[i].id) \/ requests[i].id \in failed
                    \/ ~ObjectsExist(requests[i].id)
=============================================================================
