----------------------------- MODULE TaskOrder -----------------------------
(***************************************************************************)
(* The pure part of scheduler/task_scheduler.py: which plugins are run for *)
(* a request and in which orders.  fo.scheduled_analysis is a list that is *)
(* consumed from its END (fw_object.scheduled_analysis.pop()), so in a     *)
(* plan the plugin at the last index runs first.                           *)
(***************************************************************************)
EXTENDS Naturals, Sequences, FiniteSets

CONSTANTS
    Plugins,        \* the loaded analysis plugins (keys of analysis_plugins)
    Dependencies,   \* DEPENDENCIES of each plugin
    Mandatory,      \* MANDATORY_PLUGINS
    FileType        \* the plugin 'file_type', which the mime filters need

InOrder(list) == {list[i] : i \in DOMAIN list}

Distinct(list) ==
    \A i, j \in DOMAIN list : list[i] = list[j] => i = j

\* The lists of exactly the elements of S, each of them once: shuffled(S).
Shuffles(S) ==
    {list \in [1..Cardinality(S) -> S] : InOrder(list) = S /\ Distinct(list)}

(***************************************************************************)
(* get_cumulative_remaining_dependencies, and the loop that adds them until*)
(* nothing is missing.                                                     *)
(***************************************************************************)
RemainingDependencies(scheduled) ==
    (UNION {Dependencies[p] : p \in scheduled}) \ scheduled

AddDependencies[scheduled \in SUBSET Plugins] ==
    IF RemainingDependencies(scheduled) = {}
    THEN scheduled
    ELSE AddDependencies[scheduled \cup RemainingDependencies(scheduled)]

(***************************************************************************)
(* _smart_shuffle: each round puts the plugins whose dependencies are all  *)
(* scheduled in front of the list, in any order; it ends when none is left *)
(* or when none can be scheduled, which drops the rest.                    *)
(***************************************************************************)
MetDependencies(remaining, scheduled) ==
    {p \in remaining : Dependencies[p] \subseteq scheduled}

Layered[remaining \in SUBSET Plugins] ==
    [scheduled \in SUBSET Plugins |->
        LET next == MetDependencies(remaining, scheduled) IN
        IF next = {}
        THEN {<< >>}
        ELSE {later \o layer :
                later \in Layered[remaining \ next][scheduled \cup next],
                layer \in Shuffles(next)}]

\* file_type is moved to the end, which is where the list is consumed.
FileTypeFirst(list) ==
    IF FileType \notin InOrder(list)
    THEN list
    ELSE LET k == CHOOSE i \in DOMAIN list : list[i] = FileType IN
         [i \in DOMAIN list |-> IF i < k THEN list[i]
                               ELSE IF i < Len(list) THEN list[i + 1]
                               ELSE FileType]

SmartShuffle(plugins) == {FileTypeFirst(list) : list \in Layered[plugins][{}]}

(***************************************************************************)
(* What is left of a list when the elements of S are removed from it: its  *)
(* k-th element is the k-th one of the list that is not in S.              *)
(***************************************************************************)
Kept(list, S) == {i \in DOMAIN list : list[i] \notin S}

Rank(i, list, S) == Cardinality({j \in Kept(list, S) : j <= i})

Without(list, S) ==
    [k \in 1..Cardinality(Kept(list, S)) |->
        list[CHOOSE i \in Kept(list, S) : Rank(i, list, S) = k]]

(***************************************************************************)
(* schedule_analysis_tasks: the lists it can leave in scheduled_analysis.  *)
(* The mandatory plugins are added after the dependencies were.            *)
(***************************************************************************)
Plans(requested, mandatory) ==
    SmartShuffle(AddDependencies[requested] \cup
                    (IF mandatory THEN Mandatory ELSE {}))

(***************************************************************************)
(* Reference definitions.                                                  *)
(***************************************************************************)
\* No plugin is run before a plugin it depends on.
DependencyPreserving(list) ==
    \A i, j \in DOMAIN list : list[j] \in Dependencies[list[i]] => i < j

DependenciesIncluded(list) ==
    \A p \in InOrder(list) : Dependencies[p] \subseteq InOrder(list)
============================================================================
