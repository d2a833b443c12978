--------------------------- MODULE TaskScheduler ---------------------------
(***************************************************************************)
(* One call of AnalysisTaskScheduler.schedule_analysis_tasks, with its two *)
(* while loops (the closure under dependencies and the layered shuffle) as *)
(* steps.  The DEPENDENCIES of the plugins are chosen in the initial state *)
(* and never change, so a run covers every dependency graph.               *)
(***************************************************************************)
EXTENDS Naturals, Sequences, FiniteSets

CONSTANTS
    Plugins,        \* the loaded analysis plugins
    Unknown,        \* names that no loaded plugin has
    Mandatory,      \* MANDATORY_PLUGINS
    FileType        \* the plugin 'file_type'

ASSUME PluginsAssumption == IsFiniteSet(Plugins)
ASSUME MandatoryAssumption == Mandatory \subseteq Plugins
ASSUME FileTypeAssumption == FileType \in Plugins

VARIABLES
    dependencies,   \* DEPENDENCIES of each loaded plugin
    requested,      \* the plugins the caller asked for
    mandatory,      \* the flag of the same name
    pc,             \* the statement the call is at
    remaining,      \* scheduled_analyses_set, then remaining_plugins
    scheduled       \* scheduled_plugins

vars == <<dependencies, requested, mandatory, pc, remaining, scheduled>>

INSTANCE TaskOrder WITH Dependencies <- dependencies

Names == Plugins \cup Unknown

TypeOK ==
    /\ dependencies \in [Plugins -> SUBSET Names]
    /\ requested \subseteq Names
    /\ mandatory \in BOOLEAN
    /\ pc \in {"add_dependencies", "shuffle", "file_type", "done", "KeyError"}
    /\ remaining \subseteq Names
    /\ scheduled \in Seq(Plugins)

Init ==
    /\ dependencies \in [Plugins -> SUBSET Names]
    /\ requested \in SUBSET Names
    /\ mandatory \in BOOLEAN
    /\ pc = "add_dependencies"
    /\ remaining = requested
    /\ scheduled = << >>

\* self.plugins[plugin] raises a KeyError for a name that is not loaded.
UnknownPlugin ==
    /\ pc = "add_dependencies"
    /\ ~ remaining \subseteq Plugins
    /\ pc' = "KeyError"
    /\ UNCHANGED <<dependencies, requested, mandatory, remaining, scheduled>>

AddDependenciesRound ==
    /\ pc = "add_dependencies"
    /\ remaining \subseteq Plugins
    /\ RemainingDependencies(remaining) # {}
    /\ remaining' = remaining \cup RemainingDependencies(remaining)
    /\ UNCHANGED <<dependencies, requested, mandatory, pc, scheduled>>

\* Mutant: One round of dependencies only.
StartShuffleAfterOneRound ==
    /\ pc = "add_dependencies"
    /\ remaining \subseteq Plugins
    /\ RemainingDependencies(remaining) \subseteq Plugins
    /\ remaining' = remaining \cup RemainingDependencies(remaining)
                        \cup (IF mandatory THEN Mandatory ELSE {})
    /\ pc' = "shuffle"
    /\ UNCHANGED <<dependencies, requested, mandatory, scheduled>>

StartShuffle ==
    /\ pc = "add_dependencies"
    /\ remaining \subseteq Plugins
    /\ RemainingDependencies(remaining) = {}
    /\ remaining' = remaining \cup (IF mandatory THEN Mandatory ELSE {})
    /\ pc' = "shuffle"
    /\ UNCHANGED <<dependencies, requested, mandatory, scheduled>>

\* Mutant: The layer is appended (the list is consumed from its end).
AppendLayer ==
    /\ pc = "shuffle"
    /\ LET next == MetDependencies(remaining, InOrder(scheduled)) IN
        /\ next # {}
        /\ \E layer \in Shuffles(next) : scheduled' = scheduled \o layer
        /\ remaining' = remaining \ next
    /\ UNCHANGED <<dependencies, requested, mandatory, pc>>

PrependLayer ==
    /\ pc = "shuffle"
    /\ LET next == MetDependencies(remaining, InOrder(scheduled)) IN
        /\ next # {}
        /\ \E layer \in Shuffles(next) : scheduled' = layer \o scheduled
        /\ remaining' = remaining \ next
    /\ UNCHANGED <<dependencies, requested, mandatory, pc>>

\* Mutant: The loop is given up after its first layer.
EndShuffleEarly ==
    /\ pc = "shuffle"
    /\ scheduled # << >> \/ MetDependencies(remaining, {}) = {}
    /\ pc' = "file_type"
    /\ UNCHANGED <<dependencies, requested, mandatory, remaining, scheduled>>

\* Nothing is left, or nothing that is left can be scheduled.
EndShuffle ==
    /\ pc = "shuffle"
    /\ MetDependencies(remaining, InOrder(scheduled)) = {}
    /\ pc' = "file_type"
    /\ UNCHANGED <<dependencies, requested, mandatory, remaining, scheduled>>

PutFileTypeFirst ==
    /\ pc = "file_type"
    /\ scheduled' = FileTypeFirst(scheduled)
    /\ pc' = "done"
    /\ UNCHANGED <<dependencies, requested, mandatory, remaining>>

----------------------------------------------------------------------------
Next ==
    \/ UnknownPlugin
    \/ AddDependenciesRound
    \/ StartShuffle
    \/ PrependLayer
    \/ EndShuffle
    \/ PutFileTypeFirst

Spec == Init /\ [][Next]_vars
FairSpec == Spec /\ WF_vars(Next)
----------------------------------------------------------------------------
\* Every dependency the call may meet is loaded, and file_type has none (it
\* has none in plugins/analysis/file_type).
Loadable == \A p \in Plugins : dependencies[p] \subseteq Plugins
FileTypeIndependent == dependencies[FileType] = {}

(***************************************************************************)
(* A finished call returns a list without repetitions in which a plugin    *)
(* runs after everything it depends on, and in which nothing it depends on *)
(* is missing -- whatever the dependency graph, cycles included.           *)
(* (_smart_shuffle; "The order of execution is shuffled (dependency        *)
(* preserving)", scheduler/analysis.py:59.)                                *)
(***************************************************************************)
SoundOrder ==
    pc = "done" /\ FileTypeIndependent =>
        /\ Distinct(scheduled)
        /\ DependencyPreserving(scheduled)
        /\ DependenciesIncluded(scheduled)

(***************************************************************************)
(* Whatever is dropped waits, directly or not, on a cycle: some dropped    *)
(* plugin it depends on (itself or another) is dropped as well, so with an *)
(* acyclic graph nothing is dropped.  A mandatory plugin may also be       *)
(* dropped because its dependencies were never added.                      *)
(***************************************************************************)
OnlyBlockedPluginsDropped ==
    pc \in {"file_type", "done"} =>
        /\ \A p \in remaining : dependencies[p] \cap
                (remaining \cup (Names \ InOrder(scheduled))) # {}
        /\ ~ mandatory => \A p \in remaining : dependencies[p] \cap remaining # {}

(***************************************************************************)
(* Both loops end, with cyclic dependencies too, so that scheduling a      *)
(* request never hangs the unpack worker or the listener that calls it.    *)
(* They compute a plan, which is what the model of the analysis scheduler  *)
(* takes for them, and nothing that was asked for, mandatory or needed by  *)
(* those is lost on the way: it is in the list or among the dropped        *)
(* plugins, and nothing else is.  Closed is the least set with the         *)
(* requested plugins and all they depend on, defined without the loop.     *)
(***************************************************************************)
ClosedSets ==
    {S \in SUBSET Plugins : /\ requested \subseteq S
                            /\ \A p \in S : dependencies[p] \subseteq S}

Closed == {p \in Plugins : \A S \in ClosedSets : p \in S}

ComputesAPlan ==
    <>(\/ pc = "KeyError"
       \/ /\ pc = "done"
          /\ Loadable => scheduled \in Plans(requested, mandatory)
          /\ InOrder(scheduled) \cap remaining = {}
          /\ InOrder(scheduled) \cup remaining =
                  Closed \cup (IF mandatory THEN Mandatory ELSE {}))
============================================================================
