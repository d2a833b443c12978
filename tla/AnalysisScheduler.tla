------------------------- MODULE AnalysisScheduler -------------------------
(***************************************************************************)
(* The analysis scheduler of the backend (scheduler/analysis.py) with the  *)
(* parts it drives: the plugins' queues and workers (analysis/PluginBase), *)
(* and the analyses in the database it reads before and writes after a run.*)
(*                                                                         *)
(* A task is one file object on its way through the scheduler.  It is      *)
(* pickled from queue to queue, so one process at a time holds it; its     *)
(* fields are kept here as functions of the task.                          *)
(***************************************************************************)
EXTENDS TaskOrder

CONSTANTS
    Names,          \* plugin names a request may hold, loaded or not
    Objects,        \* uids of firmware images and files
    Tasks,          \* file objects submitted to the scheduler
    Request,        \* per task: uid, entry point, plugins (a list), forced,
                    \* and the tasks it comes after (see the entry points)
    Roots,          \* parent_firmware_uids of each object
    Parents,        \* parents (direct predecessors) of each object
    Recursive,      \* plugins with RECURSIVE = True
    Threads,        \* worker processes of each plugin
    HasFilter,      \* plugins with a mime blacklist or whitelist
    Filtered,       \* <<uid, plugin>>: the filter excludes the file
    Failing,        \* plugins whose analysis may raise or time out
    Killable,       \* plugins whose analysis may be killed from outside
    Hanging,        \* plugins whose analysis may survive its termination
    Unstorable,     \* plugins whose result may not be JSON serializable
    BadValues,      \* plugins whose result may hold a value the database refuses
    Version,        \* VERSION of each plugin
    SystemVersion,  \* SYSTEM_VERSION of each plugin, 0 for none
    StoredBefore,   \* the analyses in the database at the start
    KnownBefore,    \* the objects in the database at the start
    Deletable,      \* firmware images an admin may delete
    NoTask, NoPlugin

ASSUME NoTaskAssumption == NoTask \notin Tasks
ASSUME NoPluginAssumption == NoPlugin \notin Names

\* Every dependency is loaded; file_type and file_hashes need nothing else.
ASSUME PluginsAssumption ==
    /\ IsFiniteSet(Plugins) /\ Plugins \subseteq Names
    /\ Dependencies \in [Plugins -> SUBSET Plugins]
    /\ Mandatory \subseteq Plugins
    /\ FileType \in Plugins /\ Dependencies[FileType] = {}

\* A plugin for every file does not depend on one for the image only.
ASSUME RecursiveAssumption ==
    \A p \in Recursive \cap Plugins : Dependencies[p] \subseteq Recursive

\* An included file is updated with the one image whose update lists it.
ASSUME RequestAssumption ==
    \A t \in Tasks :
        /\ Request[t].uid \in Objects
        /\ Request[t].plugins \in Seq(Names)
        /\ Request[t].after \subseteq Tasks
        /\ Request[t].entry = "child" => \E root \in Tasks : Request[t].after = {root}

ASSUME VersionAssumption ==
    Version \in [Plugins -> Nat] /\ SystemVersion \in [Plugins -> Nat]


VARIABLES
    phase,          \* what has become of each task
    scheduled,      \* fo.scheduled_analysis
    processed,      \* fo.processed_analysis
    exception,      \* plugin of fo.analysis_exception
    processQueue,   \* AnalysisScheduler.process_queue
    inQueue,        \* in_queue of each plugin
    running,        \* tasks held by the workers of each plugin
    outQueue,       \* out_queue of each plugin
    runner,         \* the schedule process: statement, task, plugin popped
    collector,      \* the result collector: statement, task, plugin
    stored,         \* objects in the database
    analyses,       \* analysis entries in the database
    clock,          \* per object, the date of its last result (time())
    planned         \* history: what was scheduled for the task

taskVars == <<scheduled, processed, exception>>
pluginVars == <<inQueue, running, outQueue>>
dbVars == <<stored, analyses>>
vars == <<phase, taskVars, processQueue, pluginVars, runner, collector,
          dbVars, clock, planned>>

(***************************************************************************)
(* A result dict, in processed_analysis and in the database: which of the  *)
(* shapes it has, and its version and date fields ("empty" is the {} that  *)
(* a worker puts in place before the analysis, "unscheduled" the failure   *)
(* "Analysis of dependency ... failed" of a plugin that did not run).      *)
(***************************************************************************)
Entry == [result : {"none", "empty", "ok", "skipped", "failed", "unscheduled"},
          version : Nat, system : Nat, date : Nat]

ASSUME DatabaseAssumption ==
    KnownBefore \subseteq Objects /\ StoredBefore \in [Objects -> [Plugins -> Entry]]

Absent == [result |-> "none", version |-> 0, system |-> 0, date |-> 0]
Empty == [Absent EXCEPT !.result = "empty"]

Now(u) == clock[u] + 1

OkResult(u, p) ==
    [result |-> "ok", version |-> Version[p], system |-> SystemVersion[p],
     date |-> Now(u)]

\* _get_skipped_analysis_result, _get_failed_analysis_result: no system_version.
OtherResult(kind, u, p) ==
    [result |-> kind, version |-> Version[p], system |-> 0, date |-> Now(u)]

Uid(t) == Request[t].uid
IsChild(t) == Request[t].entry = "child"
Present(e) == e.result # "none"

Idle == [pc |-> "idle", task |-> NoTask, plugin |-> NoPlugin]
Dead == [pc |-> "dead", task |-> NoTask, plugin |-> NoPlugin]
At(pc, t, p) == [pc |-> pc, task |-> t, plugin |-> p]

Init ==
    /\ phase = [t \in Tasks |-> "new"]
    /\ scheduled = [t \in Tasks |-> Request[t].plugins]
    /\ processed = [t \in Tasks |-> [p \in Plugins |-> Absent]]
    /\ exception = [t \in Tasks |-> NoPlugin]
    /\ processQueue = << >>
    /\ inQueue = [p \in Plugins |-> << >>]
    /\ running = [p \in Plugins |-> {}]
    /\ outQueue = [p \in Plugins |-> << >>]
    /\ runner = Idle
    /\ collector = Idle
    /\ stored = KnownBefore
    /\ analyses = StoredBefore
    /\ clock = [u \in Objects |-> 1]
    /\ planned = [t \in Tasks |-> {}]

\* _check_further_process_or_complete; remaining is fo.scheduled_analysis.
CheckFurther(t, remaining) ==
    IF remaining = << >>
    THEN /\ phase' = [phase EXCEPT ![t] = "completed"]
         /\ UNCHANGED processQueue
    ELSE /\ phase' = [phase EXCEPT ![t] = "active"]
         /\ processQueue' = Append(processQueue, t)
----------------------------------------------------------------------------
(***************************************************************************)
(* The three entry points.  The unpacking of a parent submits its task     *)
(* before those of the files it includes; an update is requested when the  *)
(* user sees the earlier tasks ended, if there are any in "after"; the     *)
(* tasks of its included files belong to it.                               *)
(***************************************************************************)
Ended(t) == phase[t] \in {"completed", "abandoned"}
Submitted(t) == phase[t] # "new"

ChildrenOf(t) == {c \in Tasks : Request[c].entry = "child" /\ t \in Request[c].after}

Plan(t, plan) ==
    /\ scheduled' = [scheduled EXCEPT ![t] = plan]
    /\ planned' = [planned EXCEPT ![t] = InOrder(plan)]
    /\ CheckFurther(t, plan)

\* Scheduling fails with a KeyError for a name that is not loaded.
AllLoaded(list) == InOrder(list) \subseteq Plugins

\* The one listener process per kind of update is idle, and has not died.
ListenerFree(entry) ==
    \A t \in Tasks :
        Request[t].entry = entry => phase[t] \notin {"updating", "crashed"}

\* start_analysis_of_object, called by an unpacking worker.
StartAnalysisOfObject(t) ==
    /\ phase[t] = "new" /\ Request[t].entry = "start"
    /\ \A parent \in Request[t].after : Submitted(parent)
    /\ AllLoaded(Request[t].plugins)
    /\ \E plan \in Plans(InOrder(Request[t].plugins), TRUE) : Plan(t, plan)
    /\ UNCHANGED <<processed, exception, pluginVars, runner, collector, dbVars, clock>>

\* The frontend loads the object with its analyses and sends it to the backend.
RequestUpdate(t) ==
    /\ phase[t] = "new" /\ Request[t].entry \in {"single", "update"}
    /\ Uid(t) \in stored
    /\ \A earlier \in Request[t].after : Ended(earlier)
    /\ processed' = [processed EXCEPT ![t] = analyses[Uid(t)]]
    /\ phase' = [phase EXCEPT ![t] = "requested"]
    /\ UNCHANGED <<scheduled, exception, processQueue, pluginVars, runner,
                   collector, dbVars, clock, planned>>

UpdateAnalysisOfSingleObject(t) ==
    /\ phase[t] = "requested" /\ Request[t].entry = "single"
    /\ ListenerFree("single") /\ AllLoaded(scheduled[t])
    /\ \E plan \in Plans(InOrder(scheduled[t]), FALSE) : Plan(t, plan)
    /\ UNCHANGED <<processed, exception, pluginVars, runner, collector, dbVars, clock>>

(***************************************************************************)
(* pre_analysis, i.e. add_object: a new entry takes over the results the   *)
(* file object carries; one of the roots and of the parents must be there. *)
(***************************************************************************)
Addable(u) ==
    /\ Roots[u] = {} \/ Roots[u] \cap stored # {}
    /\ Parents[u] = {} \/ Parents[u] \cap stored # {}

AddObject(t) ==
    /\ stored' = stored \cup {Uid(t)}
    /\ analyses' = IF Uid(t) \in stored
                   THEN analyses
                   ELSE [analyses EXCEPT ![Uid(t)] = processed[t]]

(***************************************************************************)
(* update_analysis_of_object_and_children, in the one listener process for *)
(* updates: the list of included files and pre_analysis, one turn of the   *)
(* loop for each included file, and at last the object itself.  The object *)
(* is not scheduled anew: its list is the one of the request.              *)
(***************************************************************************)
BeginUpdate(t) ==
    /\ phase[t] = "requested" /\ Request[t].entry = "update"
    /\ ListenerFree("update")
    /\ AddObject(t)
    /\ phase' = [c \in Tasks |-> IF c = t THEN "updating"
                                 ELSE IF c \in ChildrenOf(t) /\ phase[c] = "new"
                                            /\ Uid(c) \notin stored
                                 THEN "excluded"
                                 ELSE phase[c]]
    /\ UNCHANGED <<taskVars, processQueue, pluginVars, runner, collector, clock, planned>>

UpdateAnalysisOfChild(t) ==
    /\ phase[t] = "new" /\ Request[t].entry = "child"
    /\ Uid(t) \in stored
    /\ processed' = [processed EXCEPT ![t] = analyses[Uid(t)]]
    /\ \E root \in Request[t].after :
        /\ phase[root] = "updating"
        /\ AllLoaded(scheduled[root])
        /\ \E plan \in Plans(InOrder(scheduled[root]), FALSE) : Plan(t, plan)
    /\ UNCHANGED <<exception, pluginVars, runner, collector, dbVars, clock>>

UpdateAnalysisOfRoot(t) ==
    /\ phase[t] = "updating"
    /\ \A c \in ChildrenOf(t) : phase[c] # "new"
    /\ planned' = [planned EXCEPT ![t] = InOrder(scheduled[t])]
    /\ CheckFurther(t, scheduled[t])
    /\ UNCHANGED <<taskVars, pluginVars, runner, collector, dbVars, clock>>

\* An unknown name is scheduled, or get_object returned None for a file that
\* was deleted during the loop.  The worker that unpacks is started again; a
\* listener is not.
EntryCrash(t) ==
    /\ \/ /\ phase[t] = "new" /\ Request[t].entry = "start"
          /\ \A parent \in Request[t].after : Submitted(parent)
          /\ ~ AllLoaded(Request[t].plugins)
       \/ /\ phase[t] = "requested" /\ Request[t].entry = "single"
          /\ ListenerFree("single") /\ ~ AllLoaded(scheduled[t])
       \/ /\ phase[t] = "updating"
          /\ \E c \in ChildrenOf(t) :
                /\ phase[c] = "new"
                /\ (Uid(c) \notin stored \/ ~ AllLoaded(scheduled[t]))
    /\ phase' = [phase EXCEPT ![t] = "crashed"]
    /\ UNCHANGED <<taskVars, processQueue, pluginVars, runner, collector,
                   dbVars, clock, planned>>
----------------------------------------------------------------------------
(***************************************************************************)
(* The schedule process: _process_next_analysis_task takes a task, adds its*)
(* object to the database and pops a plugin; _start_or_skip_analysis then  *)
(* decides what to do with it.  An exception none of them catches ends the *)
(* process, which nobody restarts.                                         *)
(***************************************************************************)
\* Mutant: the list is consumed from its front.
TakeTaskFromFront ==
    /\ runner.pc = "idle" /\ processQueue # << >>
    /\ LET t == Head(processQueue) IN
        /\ Addable(Uid(t))
        /\ AddObject(t)
        /\ runner' = At("decide", t, Head(scheduled[t]))
        /\ scheduled' = [scheduled EXCEPT ![t] = Tail(@)]
    /\ processQueue' = Tail(processQueue)
    /\ UNCHANGED <<phase, processed, exception, pluginVars, collector, clock, planned>>

TakeTask ==
    /\ runner.pc = "idle" /\ processQueue # << >>
    /\ LET t == Head(processQueue)
           n == Len(scheduled[t]) IN
        /\ Addable(Uid(t))
        /\ AddObject(t)
        /\ runner' = At("decide", t, scheduled[t][n])
        /\ scheduled' = [scheduled EXCEPT ![t] = SubSeq(@, 1, n - 1)]
    /\ processQueue' = Tail(processQueue)
    /\ UNCHANGED <<phase, processed, exception, pluginVars, collector, clock, planned>>

\* DbInterfaceError: the roots or the parents are missing.
AbandonTask ==
    /\ runner.pc = "idle" /\ processQueue # << >>
    /\ ~ Addable(Uid(Head(processQueue)))
    /\ phase' = [phase EXCEPT ![Head(processQueue)] = "abandoned"]
    /\ processQueue' = Tail(processQueue)
    /\ UNCHANGED <<taskVars, pluginVars, runner, collector, dbVars, clock, planned>>

Forced(t) == Request[t].forced

\* The part of _analysis_is_up_to_date before the dependencies.
VersionCurrent(u, p) ==
    /\ analyses[u][p].result \in {"ok", "skipped"}
    /\ Version[p] <= analyses[u][p].version
    /\ SystemVersion[p] <= analyses[u][p].system

\* _dependencies_are_up_to_date reads None for a missing entry.
DependencyEntryMissing(u, p) ==
    \E d \in Dependencies[p] : ~ Present(analyses[u][d])

DependencyNewer(u, p) ==
    \E d \in Dependencies[p] : analyses[u][p].date < analyses[u][d].date

UpToDate(u, p) ==
    /\ VersionCurrent(u, p)
    /\ ~ DependencyEntryMissing(u, p)
    /\ ~ DependencyNewer(u, p)

\* With an entry missing and another newer, the order of the list decides.
NotUpToDate(u, p) == ~ VersionCurrent(u, p) \/ DependencyNewer(u, p)

SkipUnknownPlugin ==
    LET t == runner.task IN
    /\ runner.pc = "decide" /\ runner.plugin \notin Plugins
    /\ CheckFurther(t, scheduled[t])
    /\ runner' = Idle
    /\ UNCHANGED <<taskVars, pluginVars, collector, dbVars, clock, planned>>

SkipUpToDate ==
    LET t == runner.task
        p == runner.plugin IN
    /\ runner.pc = "decide" /\ p \in Plugins
    /\ ~ Forced(t) /\ UpToDate(Uid(t), p)
    /\ AllLoaded(scheduled[t])
    /\ processed' = IF p \in RemainingDependencies(InOrder(scheduled[t]))
                    THEN [processed EXCEPT ![t][p] = analyses[Uid(t)][p]]
                    ELSE processed
    /\ CheckFurther(t, scheduled[t])
    /\ runner' = Idle
    /\ UNCHANGED <<scheduled, exception, pluginVars, collector, dbVars, clock, planned>>

MustRun(t, p) == Forced(t) \/ NotUpToDate(Uid(t), p)
AsksFilter(p) == p \notin Mandatory /\ p \in HasFilter

\* _get_file_type_from_object_or_db; only a successful result has a 'mime'.
WithFileType(t) ==
    IF Present(processed[t][FileType])
    THEN processed[t]
    ELSE [processed[t] EXCEPT ![FileType] = analyses[Uid(t)][FileType]]

MimeKnown(t) == WithFileType(t)[FileType].result = "ok"

SkipFiltered ==
    LET t == runner.task
        p == runner.plugin IN
    /\ runner.pc = "decide" /\ p \in Plugins
    /\ MustRun(t, p)
    /\ AsksFilter(p) /\ MimeKnown(t) /\ <<Uid(t), p>> \in Filtered
    /\ processed' = [processed EXCEPT
            ![t] = [WithFileType(t) EXCEPT ![p] = OtherResult("skipped", Uid(t), p)]]
    /\ clock' = [clock EXCEPT ![Uid(t)] = @ + 1]
    /\ runner' = At("store", t, p)
    /\ UNCHANGED <<phase, scheduled, exception, processQueue, pluginVars,
                   collector, dbVars, planned>>

(***************************************************************************)
(* add_job of the plugin: the task goes to its workers, or at once to the  *)
(* result collector.                                                       *)
(***************************************************************************)
DependenciesUnfulfilled(results, p) ==
    \E d \in Dependencies[p] : ~ Present(results[d])

\* RECURSIVE = False: the plugin does not run on the files of an image.
ImageOnly(t, p) == p \notin Recursive /\ Roots[Uid(t)] # {}

\* Mutant: the return after in_queue.put is missing.
AddJobWithoutReturn(t, p, results) ==
    /\ outQueue' = [outQueue EXCEPT ![p] = Append(@, t)]
    /\ IF DependenciesUnfulfilled(results, p)
       THEN UNCHANGED inQueue
       ELSE inQueue' = [inQueue EXCEPT ![p] = Append(@, t)]

AddJob(t, p, results) ==
    IF DependenciesUnfulfilled(results, p)
        \/ ImageOnly(t, p)
    THEN /\ outQueue' = [outQueue EXCEPT ![p] = Append(@, t)]
         /\ UNCHANGED inQueue
    ELSE /\ inQueue' = [inQueue EXCEPT ![p] = Append(@, t)]
         /\ UNCHANGED outQueue

StartPlugin ==
    LET t == runner.task
        p == runner.plugin
        results == IF AsksFilter(p) THEN WithFileType(t) ELSE processed[t] IN
    /\ runner.pc = "decide" /\ p \in Plugins
    /\ MustRun(t, p)
    /\ AsksFilter(p) => MimeKnown(t) /\ <<Uid(t), p>> \notin Filtered
    /\ AddJob(t, p, results)
    /\ processed' = [processed EXCEPT ![t] = results]
    /\ runner' = Idle
    /\ UNCHANGED <<phase, scheduled, exception, processQueue, running,
                   collector, dbVars, clock, planned>>

\* TypeError and KeyError of the functions above.
RunnerCrash ==
    LET t == runner.task
        p == runner.plugin IN
    /\ runner.pc = "decide" /\ p \in Plugins
    /\ \/ ~ Forced(t) /\ VersionCurrent(Uid(t), p) /\ DependencyEntryMissing(Uid(t), p)
       \/ ~ Forced(t) /\ UpToDate(Uid(t), p) /\ ~ AllLoaded(scheduled[t])
       \/ MustRun(t, p) /\ AsksFilter(p) /\ ~ MimeKnown(t)
    /\ runner' = Dead
    /\ UNCHANGED <<phase, taskVars, processQueue, pluginVars, collector,
                   dbVars, clock, planned>>

(***************************************************************************)
(* post_analysis, i.e. add_analysis: an update keeps the system version of *)
(* the entry; a result that cannot be serialized is logged and dropped.    *)
(***************************************************************************)
StoreAnalysis(u, p, e) ==
    \/ /\ u \notin stored \/ (p \in Unstorable /\ e.result = "ok")
       /\ UNCHANGED analyses
    \/ /\ u \in stored
       /\ analyses' = [analyses EXCEPT ![u][p] =
                LET old == @ IN
                IF Present(old) THEN [e EXCEPT !.system = old.system] ELSE e]

\* Mutant: the result of a skipped plugin is not stored.
StoreNothing ==
    /\ runner.pc = "store"
    /\ CheckFurther(runner.task, scheduled[runner.task])
    /\ runner' = Idle
    /\ UNCHANGED <<taskVars, pluginVars, collector, dbVars, clock, planned>>

StoreSkipped ==
    LET t == runner.task
        p == runner.plugin IN
    /\ runner.pc = "store"
    /\ StoreAnalysis(Uid(t), p, processed[t][p])
    /\ CheckFurther(t, scheduled[t])
    /\ runner' = Idle
    /\ UNCHANGED <<taskVars, pluginVars, collector, stored, clock, planned>>
----------------------------------------------------------------------------
(***************************************************************************)
(* The workers of a plugin.  The analysis runs in a child process, which   *)
(* may end, raise or hang until TIMEOUT.                                   *)
(***************************************************************************)
BeginAnalysis(p) ==
    /\ inQueue[p] # << >>
    /\ Cardinality(running[p]) < Threads
    /\ inQueue' = [inQueue EXCEPT ![p] = Tail(@)]
    /\ running' = [running EXCEPT ![p] = @ \cup {Head(inQueue[p])}]
    /\ processed' = [processed EXCEPT ![Head(inQueue[p])][p] = Empty]
    /\ UNCHANGED <<phase, scheduled, exception, processQueue, outQueue, runner,
                   collector, dbVars, clock, planned>>

\* analyze_file, with its timestamp.
Analyze(p, t) ==
    /\ t \in running[p] /\ processed[t][p] = Empty
    /\ processed' = [processed EXCEPT ![t][p] = OkResult(Uid(t), p)]
    /\ clock' = [clock EXCEPT ![Uid(t)] = @ + 1]
    /\ UNCHANGED <<phase, scheduled, exception, processQueue, pluginVars, runner,
                   collector, dbVars, planned>>

Deliver(p, t) ==
    /\ running' = [running EXCEPT ![p] = @ \ {t}]
    /\ outQueue' = [outQueue EXCEPT ![p] = Append(@, t)]

FinishAnalysis(p, t) ==
    /\ t \in running[p] /\ processed[t][p].result = "ok"
    /\ Deliver(p, t)
    /\ UNCHANGED <<phase, taskVars, processQueue, inQueue, runner, collector,
                   dbVars, clock, planned>>

\* Mutant: a failed task is not put into the out queue.
FailWithoutDelivery(p, t) ==
    /\ t \in running[p] /\ p \in Failing
    /\ processed' = [processed EXCEPT ![t][p] = Empty]
    /\ exception' = [exception EXCEPT ![t] = p]
    /\ running' = [running EXCEPT ![p] = @ \ {t}]
    /\ UNCHANGED <<phase, scheduled, processQueue, inQueue, outQueue, runner,
                   collector, dbVars, clock, planned>>

\* The worker's own copy of the task is passed on, without the result.
FailAnalysis(p, t) ==
    /\ t \in running[p] /\ p \in Failing
    /\ processed' = [processed EXCEPT ![t][p] = Empty]
    /\ exception' = [exception EXCEPT ![t] = p]
    /\ Deliver(p, t)
    /\ UNCHANGED <<phase, scheduled, processQueue, inQueue, runner, collector,
                   dbVars, clock, planned>>
\* The child leaves neither a result nor an exception: the worker ends with an
\* IndexError, and with it the task.  Another worker takes its place.
KillAnalysis(p, t) ==
    /\ t \in running[p] /\ p \in Killable
    /\ phase' = [phase EXCEPT ![t] = "lost"]
    /\ running' = [running EXCEPT ![p] = @ \ {t}]
    /\ UNCHANGED <<taskVars, processQueue, inQueue, outQueue, runner, collector,
                   dbVars, clock, planned>>
----------------------------------------------------------------------------
(***************************************************************************)
(* The result collector.  A failed plugin's direct dependents are taken out*)
(* of the list and get a result of their own, in processed_analysis only   *)
(* (reschedule_failed_analysis_task).                                      *)
(***************************************************************************)
\* Mutant: the dependents stay scheduled.
NoDependents(p, list) == {}

Dependents(p, list) == {q \in InOrder(list) : p \in Dependencies[q]}

Collect(p) ==
    LET t == Head(outQueue[p])
        dependents == Dependents(p, scheduled[t]) IN
    /\ collector.pc = "idle" /\ outQueue[p] # << >>
    /\ Present(processed[t][p])
    /\ exception[t] # NoPlugin => AllLoaded(scheduled[t])
    /\ outQueue' = [outQueue EXCEPT ![p] = Tail(@)]
    /\ collector' = At("store", t, p)
    /\ IF exception[t] = NoPlugin
       THEN UNCHANGED <<taskVars, clock>>
       ELSE /\ processed' = [processed EXCEPT ![t] =
                    [q \in Plugins |->
                        IF q \in dependents THEN OtherResult("unscheduled", Uid(t), q)
                        ELSE IF q = p THEN OtherResult("failed", Uid(t), p)
                        ELSE @[q]]]
            /\ scheduled' = [scheduled EXCEPT ![t] = Without(@, dependents)]
            /\ exception' = [exception EXCEPT ![t] = NoPlugin]
            /\ clock' = [clock EXCEPT ![Uid(t)] = @ + 1]
    /\ UNCHANGED <<phase, processQueue, inQueue, running, runner, dbVars, planned>>

\* The plugin did not run and there is no result.
CollectWithoutResult(p) ==
    LET t == Head(outQueue[p]) IN
    /\ collector.pc = "idle" /\ outQueue[p] # << >>
    /\ ~ Present(processed[t][p])
    /\ outQueue' = [outQueue EXCEPT ![p] = Tail(@)]
    /\ CheckFurther(t, scheduled[t])
    /\ UNCHANGED <<taskVars, inQueue, running, runner, collector, dbVars, clock, planned>>

\* KeyError for a scheduled plugin that is not loaded.
CollectorCrash(p) ==
    LET t == Head(outQueue[p]) IN
    /\ collector.pc = "idle" /\ outQueue[p] # << >>
    /\ exception[t] # NoPlugin /\ ~ AllLoaded(scheduled[t])
    /\ collector' = Dead
    /\ outQueue' = [outQueue EXCEPT ![p] = Tail(@)]
    /\ UNCHANGED <<phase, taskVars, processQueue, inQueue, running, runner,
                   dbVars, clock, planned>>

StoreResult ==
    LET t == collector.task
        p == collector.plugin IN
    /\ collector.pc = "store"
    /\ StoreAnalysis(Uid(t), p, processed[t][p])
    /\ CheckFurther(t, scheduled[t])
    /\ collector' = Idle
    /\ UNCHANGED <<taskVars, pluginVars, runner, stored, clock, planned>>
\* add_analysis raises the ValueError of a bad value again.
StoreResultRaises ==
    LET t == collector.task
        p == collector.plugin IN
    /\ collector.pc = "store"
    /\ p \in BadValues /\ processed[t][p].result = "ok" /\ Uid(t) \in stored
    /\ collector' = Dead
    /\ UNCHANGED <<phase, taskVars, processQueue, pluginVars, runner, dbVars,
                   clock, planned>>
----------------------------------------------------------------------------
\* An admin deletes a firmware with the files only it includes.
DeleteFirmware(fw) ==
    LET removed == {u \in Objects : u = fw \/ Roots[u] = {fw}} IN
    /\ fw \in Deletable /\ fw \in stored
    /\ stored' = stored \ removed
    /\ analyses' = [u \in Objects |->
                        IF u \in removed THEN [p \in Plugins |-> Absent] ELSE analyses[u]]
    /\ UNCHANGED <<phase, taskVars, processQueue, pluginVars, runner, collector,
                   clock, planned>>

Enter(t) ==
    \/ StartAnalysisOfObject(t)
    \/ UpdateAnalysisOfSingleObject(t)
    \/ BeginUpdate(t)
    \/ UpdateAnalysisOfChild(t)
    \/ UpdateAnalysisOfRoot(t)
    \/ EntryCrash(t)

RunnerStep ==
    \/ TakeTask
    \/ AbandonTask
    \/ SkipUnknownPlugin
    \/ SkipUpToDate
    \/ SkipFiltered
    \/ StartPlugin
    \/ RunnerCrash
    \/ StoreSkipped

WorkerStep(p, t) ==
    \/ Analyze(p, t)
    \/ FinishAnalysis(p, t)
    \/ FailAnalysis(p, t)

CollectorStep(p) ==
    \/ Collect(p)
    \/ CollectWithoutResult(p)
    \/ CollectorCrash(p)

Next ==
    \/ \E t \in Tasks : Enter(t) \/ RequestUpdate(t)
    \/ RunnerStep
    \/ \E p \in Plugins : BeginAnalysis(p) \/ CollectorStep(p)
    \/ \E p \in Plugins, t \in Tasks : WorkerStep(p, t) \/ KillAnalysis(p, t)
    \/ StoreResult
    \/ StoreResultRaises
    \/ \E fw \in Objects : DeleteFirmware(fw)

Spec == Init /\ [][Next]_vars

(***************************************************************************)
(* Every process of the backend keeps running: the schedule process and    *)
(* the workers take what is in their queue, an analysis ends at the latest *)
(* with its timeout, unless its processes ignore the signal by which the   *)
(* worker ends them and then waits, and the collector's loop visits every  *)
(* plugin in turn (strong fairness: it is busy with another plugin in      *)
(* between).                                                               *)
(***************************************************************************)
Fairness ==
    /\ \A t \in Tasks : WF_vars(Enter(t))
    /\ WF_vars(RunnerStep)
    /\ WF_vars(StoreResult \/ StoreResultRaises)
    /\ \A p \in Plugins : WF_vars(BeginAnalysis(p)) /\ SF_vars(CollectorStep(p))
    /\ \A p \in Plugins \ Hanging, t \in Tasks : WF_vars(WorkerStep(p, t))

FairSpec == Spec /\ Fairness
----------------------------------------------------------------------------
(***************************************************************************)
(* Properties.                                                             *)
(***************************************************************************)
Phases == {"new", "requested", "updating", "excluded", "crashed", "active",
           "completed", "abandoned", "lost"}

TypeOK ==
    /\ phase \in [Tasks -> Phases]
    /\ scheduled \in [Tasks -> Seq(Names)]
    /\ processed \in [Tasks -> [Plugins -> Entry]]
    /\ exception \in [Tasks -> Plugins \cup {NoPlugin}]
    /\ processQueue \in Seq(Tasks)
    /\ inQueue \in [Plugins -> Seq(Tasks)]
    /\ running \in [Plugins -> SUBSET Tasks]
    /\ outQueue \in [Plugins -> Seq(Tasks)]
    /\ runner \in [pc : {"idle", "decide", "store", "dead"},
                   task : Tasks \cup {NoTask}, plugin : Names \cup {NoPlugin}]
    /\ collector \in [pc : {"idle", "store", "dead"},
                      task : Tasks \cup {NoTask}, plugin : Plugins \cup {NoPlugin}]
    /\ stored \subseteq Objects
    /\ analyses \in [Objects -> [Plugins -> Entry]]
    /\ clock \in [Objects -> Nat]
    /\ planned \in [Tasks -> SUBSET Names]

Handles(p, t) == t \in InOrder(inQueue[p]) \cup running[p] \cup InOrder(outQueue[p])

Copies(t, queue) == Cardinality({i \in DOMAIN queue : queue[i] = t})

Holders(t) ==
    {<<"in", p>> : p \in {q \in Plugins : t \in InOrder(inQueue[q])}} \cup
    {<<"run", p>> : p \in {q \in Plugins : t \in running[q]}} \cup
    {<<"out", p>> : p \in {q \in Plugins : t \in InOrder(outQueue[q])}} \cup
    (IF t \in InOrder(processQueue) THEN {<<"queue", NoPlugin>>} ELSE {}) \cup
    (IF runner.task = t THEN {<<"runner", NoPlugin>>} ELSE {}) \cup
    (IF collector.task = t THEN {<<"collector", NoPlugin>>} ELSE {})

(***************************************************************************)
(* While every process lives, an active task is in exactly one place, once,*)
(* and any other task is nowhere: no hand-over between the queues, the     *)
(* workers, the schedule process and the collector loses or doubles one.   *)
(***************************************************************************)
InOnePlace ==
    runner.pc # "dead" /\ collector.pc # "dead" =>
        \A t \in Tasks :
            /\ Cardinality(Holders(t)) = (IF phase[t] = "active" THEN 1 ELSE 0)
            /\ Copies(t, processQueue) <= 1
            /\ \A p \in Plugins : Copies(t, inQueue[p]) + Copies(t, outQueue[p]) <= 1

(***************************************************************************)
(* "Plugins can have dependencies, these have to be present before the     *)
(* depending plugin can be run" (analysis.py:58): when the schedule process*)
(* considers a plugin of a list that was scheduled, the results of all its *)
(* dependencies are in the file object, whether they were run, skipped,    *)
(* failed or are taken from the database, so that add_job never finds them *)
(* unfulfilled and no scheduled plugin is silently left out.  (The list of *)
(* an updated object itself is not scheduled: it must be sound as it is.)  *)
(* And a plugin does not run on a dependency whose analysis raised or timed*)
(* out (reschedule_failed_analysis_task unschedules the dependents).  Only *)
(* the direct ones: what depends on an unscheduled plugin still runs.      *)
(***************************************************************************)
SoundList(t) ==
    Request[t].entry = "update" =>
        /\ InOrder(Request[t].plugins) \subseteq Plugins
        /\ Distinct(Request[t].plugins)
        /\ DependencyPreserving(Request[t].plugins)
        /\ DependenciesIncluded(Request[t].plugins)

DependenciesPresent ==
    LET t == runner.task IN
    runner.pc = "decide" /\ runner.plugin \in Plugins /\ SoundList(t) =>
        \A d \in Dependencies[runner.plugin] :
            Present(processed[t][d]) \/ ImageOnly(t, d)

NoRunOnFailedDependency ==
    \A p \in Plugins : \A t \in running[p] : SoundList(t) =>
        \A d \in Dependencies[p] : processed[t][d].result # "failed"

DependenciesRespected == TypeOK /\ DependenciesPresent /\ NoRunOnFailedDependency

(***************************************************************************)
(* "... and storing the new results of analysis tasks in the database"     *)
(* (analysis.py:37): when a task is completed, each of its plugins has a   *)
(* result in the database, be it that it was skipped or failed, except     *)
(* those with a dependency that failed in this run, those that do not run  *)
(* on included files, and results that cannot be stored.  (Of an image     *)
(* that is deleted meanwhile, some results may be lost.)                   *)
(***************************************************************************)
Lasting(u) == \A fw \in Deletable : u # fw /\ Roots[u] # {fw}

ResultsStoredUnlessDependencyFailed ==
    \A t \in Tasks :
        phase[t] = "completed" /\ Lasting(Uid(t)) /\ SoundList(t) =>
            \A p \in planned[t] \cap Plugins :
                \/ Uid(t) \in stored /\ Present(analyses[Uid(t)][p])
                \/ p \in Unstorable \/ ImageOnly(t, p)
                \/ \E d \in Dependencies[p] : processed[t][d].result = "failed"

(***************************************************************************)
(* Analysing twice in a row is idle: when a task is completed and its      *)
(* object has no other task, every plugin that succeeded is up to date in  *)
(* the sense of _analysis_is_already_in_db_and_up_to_date -- its version,  *)
(* and no dependency has a newer result -- so an update skips it           *)
(* ("Analysis present, version unchanged?", analysis.py:72).  The exception*)
(* is the system version: where the task found an entry, that of the entry *)
(* stays (update_analysis does not write the column), so that a plugin with*)
(* a new SYSTEM_VERSION is run again by every update.  It is as it should  *)
(* be where the task is the first to store a result of the plugin.         *)
(***************************************************************************)
EndedBefore(t) ==
    CASE Request[t].entry = "start" -> {}
      [] Request[t].entry = "child" -> UNION {Request[root].after : root \in Request[t].after}
      [] OTHER -> Request[t].after

\* No other task for the object has begun, but those that ended before this one.
OnlyTask(t) ==
    \A other \in Tasks \ {t} : Uid(other) = Uid(t) =>
        phase[other] \in {"new", "excluded"} \/ other \in EndedBefore(t)

\* The database may hold an entry of the plugin when the task comes.
EntryBefore(t, p) ==
    \/ Present(StoredBefore[Uid(t)][p])
    \/ \E other \in EndedBefore(t) : Uid(other) = Uid(t)

UpToDateWhenCompleted ==
    \A t \in Tasks : phase[t] = "completed" /\ Uid(t) \in stored /\ OnlyTask(t) =>
        \A p \in planned[t] \cap Plugins :
            /\ analyses[Uid(t)][p].result = "ok"
            /\ \A d \in Dependencies[p] : analyses[Uid(t)][d].result = "ok"
            => /\ Version[p] <= analyses[Uid(t)][p].version
               /\ ~ DependencyEntryMissing(Uid(t), p) /\ ~ DependencyNewer(Uid(t), p)
               /\ ~ EntryBefore(t, p) => UpToDate(Uid(t), p)

(***************************************************************************)
(* "the object is simply iterated until all scheduled analyses are         *)
(* processed or skipped" (analysis.py:168): a submitted task ends.  None   *)
(* is abandoned unless somebody deleted its firmware: the task of a file   *)
(* reaches the schedule process after its parent's did, so that its parent *)
(* is in the database by then.  The exceptions: a task whose analysis was  *)
(* killed from outside is lost; one that waits for a plugin whose analysis *)
(* survived its termination may wait for ever; and none goes on when the   *)
(* schedule process ended with a task -- file_type failed for it and a     *)
(* plugin asks for the type, a dependency has no entry, or it names what   *)
(* is not loaded -- or the collector, with a value the database refuses or *)
(* with such a name.                                                       *)
(***************************************************************************)
RunnerEnded ==
    /\ runner.pc = "dead"
    /\ \E t \in Tasks :
        /\ phase[t] = "active" /\ Holders(t) = {}
        /\ \/ ~ MimeKnown(t) /\ HasFilter # {}
           \/ \E p \in Plugins : DependencyEntryMissing(Uid(t), p)
           \/ ~ AllLoaded(Request[t].plugins)

CollectorEnded ==
    /\ collector.pc = "dead"
    /\ \E t \in Tasks :
        /\ phase[t] = "active" /\ Holders(t) = {}
        /\ \/ \E p \in BadValues : processed[t][p].result = "ok"
           \/ ~ AllLoaded(Request[t].plugins)

Stuck(t) == \E p \in Hanging : t \in InOrder(inQueue[p]) \cup running[p]

EveryTaskEnds ==
    \A t \in Tasks : phase[t] = "active" ~>
        \/ Ended(t) /\ (phase[t] = "abandoned" => Deletable # {})
        \/ phase[t] = "lost" /\ Killable # {}
        \/ Stuck(t) \/ RunnerEnded \/ CollectorEnded

(***************************************************************************)
(* The scheduler implements the service of module AnalysisService: after   *)
(* any interleaving of its processes, a task had exactly the plugins that  *)
(* were asked for, mandatory or needed by those considered, one at a time, *)
(* none before a plugin it depends on, and none but the dependents of a    *)
(* failed one left out.  The root of an update has the plugins of its list *)
(* only, in that order.                                                    *)
(***************************************************************************)
Lost(t) ==
    \/ phase[t] \in {"crashed", "abandoned", "lost"}
    \/ phase[t] = "active" /\ Holders(t) = {}

ServiceStatus(t) ==
    CASE phase[t] = "completed" -> "closed"
      [] Lost(t) -> "lost"
      [] phase[t] = "active" /\ ~ Lost(t) -> "open"
      [] OTHER -> "waiting"

\* The plugin for which t is out of the process queue.
Busy(t) ==
    IF runner.task = t THEN runner.plugin
    ELSE IF collector.task = t THEN collector.plugin
    ELSE IF \E p \in Plugins : Handles(p, t)
    THEN CHOOSE p \in Plugins : Handles(p, t)
    ELSE NoPlugin

\* The least set of plugins that holds S and all they depend on.
ClosedUnderDependencies(S) ==
    {p \in Plugins : \A C \in SUBSET Plugins :
        S \cap Plugins \subseteq C /\ (\A q \in C : Dependencies[q] \subseteq C) => p \in C}

ServiceWanted ==
    [t \in Tasks |->
        IF Request[t].entry = "update" THEN InOrder(Request[t].plugins)
        ELSE IF IsChild(t) THEN ClosedUnderDependencies(UNION
                {InOrder(Request[root].plugins) : root \in Request[t].after})
        ELSE ClosedUnderDependencies(InOrder(Request[t].plugins))
                \cup (IF Request[t].entry = "start" THEN Mandatory ELSE {})]

Service == INSTANCE AnalysisService WITH
    Dependencies <- [p \in Names |-> IF p \in Plugins THEN Dependencies[p] ELSE {}],
    Wanted <- ServiceWanted,
    Ordered <- {t \in Tasks : Request[t].entry # "update"},
    status <- [t \in Tasks |-> ServiceStatus(t)],
    todo <- [t \in Tasks |-> IF ServiceStatus(t) = "open" THEN InOrder(scheduled[t]) ELSE {}],
    busy <- [t \in Tasks |-> IF ServiceStatus(t) = "open" THEN Busy(t) ELSE NoPlugin]

ImplementsService == Service!Spec
============================================================================
