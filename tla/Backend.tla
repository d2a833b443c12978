------------------------------- MODULE Backend -------------------------------
(***************************************************************************)
(* The main process of the backend (start_fact_backend.py): the loop that  *)
(* looks for processes that ended with an exception and starts the workers *)
(* again (helperFunctions/process.py), and the order of the shutdown.  One *)
(* plugin stands for all of them; the other processes are one of a kind:   *)
(* a listener of the intercom, an unpack worker, the load monitor, the     *)
(* comparison worker, the schedule process and the result collector.       *)
(***************************************************************************)
EXTENDS PluginWorker

CONSTANT MaxFaults   \* bound: exceptions in processes other than the plugin's

ASSUME FaultsAssumption == MaxFaults \in Nat

VARIABLES
    main,            \* where the main process is
    run,             \* FALSE after a signal
    throwExceptions, \* throw_exceptions of the configuration
    wantShutdown,    \* an exception occurred and throw_exceptions is set
    workerList,      \* the list of the plugin's workers, in its order
    pos,             \* position of the loop over that list
    proc,            \* state of every other process
    todo,            \* file objects the schedule process has yet to hand over
    faults           \* exceptions that may still come in those processes

mainVars == <<main, run, throwExceptions, wantShutdown, workerList, pos, proc,
              todo, faults>>
vars == <<pluginVars, mainVars>>

Others == {"listener", "compare", "unpack", "monitor", "schedule", "collector"}
ProcStates == {"running", "raised", "ended"}
Stopping == {"stop_services", "stop_plugin", "stop_rest"}

Init ==
    /\ PluginInit
    /\ main = "sleep" /\ run = TRUE
    /\ throwExceptions \in BOOLEAN
    /\ wantShutdown = FALSE
    /\ workerList = CHOOSE l \in SetToSeqs(Workers) : TRUE
    /\ pos = 1
    /\ proc = [p \in Others |-> "running"]
    /\ todo \in {{}, Tasks}
    /\ faults \in {0, MaxFaults}

MainTypeOK ==
    /\ main \in {"sleep", "check_plugin", "crashed", "exited"} \cup Stopping
    /\ run \in BOOLEAN /\ throwExceptions \in BOOLEAN /\ wantShutdown \in BOOLEAN
    /\ workerList \in Seq(Workers) /\ pos \in 1 .. Cardinality(Workers) + 1
    /\ proc \in [Others -> ProcStates] /\ todo \subseteq Tasks
    /\ faults \in 0 .. MaxFaults

TypeOK == PluginTypeOK /\ MainTypeOK

-----------------------------------------------------------------------------
(* The other processes *)

Fault(p) ==
    /\ proc[p] = "running" /\ faults > 0
    /\ proc' = [proc EXCEPT ![p] = "raised"]
    /\ faults' = faults - 1
    /\ UNCHANGED <<pluginVars, main, run, throwExceptions, wantShutdown, workerList, pos, todo>>

Signal ==
    /\ run /\ run' = FALSE
    /\ UNCHANGED <<pluginVars, main, throwExceptions, wantShutdown, workerList, pos, proc, todo, faults>>

-----------------------------------------------------------------------------
(* One round of the loop in main *)

\* check_worker_exceptions for a list of one process that is to be restarted; an
\* unpack worker runs again.  The comparison worker is started again with an
\* index its function does not take: a TypeError ends it at once.
Raised(ps) == \E p \in ps : proc[p] = "raised"
Restarted == [proc EXCEPT !["unpack"] = IF @ = "raised" /\ ~throwExceptions THEN "running" ELSE @]

\* check_exceptions of the unpacking and the comparison scheduler.  The name of
\* the load monitor ends in None, which is no index (ValueError), and its list is
\* empty if it is not started again (IndexError): either way main ends.
CheckUnpackAndCompare ==
    /\ main = "sleep" /\ run
    /\ proc' = Restarted
    /\ main' = IF Raised({"monitor"}) THEN "crashed" ELSE "check_plugin"
    /\ wantShutdown' = (throwExceptions /\ Raised({"unpack", "compare"}))
    /\ UNCHANGED <<pluginVars, run, throwExceptions, workerList, pos, todo, faults>>

\* The list without the process that the loop is at, and with it at the end again.
Without(i) == RemoveAt(workerList, i)

Relisted(i) == Append(Without(i), workerList[i])

\* One turn of the loop of check_worker_exceptions.  The list is changed while
\* it is iterated: the process after a removed one is not looked at in this round.
CheckWorker ==
    /\ main = "check_plugin" /\ pos <= Len(workerList)
    /\ LET w == workerList[pos] IN
         \/ /\ At(w, "raised") /\ ~throwExceptions
            /\ Restart(w)
            /\ workerList' = Relisted(pos)
            /\ UNCHANGED wantShutdown
         \/ /\ At(w, "raised") /\ throwExceptions
            /\ workerList' = Without(pos)
            /\ wantShutdown' = TRUE
            /\ UNCHANGED pluginVars
         \/ /\ ~At(w, "raised")
            /\ UNCHANGED <<pluginVars, workerList, wantShutdown>>
    /\ pos' = pos + 1
    /\ UNCHANGED <<main, run, throwExceptions, proc, todo, faults>>

\* The schedule process and the collector are not started again.
CheckScheduler ==
    /\ main = "check_plugin" /\ pos > Len(workerList)
    /\ pos' = 1
    /\ main' = IF wantShutdown \/ (throwExceptions /\ Raised({"schedule", "collector"}))
                 THEN "stop_services" ELSE "sleep"
    /\ UNCHANGED <<pluginVars, run, throwExceptions, wantShutdown, workerList, proc, todo, faults>>

-----------------------------------------------------------------------------
(* The shutdown *)

BeginShutdown ==
    /\ main = "sleep" /\ ~run
    /\ main' = "stop_services"
    /\ UNCHANGED <<pluginVars, run, throwExceptions, wantShutdown, workerList, pos, proc, todo, faults>>

\* The services are stopped in this order: intercom, comparison, unpacking, and
\* of the analysis the schedule process.  The stop condition is set, the processes
\* leave their loops, and stop_process kills what has not stopped in time; the
\* comparison is joined without a timeout, and taken to end.
StopServices ==
    /\ main = "stop_services"
    /\ proc' = [p \in Others |-> IF p = "collector" THEN proc[p] ELSE "ended"]
    /\ main' = "stop_plugin"
    /\ UNCHANGED <<pluginVars, run, throwExceptions, wantShutdown, workerList, pos, todo, faults>>

ShutdownPlugin ==
    /\ main = "stop_plugin"
    /\ IF stopPlugin THEN StopWorkers /\ main' = "stop_rest"
                     ELSE StopPlugin /\ UNCHANGED main
    /\ UNCHANGED <<run, throwExceptions, wantShutdown, workerList, pos, proc, todo, faults>>

\* Mutant: the process group is left alone.
StopCollectorOnly ==
    /\ main = "stop_rest" /\ main' = "exited"
    /\ proc' = [proc EXCEPT !["collector"] = "ended"]
    /\ UNCHANGED <<pluginVars, run, throwExceptions, wantShutdown, workerList, pos, todo, faults>>

\* The collector is stopped; then complete_shutdown awaits what is left of the
\* process group and kills it.
StopRest ==
    /\ main = "stop_rest"
    /\ main' = "exited"
    /\ proc' = [proc EXCEPT !["collector"] = "ended"]
    /\ child' = [w \in Workers |-> IF ChildAlive(w) THEN "killed" ELSE child[w]]
    /\ UNCHANGED <<inQueue, delivered, stopPlugin, worker, statsIndex, statsCount, active, kills, lost>>
    /\ UNCHANGED <<run, throwExceptions, wantShutdown, workerList, pos, todo, faults>>

MainStep ==
    \/ CheckUnpackAndCompare \/ CheckWorker \/ CheckScheduler
    \/ BeginShutdown \/ StopServices \/ ShutdownPlugin \/ StopRest

\* The schedule process hands the plugin its work while it runs.  The tasks are
\* interchangeable, so they come in the order of their numbers.
Schedule(t) ==
    /\ proc["schedule"] = "running" /\ t \in todo /\ \A u \in todo : t <= u
    /\ todo' = todo \ {t}
    /\ AddJob(t)
    /\ UNCHANGED <<main, run, throwExceptions, wantShutdown, workerList, pos, proc, faults>>

Next ==
    \/ \E t \in todo : Schedule(t)
    \/ \E w \in Workers : (WorkerStep(w) \/ ChildMoves(w)) /\ UNCHANGED mainVars
    \/ \E p \in Others : Fault(p)
    \/ Signal
    \/ MainStep

\* A process of the operating system that can go on does.  Nothing is assumed of
\* faults, kills and signals.
ProcessFairness ==
    /\ WF_vars(MainStep)
    /\ \A w \in Workers : WF_vars(WorkerStep(w) /\ UNCHANGED mainVars)

\* An analysis ends, with a result if nothing else happens to it.
AnalysesEnd ==
    \A w \in Workers : WF_vars((AppendResult(w) \/ EndChild(w)) /\ UNCHANGED mainVars)

Fairness == ProcessFairness /\ AnalysesEnd

Spec == Init /\ [][Next]_vars /\ Fairness

-----------------------------------------------------------------------------
(* Properties *)

Occurrences(t) ==
    Cardinality({i \in DOMAIN inQueue : inQueue[i] = t})
    + Cardinality({w \in Workers : worker[w].task = t})
    + Len(delivered[t])
    + (IF t \in lost THEN 1 ELSE 0)

\* Through restarts, timeouts and the shutdown: a file object handed to the plugin
\* (add_job) is queued, held by one worker, delivered once, or lost with a worker
\* that died.
JobInOnePlace == \A t \in Tasks : Occurrences(t) <= 1

\* Whatever the interleaving of _update_duration_stats in several workers, the
\* index is inside the ring again as soon as none of them is in it: an index
\* left at the limit would end every later analysis with an IndexError.  (Only
\* the shutdown kills a worker in the middle of it.)
RingIndexRecovers ==
    (\A w \in Workers : worker[w].pc \notin {"killed"} \cup (InStats \ {"stat_write"}))
        => statsIndex < StatsLimit

\* Without deliberate shutdown on exceptions each worker index is in the list
\* exactly once, although check_exceptions changes the list while it iterates it.
NoWorkerForgotten ==
    ~throwExceptions => Len(workerList) = Cardinality(Workers) /\ ToSet(workerList) = Workers

\* What the workers of a plugin share stays in order: the jobs, the ring of the
\* durations and the list of the workers (AnalysisBasePlugin).
PluginInOrder == TypeOK /\ JobInOnePlace /\ RingIndexRecovers /\ NoWorkerForgotten

\* After a regular exit no process of the backend is left, analysis processes
\* whose worker was killed included.
NothingSurvivesExit ==
    main = "exited" =>
        /\ \A w \in Workers : worker[w].pc \notin {"loop"} \cup Busy /\ ~ChildAlive(w)
        /\ \A p \in Others : proc[p] # "running"

GoneOrStopping == main \in {"crashed", "exited"} \cup Stopping

\* Every file object in the in queue is delivered, or lost with its worker, or
\* the backend stops first: a worker that ended with an exception is started again,
\* though a round of check_exceptions may miss it.
EveryJobEnds ==
    \A t \in Tasks : (t \in ToSet(inQueue)) ~> (delivered[t] # <<>> \/ t \in lost \/ GoneOrStopping)

\* A signal ends the backend, unless the main process died before.
ShutdownCompletes == ~run ~> main \in {"crashed", "exited"}
=============================================================================
