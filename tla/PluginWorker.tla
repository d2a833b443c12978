---------------------------- MODULE PluginWorker ----------------------------
(***************************************************************************)
(* The worker processes of one analysis plugin (analysis/PluginBase.py):   *)
(* each takes file objects from the in queue of the plugin, runs every     *)
(* analysis in a process of its own with a timeout, notes the duration in  *)
(* a ring of shared memory and puts the file object into the out queue.    *)
(*                                                                         *)
(* Every access to a shared value is a step, because each takes and        *)
(* releases the lock of the value on its own.  A signal SIGTERM has no     *)
(* effect on a process of the backend: all of them inherit the handler of  *)
(* the main process, which does nothing in a subprocess (fact_base.py).    *)
(***************************************************************************)
EXTENDS Integers, Sequences, FiniteSets, SequencesExt

CONSTANTS
    Workers,       \* indices of the worker processes (thread_count of them)
    Tasks,         \* file objects the scheduler hands to the plugin, numbered
    NoTask,        \* what a worker without a task holds
    StatsLimit,    \* ANALYSIS_STATS_LIMIT, the size of the ring
    MaxKills       \* bound: analysis processes killed from outside

ASSUME WorkerConstants ==
    /\ IsFiniteSet(Workers) /\ Tasks \subseteq Nat /\ NoTask \notin Tasks
    /\ StatsLimit \in Nat \ {0} /\ MaxKills \in Nat

VARIABLES
    inQueue,       \* in_queue of the plugin
    delivered,     \* out_queue: per file object, the outcomes put into it
    stopPlugin,    \* stop_condition of the plugin
    worker,        \* per worker: where it is, its task, a value read
    child,         \* per worker: the process of its current analysis
    statsIndex,    \* analysis_stats_index
    statsCount,    \* analysis_stats_count
    active,        \* active, the flag of each worker
    kills,         \* analysis processes killed so far
    lost           \* file objects whose worker died before it passed them on

pluginVars == <<inQueue, delivered, stopPlugin, worker, child, statsIndex,
                statsCount, active, kills, lost>>

Outcomes == {"ok", "Timeout", "Exception"}

\* The steps of worker and worker_processing_with_timeout.  "raised" is a worker
\* that ended with an exception, "stopped" one that left its loop, "killed" one
\* that stop_process had to kill.
InStats == {"stat_write", "index_get", "index_set", "index_check",
            "index_reset", "count_check", "count_get", "count_set"}
Busy == {"join", "outcome", "terminating"} \cup InStats
WorkerStates == {"loop", "raised", "stopped", "killed"} \cup Busy

\* "appended": the result is in the managed list, the process still alive;
\* "done", "failed" and "killed" have ended, the last one without a word.
ChildStates == {"none", "analyzing", "appended", "done", "failed", "killed"}
ChildAlive(w) == child[w] \in {"analyzing", "appended"}

NewWorker == [pc |-> "loop", task |-> NoTask, read |-> 0]

PluginInit ==
    /\ inQueue = <<>>
    /\ delivered = [t \in Tasks |-> <<>>]
    /\ stopPlugin = FALSE
    /\ worker = [w \in Workers |-> NewWorker]
    /\ child = [w \in Workers |-> "none"]
    /\ statsIndex = 0
    /\ statsCount = 0
    /\ active = [w \in Workers |-> 0]
    /\ kills = 0
    /\ lost = {}

PluginTypeOK ==
    /\ inQueue \in Seq(Tasks) /\ delivered \in [Tasks -> Seq(Outcomes)]
    /\ worker \in [Workers -> [pc : WorkerStates, task : Tasks \cup {NoTask}, read : Nat]]
    /\ child \in [Workers -> ChildStates] /\ active \in [Workers -> 0 .. 1]
    /\ statsIndex \in Nat /\ statsCount \in Nat /\ kills \in 0 .. MaxKills
    /\ stopPlugin \in BOOLEAN /\ lost \subseteq Tasks

At(w, pc) == worker[w].pc = pc
Goto(w, pc) == worker' = [worker EXCEPT ![w].pc = pc]

\* A worker ends with an exception; the task it held is gone with it.
Raise(w) ==
    /\ worker' = [worker EXCEPT ![w] = [NewWorker EXCEPT !.pc = "raised"]]
    /\ lost' = lost \cup {worker[w].task}

AddJob(t) ==
    /\ inQueue' = Append(inQueue, t)
    /\ UNCHANGED <<delivered, stopPlugin, worker, child, statsIndex, statsCount,
                   active, kills, lost>>

-----------------------------------------------------------------------------
(* The loop of a worker *)

GetTask(w) ==
    /\ At(w, "loop") /\ ~stopPlugin /\ inQueue # <<>>
    /\ inQueue' = Tail(inQueue)
    /\ active' = [active EXCEPT ![w] = 1]
    /\ worker' = [worker EXCEPT ![w] = [pc |-> "join", task |-> Head(inQueue), read |-> 0]]
    /\ child' = [child EXCEPT ![w] = "analyzing"]
    /\ UNCHANGED <<delivered, stopPlugin, statsIndex, statsCount, kills, lost>>

QueueEmpty(w) ==
    /\ At(w, "loop") /\ ~stopPlugin /\ inQueue = <<>> /\ active[w] = 1
    /\ active' = [active EXCEPT ![w] = 0]
    /\ UNCHANGED <<inQueue, delivered, stopPlugin, worker, child, statsIndex,
                   statsCount, kills, lost>>

LeaveLoop(w) ==
    /\ At(w, "loop") /\ stopPlugin
    /\ Goto(w, "stopped")
    /\ UNCHANGED <<inQueue, delivered, stopPlugin, child, statsIndex,
                   statsCount, active, kills, lost>>

-----------------------------------------------------------------------------
(* The analysis process *)

ChildStep(w, from, to) ==
    /\ child[w] \in from
    /\ child' = [child EXCEPT ![w] = to]
    /\ UNCHANGED <<inQueue, delivered, stopPlugin, worker, statsIndex,
                   statsCount, active, lost>>

AppendResult(w) == ChildStep(w, {"analyzing"}, "appended") /\ UNCHANGED kills
EndChild(w) == ChildStep(w, {"appended"}, "done") /\ UNCHANGED kills
FailChild(w) == ChildStep(w, {"analyzing"}, "failed") /\ UNCHANGED kills
KillChild(w) ==
    /\ kills < MaxKills
    /\ kills' = kills + 1
    /\ ChildStep(w, {"analyzing"}, "killed")

-----------------------------------------------------------------------------
(* worker_processing_with_timeout after the start of the process.          *)

\* join returns because the process ended or because the time is over.
JoinChild(w) ==
    /\ At(w, "join") /\ ~ChildAlive(w)
    /\ Goto(w, "stat_write")
    /\ UNCHANGED <<inQueue, delivered, stopPlugin, child, statsIndex,
                   statsCount, active, kills, lost>>

TimeoutChild(w) ==
    /\ At(w, "join") /\ ChildAlive(w)
    /\ Goto(w, "stat_write")
    /\ UNCHANGED <<inQueue, delivered, stopPlugin, child, statsIndex,
                   statsCount, active, kills, lost>>

\* _update_duration_stats.  The index is read under the lock of the array; an
\* index outside of it is an IndexError.
WriteStat(w) ==
    /\ At(w, "stat_write")
    /\ IF statsIndex < StatsLimit
         THEN Goto(w, "index_get") /\ UNCHANGED lost
         ELSE Raise(w)
    /\ UNCHANGED <<inQueue, delivered, stopPlugin, child, statsIndex,
                   statsCount, active, kills>>

StatStep(w, from, to, read) ==
    /\ At(w, from)
    /\ worker' = [worker EXCEPT ![w].pc = to, ![w].read = read]
    /\ UNCHANGED <<inQueue, delivered, stopPlugin, child, active, kills, lost>>

GetIndex(w) ==
    StatStep(w, "index_get", "index_set", statsIndex) /\ UNCHANGED <<statsIndex, statsCount>>
SetIndex(w) ==
    /\ StatStep(w, "index_set", "index_check", 0)
    /\ statsIndex' = worker[w].read + 1 /\ UNCHANGED statsCount
CheckIndex(w) ==
    /\ StatStep(w, "index_check",
                IF statsIndex >= StatsLimit THEN "index_reset" ELSE "count_check", 0)
    /\ UNCHANGED <<statsIndex, statsCount>>
ResetIndex(w) ==
    /\ StatStep(w, "index_reset", "count_check", 0)
    /\ statsIndex' = 0 /\ UNCHANGED statsCount
CheckCount(w) ==
    /\ StatStep(w, "count_check",
                IF statsCount < StatsLimit THEN "count_get" ELSE "outcome", 0)
    /\ UNCHANGED <<statsIndex, statsCount>>
GetCount(w) ==
    StatStep(w, "count_get", "count_set", statsCount) /\ UNCHANGED <<statsIndex, statsCount>>
SetCount(w) ==
    /\ StatStep(w, "count_set", "outcome", 0)
    /\ statsCount' = worker[w].read + 1 /\ UNCHANGED statsIndex

Put(w, outcome) ==
    /\ delivered' = [delivered EXCEPT ![worker[w].task] = Append(@, outcome)]
    /\ worker' = [worker EXCEPT ![w] = NewWorker]
    /\ child' = [child EXCEPT ![w] = "none"]

\* The process is still alive: SIGTERM goes to it and to the tools it started,
\* and the worker waits for its end.
HandleTimeout(w) ==
    /\ At(w, "outcome") /\ ChildAlive(w)
    /\ Goto(w, "terminating")
    /\ UNCHANGED <<inQueue, delivered, stopPlugin, child, statsIndex,
                   statsCount, active, kills, lost>>

JoinTerminated(w) ==
    /\ At(w, "terminating") /\ ~ChildAlive(w)
    /\ Put(w, "Timeout")
    /\ UNCHANGED <<inQueue, stopPlugin, statsIndex, statsCount, active, kills, lost>>

\* Mutants: a failed analysis is also tried again; it is not passed on at all.
HandleExceptionAndRetry(w) ==
    /\ At(w, "outcome") /\ child[w] = "failed"
    /\ Put(w, "Exception")
    /\ inQueue' = Append(inQueue, worker[w].task)
    /\ UNCHANGED <<stopPlugin, statsIndex, statsCount, active, kills, lost>>
HandleExceptionSilently(w) ==
    /\ At(w, "outcome") /\ child[w] = "failed"
    /\ worker' = [worker EXCEPT ![w] = NewWorker]
    /\ child' = [child EXCEPT ![w] = "none"]
    /\ UNCHANGED <<inQueue, delivered, stopPlugin, statsIndex, statsCount, active, kills, lost>>

HandleException(w) ==
    /\ At(w, "outcome") /\ child[w] = "failed"
    /\ Put(w, "Exception")
    /\ UNCHANGED <<inQueue, stopPlugin, statsIndex, statsCount, active, kills, lost>>

\* result.pop(): a process that was killed has put nothing into the list.
PopResult(w) ==
    /\ At(w, "outcome") /\ child[w] \in {"done", "killed"}
    /\ IF child[w] = "done"
         THEN Put(w, "ok") /\ UNCHANGED lost
         ELSE Raise(w) /\ child' = [child EXCEPT ![w] = "none"] /\ UNCHANGED delivered
    /\ UNCHANGED <<inQueue, stopPlugin, statsIndex, statsCount, active, kills>>

-----------------------------------------------------------------------------
(* What the main process of the backend does with a worker.                *)

\* The exception is read from the pipe, the process is joined, which takes until
\* its analysis process has ended too, and started again with the same index.
Restart(w) ==
    /\ At(w, "raised") /\ ~ChildAlive(w)
    /\ worker' = [worker EXCEPT ![w] = NewWorker]
    /\ child' = [child EXCEPT ![w] = "none"]
    /\ UNCHANGED <<inQueue, delivered, stopPlugin, statsIndex, statsCount,
                   active, kills, lost>>

StopPlugin ==
    /\ stopPlugin' = TRUE
    /\ UNCHANGED <<inQueue, delivered, worker, child, statsIndex, statsCount,
                   active, kills, lost>>

\* Mutant: the workers are joined without a timeout.
StopWorkersPatiently ==
    /\ \A w \in Workers : worker[w].pc = "stopped"
    /\ UNCHANGED pluginVars

\* The workers that are busy at the end of the 10 s of stop_processes are killed;
\* their analysis processes go on.
StopWorkers ==
    /\ \A w \in Workers : worker[w].pc # "loop"
    /\ worker' = [w \in Workers |->
                     IF worker[w].pc \in Busy THEN [worker[w] EXCEPT !.pc = "killed"]
                     ELSE worker[w]]
    /\ UNCHANGED <<inQueue, delivered, stopPlugin, child, statsIndex,
                   statsCount, active, kills, lost>>

StatsStep(w) ==
    \/ WriteStat(w) \/ GetIndex(w) \/ SetIndex(w) \/ CheckIndex(w) \/ ResetIndex(w)
    \/ CheckCount(w) \/ GetCount(w) \/ SetCount(w)
WorkerStep(w) ==
    \/ GetTask(w) \/ QueueEmpty(w) \/ LeaveLoop(w)
    \/ JoinChild(w) \/ TimeoutChild(w) \/ StatsStep(w)
    \/ HandleTimeout(w) \/ JoinTerminated(w) \/ HandleException(w) \/ PopResult(w)
ChildMoves(w) == AppendResult(w) \/ EndChild(w) \/ FailChild(w) \/ KillChild(w)
=============================================================================
