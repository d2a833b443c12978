--------------------------- MODULE Backend_proofs ---------------------------
(***************************************************************************)
(* Proofs about the workers of a plugin and the process that looks after   *)
(* them: for any number of workers, file objects, exceptions and killed    *)
(* analysis processes, what the workers share stays in order, and a regular*)
(* exit leaves no process behind.                                          *)
(***************************************************************************)
EXTENDS Backend, FiniteSetTheorems, TLAPS

(***************************************************************************)
(* The inductive invariant, in four parts.                                 *)
(***************************************************************************)
\* A worker holds a file object from the queue to its end, and none outside.
HoldsInv ==
    \A w \in Workers :
        /\ worker[w].pc \in Busy => worker[w].task \in Tasks
        /\ worker[w].pc \in {"loop", "raised", "stopped"} => worker[w].task = NoTask

Queued(t) == \E i \in DOMAIN inQueue : inQueue[i] = t
Held(t) == \E w \in Workers : worker[w].task = t

\* A file object is in one place at most, and once; what is yet to be handed over
\* is in none.
JobInv(t) ==
    /\ \A i, j \in DOMAIN inQueue : inQueue[i] = t /\ inQueue[j] = t => i = j
    /\ \A v, w \in Workers : worker[v].task = t /\ worker[w].task = t => v = w
    /\ Len(delivered[t]) <= 1
    /\ t \in todo => ~Queued(t) /\ ~Held(t) /\ delivered[t] = << >> /\ t \notin lost
    /\ Queued(t) => ~Held(t) /\ delivered[t] = << >> /\ t \notin lost
    /\ Held(t) => delivered[t] = << >> /\ t \notin lost
    /\ t \in lost => delivered[t] = << >>

JobsInv == \A t \in Tasks : JobInv(t)

\* While the index is outside of the ring, the worker that put it there has yet
\* to look at it, or was killed before it did.
RingInv ==
    statsIndex >= StatsLimit =>
        \E w \in Workers : worker[w].pc \in {"index_check", "index_reset", "killed"}

\* A process is in the list once, and there is room for all.
ListInv ==
    /\ \A i, j \in DOMAIN workerList : workerList[i] = workerList[j] => i = j
    /\ Len(workerList) <= Cardinality(Workers)
    /\ NoWorkerForgotten

\* What the shutdown has stopped is not started again.
ExitInv ==
    /\ main \in {"stop_plugin", "stop_rest", "exited"} =>
            \A p \in Others \ {"collector"} : proc[p] # "running"
    /\ main \in {"stop_rest", "exited"} =>
            \A w \in Workers : worker[w].pc \notin {"loop"} \cup Busy
    /\ main = "exited" =>
            /\ proc["collector"] # "running"
            /\ \A w \in Workers : ~ChildAlive(w)

BackendInv == TypeOK /\ HoldsInv /\ JobsInv /\ RingInv /\ ListInv /\ ExitInv

-----------------------------------------------------------------------------
(***************************************************************************)
(* The initial states.                                                     *)
(***************************************************************************)
LEMMA InitialList ==
    Init => /\ workerList \in Seq(Workers) /\ Len(workerList) = Cardinality(Workers)
            /\ ToSet(workerList) = Workers
            /\ \A i, j \in DOMAIN workerList : workerList[i] = workerList[j] => i = j
<1> DEFINE n == Cardinality(Workers)
<1>1. n \in Nat
  BY FS_CardinalityType, WorkerConstants
<1>2. PICK f : ExistsBijection(1..n, Workers) /\ f \in Bijection(1..n, Workers)
  BY FS_CardinalityType, WorkerConstants DEF ExistsBijection
<1>3. f \in SetToSeqs(Workers)
  BY <1>2 DEF SetToSeqs, Bijection, Injection, IsInjective, Surjection
<1>4. ASSUME Init PROVE workerList \in SetToSeqs(Workers)
  BY <1>3, <1>4 DEF Init
<1>5. ASSUME Init
      PROVE  /\ workerList \in [1..n -> Workers]
             /\ \A i, j \in 1..n : i # j => workerList[i] # workerList[j]
  BY <1>4, <1>5 DEF SetToSeqs
<1>6. ASSUME Init PROVE workerList \in Surjection(1..n, Workers)
  <2>1. workerList \in Injection(1..n, Workers)
    BY <1>5, <1>6 DEF Injection, IsInjective
  <2>2. IsFiniteSet(1..n) /\ Cardinality(1..n) = n
    BY <1>1, FS_Interval
  <2> QED
    BY <1>1, <2>1, <2>2, WorkerConstants, FS_Injection
<1> QED
  <2> SUFFICES ASSUME Init
               PROVE  /\ workerList \in Seq(Workers) /\ Len(workerList) = n
                      /\ ToSet(workerList) = Workers
                      /\ \A i, j \in DOMAIN workerList : workerList[i] = workerList[j] => i = j
    OBVIOUS
  <2> HIDE DEF n
  <2>1. DOMAIN workerList = 1..n /\ Len(workerList) = n /\ workerList \in Seq(Workers)
    BY <1>1, <1>5
  <2>2. ToSet(workerList) = Workers
    BY <1>6, <2>1 DEF ToSet, Surjection
  <2> QED
    BY <1>5, <2>1, <2>2

LEMMA InitInv == Init => BackendInv
<1> SUFFICES ASSUME Init PROVE BackendInv
  OBVIOUS
<1>1. TypeOK
  <2>1. PluginTypeOK
    <3>1. NewWorker \in [pc : WorkerStates, task : Tasks \cup {NoTask}, read : Nat]
      BY DEF NewWorker, WorkerStates
    <3>2. /\ inQueue \in Seq(Tasks) /\ delivered \in [Tasks -> Seq(Outcomes)]
          /\ worker \in [Workers -> [pc : WorkerStates, task : Tasks \cup {NoTask}, read : Nat]]
          /\ child \in [Workers -> ChildStates] /\ active \in [Workers -> 0 .. 1]
      BY <3>1 DEF Init, PluginInit, ChildStates
    <3>3. statsIndex \in Nat /\ statsCount \in Nat /\ kills \in 0 .. MaxKills
      BY WorkerConstants DEF Init, PluginInit
    <3>4. stopPlugin \in BOOLEAN /\ lost \subseteq Tasks
      BY DEF Init, PluginInit
    <3> QED
      BY <3>2, <3>3, <3>4 DEF PluginTypeOK
  <2>2. Cardinality(Workers) \in Nat /\ workerList \in Seq(Workers)
    BY InitialList, FS_CardinalityType, WorkerConstants
  <2>3. MainTypeOK
    <3>1. pos \in 1 .. Cardinality(Workers) + 1 /\ faults \in 0 .. MaxFaults
      BY <2>2, FaultsAssumption DEF Init
    <3>2. /\ main \in {"sleep", "check_plugin", "crashed", "exited"} \cup Stopping
          /\ proc \in [Others -> ProcStates] /\ todo \subseteq Tasks
      BY DEF Init, ProcStates
    <3>3. run \in BOOLEAN /\ throwExceptions \in BOOLEAN /\ wantShutdown \in BOOLEAN
      BY DEF Init
    <3> QED
      BY <2>2, <3>1, <3>2, <3>3 DEF MainTypeOK
  <2> QED
    BY <2>1, <2>3 DEF TypeOK
<1>2. HoldsInv
  BY DEF Init, PluginInit, HoldsInv, NewWorker, Busy, InStats
<1>3. JobsInv
  BY WorkerConstants DEF Init, PluginInit, JobsInv, JobInv, NewWorker, Queued, Held
<1>4. RingInv
  BY WorkerConstants DEF Init, PluginInit, RingInv
<1>5. ListInv
  BY InitialList, FS_CardinalityType, WorkerConstants DEF ListInv, NoWorkerForgotten
<1>6. ExitInv
  BY DEF Init, ExitInv
<1> QED
  BY <1>1, <1>2, <1>3, <1>4, <1>5, <1>6 DEF BackendInv

-----------------------------------------------------------------------------
(***************************************************************************)
(* Types.                                                                  *)
(***************************************************************************)
WorkerRecords == [pc : WorkerStates, task : Tasks \cup {NoTask}, read : Nat]

\* A worker that goes on, with a value it has read.
LEMMA WorkerGoesOn ==
    ASSUME PluginTypeOK, NEW w \in Workers, NEW pc \in WorkerStates, NEW read \in Nat,
           \/ worker' = [worker EXCEPT ![w].pc = pc]
           \/ worker' = [worker EXCEPT ![w].pc = pc, ![w].read = read]
    PROVE  worker' \in [Workers -> WorkerRecords]
<1>1. worker \in [Workers -> WorkerRecords] /\ worker[w] \in WorkerRecords
  BY DEF PluginTypeOK, WorkerRecords
<1>2. PICK r : /\ \/ r = [worker[w] EXCEPT !.pc = pc]
                  \/ r = [worker[w] EXCEPT !.pc = pc, !.read = read]
               /\ worker' = [worker EXCEPT ![w] = r]
  <2>1. CASE worker' = [worker EXCEPT ![w].pc = pc]
    BY <1>1, <2>1
  <2>2. CASE worker' = [worker EXCEPT ![w].pc = pc, ![w].read = read]
    BY <1>1, <2>2
  <2> QED
    BY <2>1, <2>2
<1>3. r \in WorkerRecords
  BY <1>1, <1>2 DEF WorkerRecords
<1> QED
  BY <1>1, <1>2, <1>3

LEMMA TypesOfPlugin ==
    PluginTypeOK' <=>
        /\ inQueue' \in Seq(Tasks) /\ delivered' \in [Tasks -> Seq(Outcomes)]
        /\ worker' \in [Workers -> WorkerRecords]
        /\ child' \in [Workers -> ChildStates] /\ active' \in [Workers -> 0 .. 1]
        /\ statsIndex' \in Nat /\ statsCount' \in Nat /\ kills' \in 0 .. MaxKills
        /\ stopPlugin' \in BOOLEAN /\ lost' \subseteq Tasks
  BY Zenon DEF PluginTypeOK, WorkerRecords

LEMMA WorkerTypes ==
    ASSUME PluginTypeOK, HoldsInv, NEW w \in Workers, WorkerStep(w) \/ ChildMoves(w)
    PROVE  PluginTypeOK'
<1>a. /\ NewWorker \in WorkerRecords /\ [NewWorker EXCEPT !.pc = "raised"] \in WorkerRecords
      /\ worker[w].read + 1 \in Nat
  <2>1. worker[w] \in WorkerRecords
    BY DEF PluginTypeOK, WorkerRecords
  <2>2. worker[w].read + 1 \in Nat
    BY <2>1 DEF WorkerRecords
  <2>3. NewWorker \in WorkerRecords /\ [NewWorker EXCEPT !.pc = "raised"] \in WorkerRecords
    BY DEF NewWorker, WorkerStates, WorkerRecords
  <2> QED
    BY <2>2, <2>3
<1>t. worker \in [Workers -> WorkerRecords]
  BY DEF PluginTypeOK, WorkerRecords
<1>s. InStats \subseteq WorkerStates /\ {"stopped", "outcome", "terminating"} \subseteq WorkerStates
  BY DEF WorkerStates, Busy
<1>b. ASSUME Raise(w), worker[w].pc \in Busy
      PROVE  worker' \in [Workers -> WorkerRecords] /\ lost' \subseteq Tasks
  BY <1>a, <1>b, <1>t DEF PluginTypeOK, Raise, HoldsInv
<1>c. ASSUME NEW outcome \in Outcomes, Put(w, outcome), worker[w].pc \in Busy
      PROVE  /\ worker' \in [Workers -> WorkerRecords] /\ child' \in [Workers -> ChildStates]
             /\ delivered' \in [Tasks -> Seq(Outcomes)]
  <2>1. worker' \in [Workers -> WorkerRecords]
    BY <1>a, <1>c, <1>t DEF Put
  <2>2. child' \in [Workers -> ChildStates]
    BY <1>c DEF PluginTypeOK, Put, ChildStates
  <2>3. worker[w].task \in Tasks
    BY <1>c DEF HoldsInv
  <2>4. delivered' \in [Tasks -> Seq(Outcomes)]
    BY <1>c, <2>3 DEF PluginTypeOK, Put
  <2> QED
    BY <2>1, <2>2, <2>4
<1>d. ASSUME NEW pc \in WorkerStates, Goto(w, pc),
             UNCHANGED <<inQueue, delivered, stopPlugin, child, statsIndex,
                         statsCount, active, kills, lost>>
      PROVE  PluginTypeOK'
  <2>1. worker' \in [Workers -> WorkerRecords]
    BY <1>d, WorkerGoesOn DEF Goto
  <2> QED
    BY <1>d, <2>1, TypesOfPlugin DEF PluginTypeOK
<1>e. ASSUME NEW from, NEW to \in WorkerStates, NEW read \in Nat, StatStep(w, from, to, read),
             statsIndex' \in Nat, statsCount' \in Nat
      PROVE  PluginTypeOK'
  <2>1. worker' \in [Workers -> WorkerRecords]
    BY <1>e, WorkerGoesOn DEF StatStep
  <2> QED
    BY <1>e, <2>1, TypesOfPlugin DEF PluginTypeOK, StatStep
<1>f. statsIndex \in Nat /\ statsCount \in Nat
  BY DEF PluginTypeOK
<1>1. CASE GetTask(w)
  <2>1. inQueue' \in Seq(Tasks) /\ Head(inQueue) \in Tasks
    BY <1>1 DEF PluginTypeOK, GetTask
  <2>2. [pc |-> "join", task |-> Head(inQueue), read |-> 0] \in WorkerRecords
    BY <2>1 DEF WorkerRecords, WorkerStates, Busy
  <2>3. worker' \in [Workers -> WorkerRecords]
    BY <1>1, <1>t, <2>2 DEF GetTask
  <2>4. child' \in [Workers -> ChildStates] /\ active' \in [Workers -> 0 .. 1]
    BY <1>1 DEF PluginTypeOK, GetTask, ChildStates
  <2> QED
    BY <1>1, <2>1, <2>3, <2>4, TypesOfPlugin DEF PluginTypeOK, GetTask
<1>2. CASE QueueEmpty(w)
  BY <1>2, WorkerConstants DEF PluginTypeOK, QueueEmpty
<1>3. CASE LeaveLoop(w)
  BY <1>3, <1>d, <1>s DEF LeaveLoop
<1>4. CASE JoinChild(w)
  BY <1>4, <1>d, <1>s DEF JoinChild, InStats
<1>5. CASE TimeoutChild(w)
  BY <1>5, <1>d, <1>s DEF TimeoutChild, InStats
<1>6. CASE WriteStat(w)
  <2>1. CASE statsIndex < StatsLimit
    BY <1>6, <2>1, <1>d, <1>s DEF WriteStat, InStats
  <2>2. CASE ~(statsIndex < StatsLimit)
    <3>1. worker' \in [Workers -> WorkerRecords] /\ lost' \subseteq Tasks
      BY <1>6, <2>2, <1>b DEF WriteStat, At, Busy, InStats
    <3> QED
      BY <1>6, <3>1, TypesOfPlugin DEF PluginTypeOK, WriteStat
  <2> QED
    BY <2>1, <2>2
<1>7. CASE GetIndex(w)
  BY <1>7, <1>e, <1>f, <1>s DEF GetIndex, InStats
<1>8. CASE SetIndex(w)
  BY <1>8, <1>a, <1>e, <1>f, <1>s DEF SetIndex, InStats
<1>9. CASE CheckIndex(w)
  <2>1. (IF statsIndex >= StatsLimit THEN "index_reset" ELSE "count_check") \in WorkerStates
    BY <1>s DEF InStats
  <2> QED
    BY <1>9, <2>1, <1>e, <1>f DEF CheckIndex
<1>10. CASE ResetIndex(w)
  BY <1>10, <1>e, <1>f, <1>s DEF ResetIndex, InStats
<1>11. CASE CheckCount(w)
  <2>1. (IF statsCount < StatsLimit THEN "count_get" ELSE "outcome") \in WorkerStates
    BY <1>s DEF InStats
  <2> QED
    BY <1>11, <2>1, <1>e, <1>f DEF CheckCount
<1>12. CASE GetCount(w)
  BY <1>12, <1>e, <1>f, <1>s DEF GetCount, InStats
<1>13. CASE SetCount(w)
  BY <1>13, <1>a, <1>e, <1>f, <1>s DEF SetCount
<1>14. CASE HandleTimeout(w)
  BY <1>14, <1>d, <1>s DEF HandleTimeout
<1>15. CASE JoinTerminated(w)
  BY <1>15, <1>c, TypesOfPlugin DEF PluginTypeOK, JoinTerminated, At, Busy, Outcomes
<1>16. CASE HandleException(w)
  BY <1>16, <1>c, TypesOfPlugin DEF PluginTypeOK, HandleException, At, Busy, Outcomes
<1>17. CASE PopResult(w)
  <2>1. CASE child[w] = "done"
    BY <1>17, <2>1, <1>c, TypesOfPlugin DEF PluginTypeOK, PopResult, At, Busy, Outcomes
  <2>2. CASE child[w] # "done"
    BY <1>17, <2>2, <1>b, TypesOfPlugin DEF PluginTypeOK, PopResult, At, Busy, ChildStates
  <2> QED
    BY <2>1, <2>2
<1>18. CASE AppendResult(w)
  BY <1>18, WorkerConstants DEF PluginTypeOK, AppendResult, ChildStep, ChildStates
<1>19. CASE EndChild(w)
  BY <1>19, WorkerConstants DEF PluginTypeOK, EndChild, ChildStep, ChildStates
<1>20. CASE FailChild(w)
  BY <1>20, WorkerConstants DEF PluginTypeOK, FailChild, ChildStep, ChildStates
<1>21. CASE KillChild(w)
  BY <1>21, WorkerConstants DEF PluginTypeOK, KillChild, ChildStep, ChildStates
<1> QED
  BY <1>1, <1>2, <1>3, <1>4, <1>5, <1>6, <1>7, <1>8, <1>9, <1>10, <1>11, <1>12, <1>13, <1>14, <1>15, <1>16, <1>17, <1>18, <1>19, <1>20, <1>21 DEF WorkerStep, StatsStep, ChildMoves


\* The list without its i-th process.
LEMMA WithoutFacts ==
    ASSUME workerList \in Seq(Workers), NEW i \in 1 .. Len(workerList)
    PROVE  /\ Without(i) \in Seq(Workers) /\ Len(Without(i)) = Len(workerList) - 1
           /\ \A j \in DOMAIN Without(i) :
                Without(i)[j] = workerList[IF j < i THEN j ELSE j + 1]
<1> DEFINE a == SubSeq(workerList, 1, i - 1)
           b == SubSeq(workerList, i + 1, Len(workerList))
<1>1. Without(i) = a \o b
  BY DEF Without, RemoveAt
<1>2. /\ a \in Seq(Workers) /\ Len(a) = i - 1
      /\ \A j \in 1 .. (i - 1) : a[j] = workerList[j]
  OBVIOUS
<1>3. /\ b \in Seq(Workers) /\ Len(b) = Len(workerList) - i
      /\ \A j \in 1 .. (Len(workerList) - i) : b[j] = workerList[i + j]
  OBVIOUS
<1>4. Len(workerList) \in Nat
  OBVIOUS
<1> HIDE DEF a, b
<1>5. Without(i) \in Seq(Workers) /\ Len(Without(i)) = Len(workerList) - 1
  <2>1. Without(i) \in Seq(Workers) /\ Len(Without(i)) = Len(a) + Len(b)
    <3>1. a \in Seq(Workers) /\ b \in Seq(Workers)
      BY <1>2, <1>3
    <3>2. a \o b \in Seq(Workers) /\ Len(a \o b) = Len(a) + Len(b)
      BY <3>1
    <3> QED
      BY <1>1, <3>2
  <2>2. (i - 1) + (Len(workerList) - i) = Len(workerList) - 1
    BY <1>4
  <2> QED
    BY <1>2, <1>3, <2>1, <2>2
<1>6. ASSUME NEW j \in DOMAIN Without(i)
      PROVE  Without(i)[j] = workerList[IF j < i THEN j ELSE j + 1]
  <2>1. j \in 1 .. (Len(workerList) - 1)
    BY <1>5
  <2>2. CASE j < i
    BY <1>1, <1>2, <1>3, <1>4, <2>1, <2>2
  <2>3. CASE ~(j < i)
    <3>1. Without(i)[j] = b[j - (i - 1)]
      BY <1>1, <1>2, <1>3, <1>4, <2>1, <2>3
    <3>2. j - (i - 1) \in 1 .. (Len(workerList) - i) /\ i + (j - (i - 1)) = j + 1
      BY <1>4, <2>1, <2>3
    <3>3. b[j - (i - 1)] = workerList[i + (j - (i - 1))]
      BY <1>3, <3>2
    <3> QED
      BY <2>3, <3>1, <3>2, <3>3
  <2> QED
    BY <2>2, <2>3
<1> QED
  BY <1>5, <1>6

\* The list with its i-th process at the end.
LEMMA RelistedFacts ==
    ASSUME workerList \in Seq(Workers), NEW i \in 1 .. Len(workerList)
    PROVE  /\ Relisted(i) \in Seq(Workers) /\ Len(Relisted(i)) = Len(workerList)
           /\ \A j \in DOMAIN Relisted(i) :
                Relisted(i)[j] = workerList[IF j < i THEN j
                                           ELSE IF j < Len(workerList) THEN j + 1 ELSE i]
<1> DEFINE rest == Without(i)
           n == Len(workerList)
<1>1. /\ rest \in Seq(Workers) /\ Len(rest) = n - 1
      /\ \A j \in DOMAIN rest : rest[j] = workerList[IF j < i THEN j ELSE j + 1]
  BY WithoutFacts
<1>2. workerList[i] \in Workers /\ n \in Nat /\ i \in 1 .. n
  OBVIOUS
<1>3. Relisted(i) = Append(rest, workerList[i])
  BY DEF Relisted
<1> HIDE DEF rest, n
<1>4. Relisted(i) \in Seq(Workers) /\ Len(Relisted(i)) = n
  BY <1>1, <1>2, <1>3
<1>5. ASSUME NEW j \in DOMAIN Relisted(i)
      PROVE  Relisted(i)[j] = workerList[IF j < i THEN j ELSE IF j < n THEN j + 1 ELSE i]
  <2>1. j \in 1 .. n /\ DOMAIN rest = 1 .. (n - 1)
    BY <1>1, <1>2, <1>4
  <2>2. CASE j < n
    <3>1. j \in DOMAIN rest /\ Relisted(i)[j] = rest[j]
      BY <1>1, <1>2, <1>3, <2>1, <2>2
    <3> QED
      BY <1>1, <2>2, <3>1
  <2>3. CASE j = n
    <3>1. Relisted(i)[j] = workerList[i] /\ ~(j < i)
      BY <1>1, <1>2, <1>3, <2>1, <2>3
    <3> QED
      BY <1>2, <2>3, <3>1
  <2> QED
    BY <1>2, <2>1, <2>2, <2>3
<1> QED
  BY <1>4, <1>5 DEF n


LEMMA TypesKept ==
    ASSUME TypeOK, HoldsInv, ListInv, [Next]_vars
    PROVE  TypeOK'
<1> SUFFICES PluginTypeOK' /\ MainTypeOK'
  BY DEF TypeOK
<1>t. PluginTypeOK /\ MainTypeOK
  BY DEF TypeOK
<1>c. Cardinality(Workers) \in Nat
  BY FS_CardinalityType, WorkerConstants
<1>p. UNCHANGED pluginVars => PluginTypeOK'
  BY <1>t DEF pluginVars, PluginTypeOK
<1>m. UNCHANGED mainVars => MainTypeOK'
  BY <1>t DEF mainVars, MainTypeOK
<1>1. ASSUME NEW t \in todo, Schedule(t) PROVE PluginTypeOK' /\ MainTypeOK'
  <2>1. t \in Tasks
    BY <1>t DEF MainTypeOK
  <2>2. MainTypeOK'
    BY <1>t, <1>1 DEF MainTypeOK, Schedule
  <2>3. PluginTypeOK'
    BY <1>t, <1>1, <2>1 DEF PluginTypeOK, Schedule, AddJob
  <2> QED
    BY <2>2, <2>3
<1>2. ASSUME NEW w \in Workers, WorkerStep(w) \/ ChildMoves(w), UNCHANGED mainVars
      PROVE  PluginTypeOK' /\ MainTypeOK'
  BY <1>t, <1>m, <1>2, WorkerTypes
<1>3. ASSUME NEW p \in Others, Fault(p) PROVE PluginTypeOK' /\ MainTypeOK'
  <2>1. proc' \in [Others -> ProcStates]
    BY <1>t, <1>3 DEF MainTypeOK, Fault, ProcStates
  <2>2. faults' \in 0 .. MaxFaults
    BY <1>t, <1>3, FaultsAssumption DEF MainTypeOK, Fault
  <2> QED
    BY <1>t, <1>p, <1>3, <2>1, <2>2 DEF MainTypeOK, Fault
<1>4. CASE Signal
  BY <1>t, <1>p, <1>4 DEF MainTypeOK, Signal
<1>5. CASE CheckUnpackAndCompare
  <2>1. proc' \in [Others -> ProcStates]
    BY <1>t, <1>5 DEF MainTypeOK, CheckUnpackAndCompare, Restarted, ProcStates
  <2>2. wantShutdown' \in BOOLEAN
    BY <1>5 DEF CheckUnpackAndCompare
  <2>3. main' \in {"sleep", "check_plugin", "crashed", "exited"}
    BY <1>5 DEF CheckUnpackAndCompare
  <2> QED
    BY <1>t, <1>p, <1>5, <2>1, <2>2, <2>3 DEF MainTypeOK, CheckUnpackAndCompare
<1>6. CASE CheckWorker
  <2> DEFINE w == workerList[pos]
  <2>1. workerList \in Seq(Workers) /\ pos \in 1 .. Len(workerList) /\ w \in Workers
    BY <1>t, <1>6 DEF MainTypeOK, CheckWorker
  <2>2. pos' \in 1 .. Cardinality(Workers) + 1
    <3>1. Len(workerList) <= Cardinality(Workers) /\ pos' = pos + 1 /\ Len(workerList) \in Nat
      BY <1>6, <2>1 DEF CheckWorker, ListInv
    <3> QED
      BY <1>c, <2>1, <3>1
  <2>3. workerList' \in Seq(Workers) /\ wantShutdown' \in BOOLEAN
    BY <1>t, <1>6, <2>1, WithoutFacts, RelistedFacts DEF MainTypeOK, CheckWorker
  <2>4. PluginTypeOK'
    <3>1. CASE Restart(w)
      <4>1. NewWorker \in [pc : WorkerStates, task : Tasks \cup {NoTask}, read : Nat]
        BY DEF NewWorker, WorkerStates
      <4> QED
        BY <1>t, <2>1, <3>1, <4>1 DEF PluginTypeOK, Restart, ChildStates
    <3> QED
      BY <1>p, <1>6, <3>1 DEF CheckWorker
  <2> QED
    BY <1>t, <1>6, <2>2, <2>3, <2>4 DEF MainTypeOK, CheckWorker
<1>7. CASE CheckScheduler
  <2>1. pos' \in 1 .. Cardinality(Workers) + 1
    BY <1>c, <1>7 DEF CheckScheduler
  <2> QED
    BY <1>t, <1>p, <1>7, <2>1 DEF MainTypeOK, CheckScheduler, Stopping
<1>8. CASE BeginShutdown
  BY <1>t, <1>p, <1>8 DEF MainTypeOK, BeginShutdown, Stopping
<1>9. CASE StopServices
  <2>1. proc' \in [Others -> ProcStates]
    BY <1>t, <1>9 DEF MainTypeOK, StopServices, ProcStates
  <2> QED
    BY <1>t, <1>p, <1>9, <2>1 DEF MainTypeOK, StopServices, Stopping
<1>10. CASE ShutdownPlugin
  <2>1. PluginTypeOK'
    <3>1. CASE StopPlugin
      BY <1>t, <3>1 DEF PluginTypeOK, StopPlugin
    <3>2. CASE StopWorkers
      <4>1. worker' \in [Workers -> [pc : WorkerStates, task : Tasks \cup {NoTask}, read : Nat]]
        BY <1>t, <3>2 DEF PluginTypeOK, StopWorkers, WorkerStates
      <4> QED
        BY <1>t, <3>2, <4>1 DEF PluginTypeOK, StopWorkers
    <3> QED
      BY <1>10, <3>1, <3>2 DEF ShutdownPlugin
  <2> QED
    BY <1>t, <1>10, <2>1 DEF MainTypeOK, ShutdownPlugin, Stopping
<1>11. CASE StopRest
  <2>1. child' \in [Workers -> ChildStates] /\ proc' \in [Others -> ProcStates]
    BY <1>t, <1>11 DEF PluginTypeOK, MainTypeOK, StopRest, ChildStates, ProcStates
  <2>2. PluginTypeOK'
    BY <1>t, <1>11, <2>1 DEF PluginTypeOK, StopRest
  <2> QED
    BY <1>t, <1>11, <2>1, <2>2 DEF MainTypeOK, StopRest
<1>12. CASE UNCHANGED vars
  BY <1>p, <1>m, <1>12 DEF vars
<1> QED
  BY <1>1, <1>2, <1>3, <1>4, <1>5, <1>6, <1>7, <1>8, <1>9, <1>10, <1>11, <1>12
    DEF Next, MainStep


-----------------------------------------------------------------------------
(***************************************************************************)
(* Where the file objects are.                                             *)
(***************************************************************************)
\* A step that moves no file object.
NothingMoves ==
    /\ inQueue' = inQueue /\ delivered' = delivered /\ lost' = lost /\ todo' = todo
    /\ \A w \in Workers : worker'[w].task = worker[w].task

LEMMA JobsStay == JobsInv /\ NothingMoves => JobsInv'
  BY DEF JobsInv, JobInv, NothingMoves, Queued, Held

LEMMA NoneMoves ==
    ASSUME PluginTypeOK, NEW w \in Workers, NEW pc, NEW read,
           \/ worker' = [worker EXCEPT ![w].pc = pc]
           \/ worker' = [worker EXCEPT ![w].pc = pc, ![w].read = read],
           inQueue' = inQueue, delivered' = delivered, lost' = lost, todo' = todo
    PROVE  NothingMoves
<1>1. worker \in [Workers -> WorkerRecords] /\ worker[w] \in WorkerRecords
  BY DEF PluginTypeOK, WorkerRecords
<1>2. PICK r : /\ \/ r = [worker[w] EXCEPT !.pc = pc]
                  \/ r = [worker[w] EXCEPT !.pc = pc, !.read = read]
               /\ worker' = [worker EXCEPT ![w] = r]
  <2>1. CASE worker' = [worker EXCEPT ![w].pc = pc]
    BY <1>1, <2>1
  <2>2. CASE worker' = [worker EXCEPT ![w].pc = pc, ![w].read = read]
    BY <1>1, <2>2
  <2> QED
    BY <2>1, <2>2
<1>3. r.task = worker[w].task
  BY <1>1, <1>2 DEF WorkerRecords
<1>4. \A v \in Workers : worker'[v].task = worker[v].task
  BY <1>1, <1>2, <1>3
<1> QED
  BY <1>4 DEF NothingMoves

\* put: the file object goes from the schedule process to the end of the queue.
LEMMA ScheduleJobs ==
    ASSUME TypeOK, JobsInv, NEW t \in Tasks, Schedule(t)
    PROVE  JobsInv'
<1>1. /\ inQueue \in Seq(Tasks) /\ t \in todo /\ todo' = todo \ {t}
      /\ inQueue' = Append(inQueue, t)
      /\ delivered' = delivered /\ lost' = lost /\ worker' = worker
  BY DEF TypeOK, PluginTypeOK, Schedule, AddJob
<1>2. /\ DOMAIN inQueue = 1 .. Len(inQueue) /\ Len(inQueue) \in Nat
      /\ DOMAIN inQueue' = 1 .. Len(inQueue) + 1
      /\ \A i \in DOMAIN inQueue : inQueue'[i] = inQueue[i]
      /\ inQueue'[Len(inQueue) + 1] = t
  BY <1>1
<1>3. ASSUME NEW u \in Tasks PROVE JobInv(u)'
  <2>1. JobInv(u) /\ JobInv(t)
    BY <1>3 DEF JobsInv
  <2>2. CASE u = t
    <3>1. \A i \in DOMAIN inQueue : inQueue[i] # t
      BY <1>1, <2>1 DEF JobInv, Queued
    <3>2. \A i \in DOMAIN inQueue' : inQueue'[i] = t => i = Len(inQueue) + 1
      BY <1>2, <3>1
    <3> QED
      BY <1>1, <2>1, <2>2, <3>2 DEF JobInv, Queued, Held
  <2>3. CASE u # t
    <3>1. \A i \in DOMAIN inQueue' : inQueue'[i] = u => i \in DOMAIN inQueue /\ inQueue[i] = u
      BY <1>2, <2>3
    <3> QED
      BY <1>1, <2>1, <2>3, <3>1 DEF JobInv, Queued, Held
  <2> QED
    BY <2>2, <2>3
<1> QED
  BY <1>3 DEF JobsInv

\* get: from the front of the queue to the worker.
LEMMA GetTaskJobs ==
    ASSUME TypeOK, HoldsInv, JobsInv, NEW w \in Workers, GetTask(w), todo' = todo
    PROVE  JobsInv'
<1> DEFINE t == Head(inQueue)
<1>1. /\ inQueue \in Seq(Tasks) /\ inQueue # << >> /\ inQueue' = Tail(inQueue)
      /\ delivered' = delivered /\ lost' = lost
      /\ \A v \in Workers : worker'[v].task = IF v = w THEN t ELSE worker[v].task
  BY DEF TypeOK, PluginTypeOK, GetTask
<1>2. t = inQueue[1] /\ t \in Tasks /\ 1 \in DOMAIN inQueue
  BY <1>1
<1>3. /\ DOMAIN inQueue' = 1 .. Len(inQueue) - 1 /\ DOMAIN inQueue = 1 .. Len(inQueue)
      /\ Len(inQueue) \in Nat
      /\ \A i \in DOMAIN inQueue' : inQueue'[i] = inQueue[i + 1]
  BY <1>1
<1> HIDE DEF t
<1>4. \A i \in DOMAIN inQueue' : i + 1 \in DOMAIN inQueue /\ i + 1 # 1
  BY <1>3
<1>5. worker[w].task = NoTask
  BY DEF HoldsInv, GetTask, At
<1>6. ASSUME NEW u \in Tasks PROVE JobInv(u)'
  <2>1. JobInv(u) /\ JobInv(t)
    BY <1>2, <1>6 DEF JobsInv
  <2>2. CASE u = t
    <3>1. \A i \in DOMAIN inQueue' : inQueue'[i] # t
      BY <1>2, <1>3, <1>4, <2>1 DEF JobInv
    <3>2. Queued(t)
      BY <1>2 DEF Queued
    <3>3. \A v \in Workers : worker'[v].task = t => v = w
      BY <1>1, <2>1, <3>2 DEF JobInv, Held
    <3> QED
      BY <1>1, <2>1, <2>2, <3>1, <3>2, <3>3 DEF JobInv, Queued, Held
  <2>3. CASE u # t
    <3>1. \A v \in Workers : worker'[v].task = u => worker[v].task = u
      BY <1>1, <2>3
    <3>2. \A i, j \in DOMAIN inQueue' : inQueue'[i] = u /\ inQueue'[j] = u => i = j
      <4>1. SUFFICES ASSUME NEW i \in DOMAIN inQueue', NEW j \in DOMAIN inQueue',
                            inQueue'[i] = u, inQueue'[j] = u
                     PROVE  i = j
        OBVIOUS
      <4>2. i + 1 = j + 1
        BY <1>3, <1>4, <2>1, <4>1 DEF JobInv
      <4> QED
        BY <1>3, <4>2
    <3>3. Queued(u)' => Queued(u)
      BY <1>3, <1>4 DEF Queued
    <3> QED
      BY <1>1, <2>1, <3>1, <3>2, <3>3 DEF JobInv, Held
  <2> QED
    BY <2>2, <2>3
<1> QED
  BY <1>6 DEF JobsInv

\* An exception in the worker: its file object is lost.
LEMMA RaiseJobs ==
    ASSUME PluginTypeOK, JobsInv, NEW w \in Workers, Raise(w),
           worker[w].task \in Tasks,
           inQueue' = inQueue, delivered' = delivered, todo' = todo
    PROVE  JobsInv'
<1> DEFINE t == worker[w].task
<1>1. /\ \A v \in Workers : worker'[v].task = IF v = w THEN NoTask ELSE worker[v].task
      /\ lost' = lost \cup {t}
  BY DEF PluginTypeOK, Raise, NewWorker
<1>2. t \in Tasks /\ NoTask \notin Tasks
  BY WorkerConstants
<1>3. Held(t)
  BY DEF Held
<1>4. worker[w].task = t
  OBVIOUS
<1> HIDE DEF t
<1>5. ASSUME NEW u \in Tasks PROVE JobInv(u)'
  <2>1. JobInv(u) /\ JobInv(t)
    BY <1>2, <1>5 DEF JobsInv
  <2>2. \A v \in Workers : worker'[v].task = u => v # w /\ worker[v].task = u
    BY <1>1, <1>2
  <2>3. Queued(u)' = Queued(u)
    BY DEF Queued
  <2>4. CASE u = t
    <3>1. \A v \in Workers : worker'[v].task # u
      BY <1>4, <2>1, <2>2, <2>4 DEF JobInv
    <3> QED
      BY <1>1, <1>3, <2>1, <2>3, <2>4, <3>1 DEF JobInv, Held
  <2>5. CASE u # t
    BY <1>1, <2>1, <2>2, <2>3, <2>5 DEF JobInv, Held
  <2> QED
    BY <2>4, <2>5
<1> QED
  BY <1>5 DEF JobsInv

\* put: from the worker into the out queue.
LEMMA PutJobs ==
    ASSUME PluginTypeOK, JobsInv, NEW w \in Workers, NEW outcome \in Outcomes,
           Put(w, outcome), worker[w].task \in Tasks,
           inQueue' = inQueue, lost' = lost, todo' = todo
    PROVE  JobsInv'
<1> DEFINE t == worker[w].task
<1>1. /\ \A v \in Workers : worker'[v].task = IF v = w THEN NoTask ELSE worker[v].task
      /\ delivered' = [delivered EXCEPT ![t] = Append(@, outcome)]
      /\ delivered \in [Tasks -> Seq(Outcomes)]
  BY DEF PluginTypeOK, Put, NewWorker
<1>2. t \in Tasks /\ NoTask \notin Tasks
  BY WorkerConstants
<1>3. Held(t)
  BY DEF Held
<1>4. worker[w].task = t
  OBVIOUS
<1> HIDE DEF t
<1>5. ASSUME NEW u \in Tasks PROVE JobInv(u)'
  <2>1. JobInv(u) /\ JobInv(t)
    BY <1>2, <1>5 DEF JobsInv
  <2>2. \A v \in Workers : worker'[v].task = u => v # w /\ worker[v].task = u
    BY <1>1, <1>2
  <2>3. Queued(u)' = Queued(u)
    BY DEF Queued
  <2>4. CASE u = t
    <3>1. \A v \in Workers : worker'[v].task # u
      BY <1>4, <2>1, <2>2, <2>4 DEF JobInv
    <3>2. Len(delivered'[u]) <= 1
      <4>1. delivered[t] = << >>
        BY <1>3, <2>1 DEF JobInv
      <4>2. delivered'[u] = <<outcome>>
        BY <1>1, <1>2, <2>4, <4>1
      <4> QED
        BY <4>2
    <3> QED
      BY <1>3, <2>1, <2>3, <2>4, <3>1, <3>2 DEF JobInv, Held
  <2>5. CASE u # t
    <3>1. delivered'[u] = delivered[u]
      BY <1>1, <2>5
    <3> QED
      BY <2>1, <2>2, <2>3, <3>1 DEF JobInv, Held
  <2> QED
    BY <2>4, <2>5
<1> QED
  BY <1>5 DEF JobsInv


LEMMA JobsKept ==
    ASSUME TypeOK, HoldsInv, JobsInv, [Next]_vars
    PROVE  JobsInv'
<1>t. PluginTypeOK /\ MainTypeOK
  BY DEF TypeOK
<1>1. ASSUME NEW t \in todo, Schedule(t) PROVE JobsInv'
  BY <1>t, <1>1, ScheduleJobs DEF MainTypeOK
<1>2. ASSUME NEW w \in Workers, UNCHANGED mainVars, WorkerStep(w) \/ ChildMoves(w)
      PROVE  JobsInv'
  <2>0. todo' = todo
    BY <1>2 DEF mainVars
  <2>1. CASE GetTask(w)
    BY <2>0, <2>1, GetTaskJobs
  <2>2. CASE QueueEmpty(w) \/ ChildMoves(w)
    <3>1. NothingMoves
      BY <2>0, <2>2 DEF NothingMoves, QueueEmpty, ChildMoves, AppendResult, EndChild,
                        FailChild, KillChild, ChildStep
    <3> QED
      BY <3>1, JobsStay
  <2>3. CASE LeaveLoop(w) \/ JoinChild(w) \/ TimeoutChild(w) \/ HandleTimeout(w)
    <3>1. NothingMoves
      BY <1>t, <2>0, <2>3, NoneMoves DEF LeaveLoop, JoinChild, TimeoutChild, HandleTimeout, Goto
    <3> QED
      BY <3>1, JobsStay
  <2>4. CASE WriteStat(w)
    <3>1. CASE statsIndex < StatsLimit
      <4>1. NothingMoves
        BY <1>t, <2>0, <2>4, <3>1, NoneMoves DEF WriteStat, Goto
      <4> QED
        BY <4>1, JobsStay
    <3>2. CASE ~(statsIndex < StatsLimit)
      <4>1. /\ Raise(w) /\ worker[w].task \in Tasks
            /\ inQueue' = inQueue /\ delivered' = delivered
        BY <2>4, <3>2 DEF WriteStat, HoldsInv, At, Busy, InStats
      <4> QED
        BY <1>t, <2>0, <4>1, RaiseJobs
    <3> QED
      BY <3>1, <3>2
  <2>5. ASSUME NEW from, NEW to, NEW read, StatStep(w, from, to, read)
        PROVE  JobsInv'
    <3>1. NothingMoves
      BY <1>t, <2>0, <2>5, NoneMoves DEF StatStep
    <3> QED
      BY <3>1, JobsStay
  <2>6. CASE StatsStep(w)
    BY <2>4, <2>5, <2>6 DEF StatsStep, GetIndex, SetIndex, CheckIndex, ResetIndex,
                            CheckCount, GetCount, SetCount
  <2>7. CASE JoinTerminated(w)
    <3>1. /\ Put(w, "Timeout") /\ worker[w].task \in Tasks /\ "Timeout" \in Outcomes
          /\ inQueue' = inQueue /\ lost' = lost
      BY <2>7 DEF JoinTerminated, HoldsInv, At, Busy, Outcomes
    <3> QED
      BY <1>t, <2>0, <3>1, PutJobs
  <2>8. CASE HandleException(w)
    <3>1. /\ Put(w, "Exception") /\ worker[w].task \in Tasks /\ "Exception" \in Outcomes
          /\ inQueue' = inQueue /\ lost' = lost
      BY <2>8 DEF HandleException, HoldsInv, At, Busy, Outcomes
    <3> QED
      BY <1>t, <2>0, <3>1, PutJobs
  <2>9. CASE PopResult(w)
    <3>1. CASE child[w] = "done"
      <4>1. /\ Put(w, "ok") /\ worker[w].task \in Tasks /\ "ok" \in Outcomes
            /\ inQueue' = inQueue /\ lost' = lost
        BY <2>9, <3>1 DEF PopResult, HoldsInv, At, Busy, Outcomes
      <4> QED
        BY <1>t, <2>0, <4>1, PutJobs
    <3>2. CASE child[w] # "done"
      <4>1. /\ Raise(w) /\ worker[w].task \in Tasks
            /\ inQueue' = inQueue /\ delivered' = delivered
        BY <2>9, <3>2 DEF PopResult, HoldsInv, At, Busy
      <4> QED
        BY <1>t, <2>0, <4>1, RaiseJobs
    <3> QED
      BY <3>1, <3>2
  <2> QED
    BY <1>2, <2>1, <2>2, <2>3, <2>6, <2>7, <2>8, <2>9 DEF WorkerStep
<1>3. ASSUME UNCHANGED <<pluginVars, todo>> PROVE JobsInv'
  <2>1. NothingMoves
    BY <1>3 DEF NothingMoves, pluginVars
  <2> QED
    BY <2>1, JobsStay
<1>4. ASSUME NEW p \in Others, Fault(p) PROVE JobsInv'
  BY <1>3, <1>4 DEF Fault
<1>5. CASE Signal \/ CheckUnpackAndCompare \/ CheckScheduler \/ BeginShutdown \/ StopServices
  BY <1>3, <1>5 DEF Signal, CheckUnpackAndCompare, CheckScheduler, BeginShutdown, StopServices
<1>6. CASE CheckWorker
  <2> DEFINE w == workerList[pos]
  <2>1. CASE Restart(w)
    <3>1. w \in Workers
      BY <1>t, <1>6 DEF MainTypeOK, CheckWorker
    <3>2. worker[w].task = NoTask
      BY <2>1, <3>1 DEF Restart, HoldsInv, At
    <3>3. NothingMoves
      BY <1>t, <1>6, <2>1, <3>1, <3>2
        DEF PluginTypeOK, NothingMoves, CheckWorker, Restart, NewWorker
    <3> QED
      BY <3>3, JobsStay
  <2> QED
    BY <1>3, <1>6, <2>1 DEF CheckWorker
<1>7. CASE ShutdownPlugin
  <2>1. NothingMoves
    <3>1. CASE StopPlugin
      BY <1>7, <3>1 DEF NothingMoves, ShutdownPlugin, StopPlugin
    <3>2. CASE StopWorkers
      BY <1>t, <1>7, <3>2 DEF PluginTypeOK, NothingMoves, ShutdownPlugin, StopWorkers
    <3> QED
      BY <1>7, <3>1, <3>2 DEF ShutdownPlugin
  <2> QED
    BY <2>1, JobsStay
<1>8. CASE StopRest
  <2>1. NothingMoves
    BY <1>8 DEF NothingMoves, StopRest
  <2> QED
    BY <2>1, JobsStay
<1>9. CASE UNCHANGED vars
  BY <1>3, <1>9 DEF vars, mainVars
<1> QED
  BY <1>1, <1>2, <1>4, <1>5, <1>6, <1>7, <1>8, <1>9 DEF Next, MainStep

LEMMA HoldsKept ==
    ASSUME TypeOK, HoldsInv, [Next]_vars
    PROVE  HoldsInv'
<1>t. PluginTypeOK /\ MainTypeOK
  BY DEF TypeOK
<1>u. ASSUME worker' = worker PROVE HoldsInv'
  BY <1>u DEF HoldsInv
<1>g. ASSUME NEW w \in Workers, NEW pc \in Busy \cup {"killed"},
             \A v \in Workers : v # w => worker'[v] = worker[v],
             worker'[w].pc = pc, worker'[w].task = worker[w].task, worker[w].pc \in Busy
      PROVE  HoldsInv'
  BY <1>g DEF HoldsInv, Busy, InStats
<1>n. ASSUME NEW w \in Workers, NEW pc \in {"loop", "raised"},
             worker' = [worker EXCEPT ![w] = [NewWorker EXCEPT !.pc = pc]]
      PROVE  HoldsInv'
  BY <1>t, <1>n DEF PluginTypeOK, HoldsInv, NewWorker, Busy, InStats
<1>r. NewWorker = [NewWorker EXCEPT !.pc = "loop"]
  BY DEF NewWorker
<1>1. ASSUME NEW t \in todo, Schedule(t) PROVE HoldsInv'
  BY <1>u, <1>1 DEF Schedule, AddJob
<1>2. ASSUME NEW w \in Workers, WorkerStep(w) \/ ChildMoves(w) PROVE HoldsInv'
  <2>1. CASE GetTask(w)
    <3>1. /\ Head(inQueue) \in Tasks
          /\ worker' = [worker EXCEPT ![w] = [pc |-> "join", task |-> Head(inQueue), read |-> 0]]
      BY <1>t, <2>1 DEF PluginTypeOK, GetTask
    <3> QED
      BY <1>t, <3>1 DEF PluginTypeOK, HoldsInv, Busy, InStats
  <2>2. CASE QueueEmpty(w) \/ ChildMoves(w)
    BY <1>u, <2>2 DEF QueueEmpty, ChildMoves, AppendResult, EndChild, FailChild, KillChild, ChildStep
  <2>3. CASE LeaveLoop(w)
    BY <1>t, <2>3 DEF PluginTypeOK, HoldsInv, LeaveLoop, Goto, At, Busy, InStats
  <2>4. ASSUME NEW to \in Busy, Goto(w, to), worker[w].pc \in Busy PROVE HoldsInv'
    <3>1. /\ \A v \in Workers : v # w => worker'[v] = worker[v]
          /\ worker'[w].pc = to /\ worker'[w].task = worker[w].task
      BY <1>t, <2>4 DEF PluginTypeOK, Goto
    <3> QED
      BY <1>g, <2>4, <3>1
  <2>5. ASSUME NEW from \in Busy, NEW to \in Busy, NEW read, StatStep(w, from, to, read)
        PROVE  HoldsInv'
    <3>1. /\ \A v \in Workers : v # w => worker'[v] = worker[v]
          /\ worker'[w].pc = to /\ worker'[w].task = worker[w].task
          /\ worker[w].pc \in Busy
      BY <1>t, <2>5 DEF PluginTypeOK, StatStep, At
    <3> QED
      BY <1>g, <2>5, <3>1
  <2>6. CASE JoinChild(w) \/ TimeoutChild(w) \/ HandleTimeout(w)
    BY <2>4, <2>6 DEF JoinChild, TimeoutChild, HandleTimeout, At, Busy, InStats
  <2>7. CASE WriteStat(w)
    <3>1. CASE statsIndex < StatsLimit
      BY <2>4, <2>7, <3>1 DEF WriteStat, At, Busy, InStats
    <3>2. CASE ~(statsIndex < StatsLimit)
      BY <1>n, <2>7, <3>2 DEF WriteStat, Raise
    <3> QED
      BY <3>1, <3>2
  <2>8. CASE StatsStep(w)
    <3>1. "index_get" \in Busy /\ "index_set" \in Busy /\ "index_check" \in Busy
          /\ "index_reset" \in Busy /\ "count_check" \in Busy /\ "count_get" \in Busy
          /\ "count_set" \in Busy /\ "outcome" \in Busy
      BY DEF Busy, InStats
    <3>2. (IF statsIndex >= StatsLimit THEN "index_reset" ELSE "count_check") \in Busy
      BY <3>1
    <3>3. (IF statsCount < StatsLimit THEN "count_get" ELSE "outcome") \in Busy
      BY <3>1
    <3> QED
      BY <2>5, <2>7, <2>8, <3>1, <3>2, <3>3
        DEF StatsStep, GetIndex, SetIndex, CheckIndex, ResetIndex, CheckCount, GetCount, SetCount
  <2>9. CASE JoinTerminated(w) \/ HandleException(w) \/ PopResult(w)
    BY <1>n, <1>r, <2>9 DEF JoinTerminated, HandleException, PopResult, Put, Raise
  <2> QED
    BY <1>2, <2>1, <2>2, <2>3, <2>6, <2>8, <2>9 DEF WorkerStep
<1>3. ASSUME NEW p \in Others, Fault(p) PROVE HoldsInv'
  BY <1>u, <1>3 DEF Fault, pluginVars
<1>4. CASE Signal \/ CheckUnpackAndCompare \/ CheckScheduler \/ BeginShutdown \/ StopServices
           \/ StopRest
  BY <1>u, <1>4 DEF Signal, CheckUnpackAndCompare, CheckScheduler, BeginShutdown,
                    StopServices, StopRest, pluginVars
<1>5. CASE CheckWorker
  <2>1. CASE Restart(workerList[pos])
    <3>1. workerList[pos] \in Workers
      BY <1>t, <1>5 DEF MainTypeOK, CheckWorker
    <3> QED
      BY <1>n, <1>r, <2>1, <3>1 DEF Restart
  <2> QED
    BY <1>u, <1>5, <2>1 DEF CheckWorker, pluginVars
<1>6. CASE ShutdownPlugin
  <2>1. CASE StopPlugin
    BY <1>u, <2>1 DEF StopPlugin
  <2>2. CASE StopWorkers
    BY <1>t, <2>2 DEF PluginTypeOK, HoldsInv, StopWorkers, Busy, InStats
  <2> QED
    BY <1>6, <2>1, <2>2 DEF ShutdownPlugin
<1>7. CASE UNCHANGED vars
  BY <1>u, <1>7 DEF vars, pluginVars
<1> QED
  BY <1>1, <1>2, <1>3, <1>4, <1>5, <1>6, <1>7 DEF Next, MainStep


-----------------------------------------------------------------------------
(***************************************************************************)
(* The ring of durations.                                                  *)
(***************************************************************************)
LEMMA RingKept ==
    ASSUME TypeOK, RingInv, [Next]_vars
    PROVE  RingInv'
<1> DEFINE Watch == {"index_check", "index_reset", "killed"}
<1>t. PluginTypeOK /\ MainTypeOK
  BY DEF TypeOK
<1>s. ASSUME statsIndex' = statsIndex,
             \A v \in Workers : worker[v].pc \in Watch => worker'[v].pc \in Watch
      PROVE  RingInv'
  BY <1>s DEF RingInv
<1>n. ASSUME NEW w \in Workers, NEW new, worker' = [worker EXCEPT ![w] = new],
             worker[w].pc \notin Watch, statsIndex' = statsIndex
      PROVE  RingInv'
  BY <1>t, <1>s, <1>n DEF PluginTypeOK
<1>1. ASSUME NEW t \in todo, Schedule(t) PROVE RingInv'
  BY <1>s, <1>1 DEF Schedule, AddJob
<1>2. ASSUME NEW w \in Workers, WorkerStep(w) \/ ChildMoves(w) PROVE RingInv'
  <2>1. CASE GetTask(w)
    BY <1>n, <2>1 DEF GetTask, At
  <2>2. CASE QueueEmpty(w) \/ ChildMoves(w)
    BY <1>s, <2>2 DEF QueueEmpty, ChildMoves, AppendResult, EndChild, FailChild, KillChild, ChildStep
  <2>3. ASSUME NEW to, Goto(w, to), worker[w].pc \notin Watch, statsIndex' = statsIndex
        PROVE  RingInv'
    <3>1. worker' = [worker EXCEPT ![w] = [worker[w] EXCEPT !.pc = to]]
      BY <2>3 DEF Goto
    <3> QED
      BY <1>n, <2>3, <3>1
  <2>4. ASSUME NEW from, from \notin Watch, NEW to, NEW read, StatStep(w, from, to, read),
               statsIndex' = statsIndex
        PROVE  RingInv'
    <3>1. \A v \in Workers : v # w => worker'[v] = worker[v]
      BY <1>t, <2>4 DEF PluginTypeOK, StatStep
    <3>2. worker[w].pc \notin Watch
      BY <2>4 DEF StatStep, At
    <3> QED
      BY <1>s, <2>4, <3>1, <3>2
  <2>5. CASE LeaveLoop(w) \/ JoinChild(w) \/ TimeoutChild(w) \/ HandleTimeout(w)
    BY <2>3, <2>5 DEF LeaveLoop, JoinChild, TimeoutChild, HandleTimeout, At
  <2>6. CASE WriteStat(w)
    BY <1>n, <2>3, <2>6 DEF WriteStat, Raise, At
  <2>7. CASE GetIndex(w) \/ CheckCount(w) \/ GetCount(w) \/ SetCount(w)
    BY <2>4, <2>7 DEF GetIndex, CheckCount, GetCount, SetCount
  <2>8. CASE SetIndex(w)
    <3>1. worker'[w].pc = "index_check"
      BY <1>t, <2>8 DEF PluginTypeOK, SetIndex, StatStep
    <3> QED
      BY <3>1 DEF RingInv
  <2>9. CASE CheckIndex(w)
    <3>1. CASE statsIndex >= StatsLimit
      <4>1. worker'[w].pc = "index_reset"
        BY <1>t, <2>9, <3>1 DEF PluginTypeOK, CheckIndex, StatStep
      <4> QED
        BY <4>1 DEF RingInv
    <3>2. CASE ~(statsIndex >= StatsLimit)
      <4>1. statsIndex' = statsIndex
        BY <2>9 DEF CheckIndex
      <4> QED
        BY <3>2, <4>1 DEF RingInv
    <3> QED
      BY <3>1, <3>2
  <2>10. CASE ResetIndex(w)
    <3>1. ~(statsIndex' >= StatsLimit)
      BY <2>10, WorkerConstants DEF ResetIndex
    <3> QED
      BY <3>1 DEF RingInv
  <2>11. CASE JoinTerminated(w) \/ HandleException(w) \/ PopResult(w)
    BY <1>n, <2>11 DEF JoinTerminated, HandleException, PopResult, Put, Raise, At
  <2> QED
    BY <1>2, <2>1, <2>2, <2>5, <2>6, <2>7, <2>8, <2>9, <2>10, <2>11 DEF WorkerStep, StatsStep
<1>3. ASSUME NEW p \in Others, Fault(p) PROVE RingInv'
  BY <1>s, <1>3 DEF Fault, pluginVars
<1>4. CASE Signal \/ CheckUnpackAndCompare \/ CheckScheduler \/ BeginShutdown \/ StopServices
           \/ StopRest
  BY <1>s, <1>4 DEF Signal, CheckUnpackAndCompare, CheckScheduler, BeginShutdown,
                    StopServices, StopRest, pluginVars
<1>5. CASE CheckWorker
  <2>1. CASE Restart(workerList[pos])
    <3>1. workerList[pos] \in Workers
      BY <1>t, <1>5 DEF MainTypeOK, CheckWorker
    <3> QED
      BY <1>n, <2>1, <3>1 DEF Restart, At
  <2> QED
    BY <1>s, <1>5, <2>1 DEF CheckWorker, pluginVars
<1>6. CASE ShutdownPlugin
  <2>1. CASE StopPlugin
    BY <1>s, <2>1 DEF StopPlugin
  <2>2. CASE StopWorkers
    <3>1. \A v \in Workers : worker[v].pc \in Watch => worker'[v].pc \in Watch
      BY <1>t, <2>2 DEF PluginTypeOK, StopWorkers
    <3> QED
      BY <1>s, <2>2, <3>1 DEF StopWorkers
  <2> QED
    BY <1>6, <2>1, <2>2 DEF ShutdownPlugin
<1>7. CASE UNCHANGED vars
  BY <1>s, <1>7 DEF vars, pluginVars
<1> QED
  BY <1>1, <1>2, <1>3, <1>4, <1>5, <1>6, <1>7 DEF Next, MainStep

-----------------------------------------------------------------------------
(***************************************************************************)
(* The list of the workers.                                                *)
(***************************************************************************)
\* No process is twice in a list.
Once(list) == \A i, j \in DOMAIN list : list[i] = list[j] => i = j

LEMMA ListKept ==
    ASSUME TypeOK, ListInv, [Next]_vars
    PROVE  ListInv'
<1>t. /\ workerList \in Seq(Workers) /\ pos \in Nat \ {0} /\ throwExceptions \in BOOLEAN
      /\ Cardinality(Workers) \in Nat
  BY FS_CardinalityType, WorkerConstants DEF TypeOK, MainTypeOK
<1>o. Once(workerList)
  BY DEF ListInv, Once
<1>s. ASSUME workerList' = workerList, throwExceptions' = throwExceptions PROVE ListInv'
  BY <1>s DEF ListInv, NoWorkerForgotten
<1>1. CASE CheckWorker
  <2> DEFINE n == Len(workerList)
  <2>1. n \in Nat /\ pos \in 1 .. n /\ throwExceptions' = throwExceptions
    BY <1>t, <1>1 DEF CheckWorker
  <2>2. CASE ~throwExceptions /\ workerList' = Relisted(pos)
    <3>1. /\ Relisted(pos) \in Seq(Workers) /\ Len(Relisted(pos)) = n
          /\ \A j \in DOMAIN Relisted(pos) :
                Relisted(pos)[j]
                    = workerList[IF j < pos THEN j ELSE IF j < n THEN j + 1 ELSE pos]
      BY <1>t, <2>1, RelistedFacts
    <3>2. DOMAIN Relisted(pos) = 1 .. n /\ DOMAIN workerList = 1 .. n
      BY <1>t, <3>1
    <3> DEFINE From(j) == IF j < pos THEN j ELSE IF j < n THEN j + 1 ELSE pos
    <3> HIDE DEF n
    <3>3. \A j \in 1 .. n : From(j) \in 1 .. n
      BY <2>1
    <3>4. \A i, j \in 1 .. n : From(i) = From(j) => i = j
      BY <2>1
    <3>5. \A k \in 1 .. n : \E j \in 1 .. n : From(j) = k
      <4>1. SUFFICES ASSUME NEW k \in 1 .. n PROVE \E j \in 1 .. n : From(j) = k
        OBVIOUS
      <4>2. CASE k < pos
        BY <2>1, <4>2
      <4>3. CASE k = pos
        <5>1. n \in 1 .. n /\ From(n) = k
          BY <2>1, <4>3
        <5> QED
          BY <5>1
      <4>4. CASE k > pos
        <5>1. k - 1 \in 1 .. n /\ From(k - 1) = k
          BY <2>1, <4>4
        <5> QED
          BY <5>1
      <4> QED
        BY <2>1, <4>2, <4>3, <4>4
    <3>6. \A j \in 1 .. n : workerList'[j] = workerList[From(j)]
      BY <2>2, <3>1, <3>2
    <3> HIDE DEF From
    <3>7. DOMAIN workerList' = 1 .. n /\ Len(workerList') = n
      BY <2>2, <3>1, <3>2
    <3>8. \A i, j \in DOMAIN workerList' : workerList'[i] = workerList'[j] => i = j
      BY <1>o, <3>2, <3>3, <3>4, <3>6, <3>7 DEF Once
    <3>9. ToSet(workerList') = ToSet(workerList)
      <4>1. \A i \in DOMAIN workerList' : \E j \in DOMAIN workerList : workerList'[i] = workerList[j]
        BY <3>2, <3>3, <3>6, <3>7
      <4>2. \A j \in DOMAIN workerList : \E i \in DOMAIN workerList' : workerList'[i] = workerList[j]
        BY <3>2, <3>5, <3>6, <3>7
      <4> QED
        BY <4>1, <4>2 DEF ToSet
    <3>10. NoWorkerForgotten'
      BY <2>1, <3>7, <3>9 DEF ListInv, NoWorkerForgotten, n
    <3> QED
      BY <3>7, <3>8, <3>10 DEF ListInv, n
  <2>3. CASE throwExceptions /\ workerList' = Without(pos)
    <3>1. /\ Without(pos) \in Seq(Workers) /\ Len(Without(pos)) = n - 1
          /\ \A j \in DOMAIN Without(pos) :
                Without(pos)[j] = workerList[IF j < pos THEN j ELSE j + 1]
      BY <1>t, <2>1, WithoutFacts
    <3>2. DOMAIN Without(pos) = 1 .. (n - 1) /\ DOMAIN workerList = 1 .. n
      BY <1>t, <3>1
    <3> DEFINE From(j) == IF j < pos THEN j ELSE j + 1
    <3> HIDE DEF n
    <3>3. \A j \in 1 .. (n - 1) : From(j) \in 1 .. n
      BY <2>1
    <3>4. \A i, j \in 1 .. (n - 1) : From(i) = From(j) => i = j
      BY <2>1
    <3>5. \A j \in 1 .. (n - 1) : workerList'[j] = workerList[From(j)]
      BY <2>3, <3>1, <3>2
    <3> HIDE DEF From
    <3>6. DOMAIN workerList' = 1 .. (n - 1) /\ Len(workerList') = n - 1
      BY <2>3, <3>1, <3>2
    <3>7. \A i, j \in DOMAIN workerList' : workerList'[i] = workerList'[j] => i = j
      BY <1>o, <3>2, <3>3, <3>4, <3>5, <3>6 DEF Once
    <3>8. n <= Cardinality(Workers)
      BY DEF ListInv, n
    <3>9. Len(workerList') <= Cardinality(Workers)
      BY <1>t, <2>1, <3>6, <3>8
    <3> QED
      BY <2>1, <2>3, <3>7, <3>9 DEF ListInv, NoWorkerForgotten
  <2> QED
    BY <1>s, <1>1, <2>1, <2>2, <2>3 DEF CheckWorker
<1>2. CASE ~CheckWorker
  <2>1. workerList' = workerList /\ throwExceptions' = throwExceptions
    BY <1>2 DEF Next, MainStep, Schedule, Fault, Signal, CheckUnpackAndCompare, CheckScheduler,
                BeginShutdown, StopServices, ShutdownPlugin, StopRest, vars, mainVars
  <2> QED
    BY <1>s, <2>1
<1> QED
  BY <1>1, <1>2

-----------------------------------------------------------------------------
(***************************************************************************)
(* The shutdown.                                                           *)
(***************************************************************************)
LEMMA ExitKept ==
    ASSUME TypeOK, ExitInv, [Next]_vars
    PROVE  ExitInv'
<1>t. PluginTypeOK /\ MainTypeOK
  BY DEF TypeOK
<1>1. ASSUME NEW t \in todo, Schedule(t) PROVE ExitInv'
  BY <1>1 DEF ExitInv, Schedule, AddJob, ChildAlive
<1>2. ASSUME NEW w \in Workers, WorkerStep(w), UNCHANGED mainVars PROVE ExitInv'
  <2>1. worker[w].pc \in {"loop"} \cup Busy
    BY <1>2 DEF WorkerStep, StatsStep, GetTask, QueueEmpty, LeaveLoop, JoinChild, TimeoutChild,
                WriteStat, GetIndex, SetIndex, CheckIndex, ResetIndex, CheckCount, GetCount,
                SetCount, StatStep, HandleTimeout, JoinTerminated, HandleException, PopResult,
                At, Busy, InStats
  <2> QED
    BY <1>2, <2>1 DEF ExitInv, mainVars
<1>3. ASSUME NEW w \in Workers, ChildMoves(w), UNCHANGED mainVars PROVE ExitInv'
  <2>1. ChildAlive(w) /\ worker' = worker
    BY <1>3 DEF ChildMoves, AppendResult, EndChild, FailChild, KillChild, ChildStep, ChildAlive
  <2> QED
    BY <1>3, <2>1 DEF ExitInv, mainVars
<1>4. ASSUME NEW p \in Others, Fault(p) PROVE ExitInv'
  <2>1. /\ \A q \in Others : proc'[q] = "running" => proc[q] = "running"
        /\ worker' = worker /\ child' = child /\ main' = main
    BY <1>t, <1>4 DEF MainTypeOK, Fault, pluginVars
  <2> QED
    BY <2>1 DEF ExitInv, ChildAlive, Others
<1>5. CASE CheckUnpackAndCompare \/ CheckWorker \/ CheckScheduler \/ BeginShutdown
  <2>1. main' \notin {"stop_plugin", "stop_rest", "exited"}
    BY <1>5 DEF CheckUnpackAndCompare, CheckWorker, CheckScheduler, BeginShutdown
  <2> QED
    BY <2>1 DEF ExitInv
<1>6. CASE Signal
  BY <1>6 DEF ExitInv, Signal, pluginVars, ChildAlive
<1>7. CASE StopServices
  BY <1>7 DEF ExitInv, StopServices
<1>8. CASE ShutdownPlugin
  <2>1. CASE ~stopPlugin
    BY <1>8, <2>1 DEF ExitInv, ShutdownPlugin, StopPlugin
  <2>2. CASE stopPlugin
    <3>1. \A w \in Workers : worker'[w].pc \notin {"loop"} \cup Busy
      BY <1>t, <1>8, <2>2 DEF PluginTypeOK, ShutdownPlugin, StopWorkers, Busy, InStats
    <3>2. main = "stop_plugin" /\ main' \in {"stop_plugin", "stop_rest"} /\ proc' = proc
      BY <1>8 DEF ShutdownPlugin
    <3> QED
      BY <3>1, <3>2 DEF ExitInv
  <2> QED
    BY <2>1, <2>2
<1>9. CASE StopRest
  <2>1. \A w \in Workers : ~ChildAlive(w)'
    BY <1>t, <1>9 DEF PluginTypeOK, StopRest, ChildAlive
  <2>2. /\ proc'["collector"] # "running"
        /\ \A p \in Others \ {"collector"} : proc'[p] = proc[p]
    BY <1>t, <1>9 DEF MainTypeOK, StopRest, Others
  <2> QED
    BY <1>9, <2>1, <2>2 DEF ExitInv, StopRest
<1>10. CASE UNCHANGED vars
  BY <1>10 DEF ExitInv, vars, pluginVars, mainVars, ChildAlive
<1> QED
  BY <1>1, <1>2, <1>3, <1>4, <1>5, <1>6, <1>7, <1>8, <1>9, <1>10 DEF Next, MainStep

-----------------------------------------------------------------------------
(***************************************************************************)
(* The theorems.                                                           *)
(***************************************************************************)
LEMMA StepInv == BackendInv /\ [Next]_vars => BackendInv'
  BY TypesKept, HoldsKept, JobsKept, RingKept, ListKept, ExitKept DEF BackendInv

LEMMA BackendTheorem == Spec => []BackendInv
  BY InitInv, StepInv, PTL DEF Spec

\* What is in one place at most occurs once at most.
LEMMA OneOccurrence ==
    ASSUME PluginTypeOK, JobsInv, NEW t \in Tasks
    PROVE  Occurrences(t) <= 1
<1> DEFINE Q == {i \in DOMAIN inQueue : inQueue[i] = t}
           H == {w \in Workers : worker[w].task = t}
<1>1. /\ JobInv(t) /\ inQueue \in Seq(Tasks) /\ delivered[t] \in Seq(Outcomes)
  BY DEF JobsInv, PluginTypeOK
<1>2. ASSUME NEW S, \A x, y \in S : x = y
      PROVE  Cardinality(S) \in {0, 1} /\ (S = {} => Cardinality(S) = 0)
  <2>1. CASE S = {}
    BY <2>1, FS_EmptySet
  <2>2. CASE S # {}
    <3>1. PICK x : x \in S
      BY <2>2
    <3>2. S = {x}
      BY <1>2, <3>1
    <3> QED
      BY <2>2, <3>2, FS_Singleton
  <2> QED
    BY <2>1, <2>2
<1>3. /\ Cardinality(Q) \in {0, 1} /\ (Q = {} => Cardinality(Q) = 0)
      /\ Cardinality(H) \in {0, 1} /\ (H = {} => Cardinality(H) = 0)
  <2>1. (\A x, y \in Q : x = y) /\ (\A x, y \in H : x = y)
    BY <1>1 DEF JobInv
  <2> HIDE DEF Q, H
  <2> QED
    BY <1>2, <2>1
<1>4. (Q # {} <=> Queued(t)) /\ (H # {} <=> Held(t))
  BY DEF Queued, Held
<1>5. Len(delivered[t]) \in {0, 1} /\ (delivered[t] = << >> => Len(delivered[t]) = 0)
  <2>1. Len(delivered[t]) \in Nat /\ (delivered[t] = << >> => Len(delivered[t]) = 0)
    BY <1>1
  <2>2. Len(delivered[t]) <= 1
    BY <1>1 DEF JobInv
  <2>3. \A n \in Nat : n <= 1 => n \in {0, 1}
    OBVIOUS
  <2>4. Len(delivered[t]) \in {0, 1}
    BY <2>1, <2>2, <2>3, Zenon
  <2> QED
    BY <2>1, <2>4
<1> HIDE DEF Q, H
<1>6. Cardinality(Q) + Cardinality(H) + Len(delivered[t]) + (IF t \in lost THEN 1 ELSE 0) <= 1
  BY <1>1, <1>3, <1>4, <1>5 DEF JobInv
<1> QED
  BY <1>6 DEF Occurrences, Q, H

(***************************************************************************)
(* What the workers of a plugin share stays in order, whatever they and the*)
(* main process do at the same time (AnalysisBasePlugin, check_exceptions):*)
(* a file object is in one place, the index of the ring comes back into it,*)
(* and no worker is missing from the list.                                 *)
(***************************************************************************)
THEOREM PluginInOrderTheorem == Spec => []PluginInOrder
<1>1. BackendInv => PluginInOrder
  <2> SUFFICES ASSUME BackendInv PROVE PluginInOrder
    OBVIOUS
  <2>1. JobInOnePlace
    BY OneOccurrence DEF BackendInv, TypeOK, JobInOnePlace
  <2>2. RingIndexRecovers
    <3> SUFFICES ASSUME \A w \in Workers :
                            worker[w].pc \notin {"killed"} \cup (InStats \ {"stat_write"})
                 PROVE  statsIndex < StatsLimit
      BY DEF RingIndexRecovers
    <3>1. ~(statsIndex >= StatsLimit)
      BY DEF BackendInv, RingInv, InStats
    <3> QED
      BY <3>1, WorkerConstants DEF BackendInv, TypeOK, PluginTypeOK
  <2> QED
    BY <2>1, <2>2 DEF BackendInv, ListInv, PluginInOrder
<1> QED
  BY <1>1, BackendTheorem, PTL

(***************************************************************************)
(* When the backend has exited, its workers have left their loops or were  *)
(* killed, and no analysis process and no other process of it is left      *)
(* (shutdown, complete_shutdown).                                          *)
(***************************************************************************)
THEOREM NothingSurvivesExitTheorem == Spec => []NothingSurvivesExit
<1>1. BackendInv => NothingSurvivesExit
  BY DEF BackendInv, ExitInv, NothingSurvivesExit, Others
<1> QED
  BY <1>1, BackendTheorem, PTL
=============================================================================
