--------------------------- MODULE AnalysisService ---------------------------
(***************************************************************************)
(* What the analysis scheduler promises for a task, without its queues,    *)
(* workers and database ("running the tasks", "scheduling tasks based on   *)
(* user decision and built-in dependencies", scheduler/analysis.py:33-37): *)
(* an accepted task works through the plugins wanted for it one at a time, *)
(* each after those it depends on, and then is closed for good.            *)
(***************************************************************************)
CONSTANTS
    Tasks,
    Names,          \* plugin names
    Dependencies,   \* the plugins each plugin name depends on
    Wanted,         \* per task: the plugins to be considered for it
    Ordered,        \* tasks for which the dependencies decide the order
    NoPlugin

VARIABLES
    status,         \* "waiting", "open", "closed" or "lost"
    todo,           \* plugins not considered yet
    busy            \* the plugin under consideration

vars == <<status, todo, busy>>

Init ==
    /\ status = [t \in Tasks |-> "waiting"]
    /\ todo = [t \in Tasks |-> {}]
    /\ busy = [t \in Tasks |-> NoPlugin]

Accept(t) ==
    /\ status[t] = "waiting"
    /\ todo' = [todo EXCEPT ![t] = Wanted[t]]
    /\ status' = [status EXCEPT ![t] = IF Wanted[t] = {} THEN "closed" ELSE "open"]
    /\ UNCHANGED busy

Consider(t, p) ==
    /\ status[t] = "open" /\ busy[t] = NoPlugin
    /\ p \in todo[t]
    /\ t \in Ordered => Dependencies[p] \cap todo[t] = {}
    /\ busy' = [busy EXCEPT ![t] = p]
    /\ todo' = [todo EXCEPT ![t] = @ \ {p}]
    /\ UNCHANGED status

\* The plugin failed: those that depend on it are not considered any more.
Withdraw(t) ==
    /\ status[t] = "open" /\ busy[t] # NoPlugin
    /\ todo' = [todo EXCEPT ![t] = {p \in @ : busy[t] \notin Dependencies[p]}]
    /\ UNCHANGED <<status, busy>>

Finish(t) ==
    /\ status[t] = "open" /\ busy[t] # NoPlugin
    /\ busy' = [busy EXCEPT ![t] = NoPlugin]
    /\ status' = [status EXCEPT ![t] = IF todo[t] = {} THEN "closed" ELSE "open"]
    /\ UNCHANGED todo

\* The object cannot be added to the database, or a process died with the task.
Lose(t) ==
    /\ status[t] \in {"waiting", "open"}
    /\ status' = [status EXCEPT ![t] = "lost"]
    /\ todo' = [todo EXCEPT ![t] = {}]
    /\ busy' = [busy EXCEPT ![t] = NoPlugin]

Next ==
    \E t \in Tasks :
        \/ Accept(t)
        \/ \E p \in Names : Consider(t, p)
        \/ Withdraw(t)
        \/ Finish(t)
        \/ Lose(t)

Spec == Init /\ [][Next]_vars
============================================================================
