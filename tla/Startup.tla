------------------------------ MODULE Startup ------------------------------
(***************************************************************************)
(* start_fact.py starts the installed components one after the other,      *)
(* waits for a signal, and stops them in the reverse order: SIGUSR1, up    *)
(* to 60 seconds, then SIGKILL.  The components are FactDb, FactFrontend,  *)
(* which runs uwsgi and a container with radare, and FactBackend, whose    *)
(* services run in processes of their own (see Backend).  Each reports     *)
(* online and offline in the database.                                     *)
(*                                                                         *)
(* PostgreSQL may be down for a time and docker-compose may fail.          *)
(***************************************************************************)
EXTENDS Integers

CONSTANTS
    Installations,   \* the sets of components that may be installed
    MaxOutages,      \* bound: how often PostgreSQL goes down
    MaxFailures      \* bound: how often docker-compose or a plugin fails

ASSUME BoundsAssumption == MaxOutages \in Nat /\ MaxFailures \in Nat

Components == {"db", "frontend", "backend"}

VARIABLES
    installed,       \* the components whose start script exists
    opts,            \* the command line: [testing, no_radare]
    starter,         \* the FactStarter: [pc, run]
    comp,            \* the components: [pc, run]
    server,          \* uwsgi runs
    radare,          \* the container with radare runs
    workers,         \* processes of the backend's services run
    status,          \* the entries of the table stats
    postgres,        \* PostgreSQL runs
    forced,          \* history: the components that raised or were killed
    faults           \* the bounds used up: [outages, failures]

startupVars == <<installed, opts, starter, comp, server, radare, workers, status,
                 postgres, forced, faults>>

procVars == <<server, radare, workers, status>>
envVars  == <<installed, opts, postgres, faults>>

Order == [db |-> "frontend", frontend |-> "backend", backend |-> "check"]

Gone(c) == comp[c].pc \in {"absent", "exited"}

StartupInit ==
    /\ installed \in Installations
    /\ opts \in [testing : BOOLEAN, no_radare : BOOLEAN]
    /\ starter = [pc |-> "start", at |-> "db", run |-> TRUE]
    /\ comp = [c \in Components |-> [pc |-> "absent", run |-> TRUE]]
    /\ server = FALSE /\ radare = FALSE /\ workers = FALSE
    /\ status = [c \in Components |-> "none"]
    /\ postgres \in BOOLEAN
    /\ forced = {}
    /\ faults = [outages |-> 0, failures |-> 0]

-----------------------------------------------------------------------------
(* The starter                                                             *)

\* Popen of the script, with the options of the starter; a component that is
\* not installed is left out.
start_component(c) ==
    /\ starter.pc = "start" /\ starter.at = c
    /\ comp' = IF c \in installed THEN [comp EXCEPT ![c].pc = "setup"] ELSE comp
    /\ starter' = IF c = "backend" THEN [starter EXCEPT !.pc = "check"]
                  ELSE [starter EXCEPT !.at = Order[c]]
    /\ UNCHANGED <<procVars, envVars, forced>>

process_is_running(c) == comp[c].pc # "exited"

\* Two seconds after its start the backend has to run.
CheckBackend ==
    /\ starter.pc = "check"
    /\ starter' = [starter EXCEPT !.pc = "loop",
                                  !.run = @ /\ ("backend" \in installed => process_is_running("backend"))]
    /\ UNCHANGED <<comp, procVars, envVars, forced>>

\* The loop ends after a signal, in a test run after one iteration.
LeaveLoop ==
    /\ starter.pc = "loop"
    /\ ~starter.run \/ opts.testing
    /\ starter' = [starter EXCEPT !.pc = "terminate", !.at = "backend"]
    /\ UNCHANGED <<comp, procVars, envVars, forced>>

Previous == [backend |-> "frontend", frontend |-> "db", db |-> "none"]

\* On to the next component to stop.
Continue(c) ==
    starter' = IF Previous[c] = "none" THEN [starter EXCEPT !.pc = "exited"]
               ELSE [starter EXCEPT !.pc = "terminate", !.at = Previous[c]]

\* SIGUSR1.  A component that has not registered its handler dies of it; one
\* that has, but is still in the process group of the starter, takes itself for
\* a subprocess and ignores it.
shutdown_listener(c) ==
    comp' = CASE comp[c].pc = "setup" -> [comp EXCEPT ![c].pc = "exited"]
              [] comp[c].pc = "group" -> comp
              [] OTHER -> [comp EXCEPT ![c].run = FALSE]

terminate_process(c) ==
    /\ starter.pc = "terminate" /\ starter.at = c
    /\ IF Gone(c) THEN Continue(c) /\ UNCHANGED comp
       ELSE /\ starter' = [starter EXCEPT !.pc = "wait"]
            /\ shutdown_listener(c)
    /\ UNCHANGED <<procVars, envVars, forced>>

Waiting(c) == starter.pc = "wait" /\ starter.at = c

\* Mutant: the wait has no timeout.
Endless_wait(c) ==
    /\ Waiting(c)
    /\ comp[c].pc = "exited" /\ Continue(c)
    /\ UNCHANGED <<comp, procVars, envVars, forced>>

\* The component ends, or it is killed after 60 seconds: its children stay.
wait(c) ==
    /\ Waiting(c)
    /\ Continue(c)
    /\ IF comp[c].pc = "exited" THEN UNCHANGED <<comp, forced>>
       ELSE /\ comp' = [comp EXCEPT ![c].pc = "exited"]
            /\ forced' = forced \cup {c}
    /\ UNCHANGED <<procVars, envVars>>

\* SIGTERM reaches the starter; Ctrl-C also the components that have not yet
\* left its process group, which they do when they register their handlers.
shutdown(ctrlC) ==
    /\ starter.pc # "exited"
    /\ starter.run
    /\ starter' = [starter EXCEPT !.run = FALSE]
    /\ comp' = [c \in Components |->
                  IF ctrlC /\ comp[c].pc = "setup" THEN [comp[c] EXCEPT !.pc = "exited"] ELSE comp[c]]
    /\ UNCHANGED <<procVars, envVars, forced>>

-----------------------------------------------------------------------------
(* The components                                                          *)

Goto(c, pc) == comp' = [comp EXCEPT ![c].pc = pc]

\* An exception ends the component without its shutdown.  The backend does not
\* end: at its exit, Python waits for the processes of the services.
Crashes(c) ==
    /\ Goto(c, IF c = "backend" /\ workers THEN "hanging" ELSE "exited")
    /\ forced' = forced \cup {c}

\* Mutant: the frontend starts radare before it can be told to stop.
Early_setup(c) ==
    /\ comp[c].pc = "setup"
    /\ IF c = "frontend" /\ ~opts.no_radare /\ ~radare
       THEN radare' = TRUE /\ UNCHANGED comp
       ELSE Goto(c, IF c = "db" /\ ~postgres THEN "exited" ELSE "group") /\ UNCHANGED radare
    /\ UNCHANGED <<starter, server, workers, status, envVars, forced>>

\* program_setup, the connection check of FactDb and the signal handlers.
setup(c) ==
    /\ comp[c].pc = "setup"
    /\ Goto(c, IF c = "db" /\ ~postgres THEN "exited" ELSE "group")
    /\ UNCHANGED <<starter, procVars, envVars, forced>>

\* os.setpgid, after the handlers are registered.
LeaveGroup(c) ==
    /\ comp[c].pc = "group"
    /\ Goto(c, "init")
    /\ UNCHANGED <<starter, procVars, envVars, forced>>

Fails == /\ faults.failures < MaxFailures
         /\ faults' = [faults EXCEPT !.failures = @ + 1]
         /\ UNCHANGED <<installed, opts, postgres>>

InitDb ==
    /\ comp["db"].pc = "init"
    /\ Goto("db", "main")
    /\ UNCHANGED <<starter, procVars, envVars, forced>>

\* The rest of FactFrontend's constructor: radare.
InitFrontend ==
    /\ comp["frontend"].pc = "init"
    /\ \/ /\ Goto("frontend", "ready")
          /\ radare' = ~opts.no_radare
          /\ UNCHANGED <<envVars, forced>>
       \/ ~opts.no_radare /\ Fails /\ Crashes("frontend") /\ UNCHANGED radare
    /\ UNCHANGED <<starter, server, workers, status>>

\* UwsgiServer.start, whether or not the frontend was told to stop.
StartServer ==
    /\ comp["frontend"].pc = "ready"
    /\ Goto("frontend", "main")
    /\ server' = TRUE
    /\ UNCHANGED <<starter, radare, workers, status, envVars, forced>>

\* A plugin that raises PluginInitException has the processes of the others
\* stopped; the constructor then raises.
InitBackend ==
    /\ comp["backend"].pc = "init"
    /\ \/ Goto("backend", "main") /\ workers' = TRUE /\ UNCHANGED <<envVars, forced>>
       \/ Fails /\ Crashes("backend") /\ UNCHANGED workers
    /\ UNCHANGED <<starter, server, radare, status>>

\* WorkLoadStatistic: a failure of the database is not caught.
update_statistic(c, value) ==
    IF postgres THEN status' = [status EXCEPT ![c] = value] /\ UNCHANGED forced
    ELSE UNCHANGED status

update(c) == update_statistic(c, "online")
set_offline(c) == update_statistic(c, "offline")

\* An iteration of the loop; the backend also leaves it after an exception in
\* one of its services.
MainLoop(c) ==
    /\ comp[c].pc = "main" /\ comp[c].run
    /\ update(c)
    /\ \/ ~postgres /\ Crashes(c) /\ UNCHANGED envVars
       \/ postgres /\ opts.testing /\ Goto(c, "offline") /\ UNCHANGED envVars
       \/ postgres /\ ~opts.testing /\ UNCHANGED <<comp, envVars>>
       \/ postgres /\ ~opts.testing /\ c = "backend" /\ Fails /\ Goto(c, "offline")
    /\ UNCHANGED <<starter, server, radare, workers>>

LeaveMainLoop(c) ==
    /\ comp[c].pc = "main" /\ ~comp[c].run
    /\ Goto(c, "offline")
    /\ UNCHANGED <<starter, procVars, envVars, forced>>

AfterOffline == [db |-> "exited", frontend |-> "server", backend |-> "services"]

\* shutdown of FactBase, the first thing the shutdown of a component does.
BaseShutdown(c) ==
    /\ comp[c].pc = "offline"
    /\ set_offline(c)
    /\ IF postgres THEN Goto(c, AfterOffline[c]) ELSE Crashes(c)
    /\ UNCHANGED <<starter, server, radare, workers, envVars>>

\* uwsgi ends within 30 seconds or is killed.
StopServer ==
    /\ comp["frontend"].pc = "server"
    /\ server' = FALSE
    /\ Goto("frontend", "radare")
    /\ UNCHANGED <<starter, radare, workers, status, envVars, forced>>

StopRadare ==
    /\ comp["frontend"].pc = "radare"
    /\ \/ /\ radare' = FALSE
          /\ Goto("frontend", "exited")
          /\ UNCHANGED <<envVars, forced>>
       \/ ~opts.no_radare /\ Fails /\ Crashes("frontend") /\ UNCHANGED radare
    /\ UNCHANGED <<starter, server, workers, status>>

\* The services end; complete_shutdown kills what is left of them.
StopServices ==
    /\ comp["backend"].pc = "services"
    /\ workers' = FALSE
    /\ Goto("backend", "exited")
    /\ UNCHANGED <<starter, server, radare, status, envVars, forced>>

-----------------------------------------------------------------------------
\* External: the database server.
Postgres ==
    /\ \/ /\ postgres /\ faults.outages < MaxOutages
          /\ faults' = [faults EXCEPT !.outages = @ + 1]
       \/ ~postgres /\ UNCHANGED faults
    /\ postgres' = ~postgres
    /\ UNCHANGED <<installed, opts, starter, comp, procVars, forced>>

StarterStep ==
    \/ CheckBackend \/ LeaveLoop
    \/ \E c \in Components : start_component(c) \/ terminate_process(c) \/ wait(c)

ComponentStep(c) ==
    \/ setup(c) \/ LeaveGroup(c) \/ MainLoop(c) \/ LeaveMainLoop(c) \/ BaseShutdown(c)
    \/ c = "db" /\ InitDb
    \/ c = "frontend" /\ (InitFrontend \/ StartServer \/ StopServer \/ StopRadare)
    \/ c = "backend" /\ (InitBackend \/ StopServices)

Exited == starter.pc = "exited" /\ UNCHANGED startupVars

StartupNext ==
    \/ StarterStep
    \/ \E c \in Components : ComponentStep(c)
    \/ \E ctrlC \in BOOLEAN : shutdown(ctrlC)
    \/ Postgres
    \/ Exited

-----------------------------------------------------------------------------
(* Properties                                                              *)

\* Whenever the signal comes, also while the components are still starting: if
\* no component raised or had to be killed, the starter leaves nothing behind
\* and no component is listed as online.
NothingLeftBehind ==
    starter.pc = "exited" /\ forced = {}
        => /\ \A c \in Components : Gone(c) /\ status[c] # "online"
           /\ ~server /\ ~radare /\ ~workers

\* After a signal, or when the backend did not start, the starter ends, also
\* if a component hangs.
StarterEnds == ~starter.run ~> starter.pc = "exited"
=============================================================================
