------------------------ MODULE BesideBackend_proofs ------------------------
(***************************************************************************)
(* The programs beside the backend, for any number of users, requests and  *)
(* comments, and any contents of MongoDB.  Whatever the components do and  *)
(* whenever the signal comes, the starter leaves nothing behind            *)
(* (NothingLeftBehind).  Wherever the scripts are killed, no user is lost  *)
(* and a migration that reaches its end has copied everything              *)
(* (DataSurvives); its invariant says of the stack of calls what has been  *)
(* visited: in every frame, all below the entries that are not on its list *)
(* any more, except those of the call above it, while what an earlier run  *)
(* left needs no more than to come from MongoDB.  And what the web         *)
(* interface and the console tool edit is kept as long as no two edits     *)
(* overlap (EditsKept): what a session read is still true when it writes.  *)
(* Wherever the script that updates the CVE database fails or is killed,   *)
(* no CVE is forgotten, a lookup meanwhile misses only what moved, and an  *)
(* update that nothing disturbed agrees with its feed (CveDatabase).       *)
(***************************************************************************)
EXTENDS Upgrade, Startup, Frontend, CveDatabase, FiniteSetTheorems, SequenceTheorems, TLAPS


-----------------------------------------------------------------------------
(* start_fact.py.  A process of a component belongs to a phase of its life,*)
(* or somebody raised; and what was stopped stays stopped.                 *)

CompStates ==
    {"absent", "setup", "group", "init", "ready", "main", "offline", "server", "radare",
     "services", "hanging", "exited"}

StartupTypes ==
    /\ opts \in [testing : BOOLEAN, no_radare : BOOLEAN]
    /\ starter \in [pc : {"start", "check", "loop", "terminate", "wait", "exited"},
                    at : Components, run : BOOLEAN]
    /\ comp \in [Components -> [pc : CompStates, run : BOOLEAN]]
    /\ status \in [Components -> {"none", "online", "offline"}]
    /\ server \in BOOLEAN /\ radare \in BOOLEAN /\ workers \in BOOLEAN
    /\ forced \subseteq Components

\* What a component started, it has not ended without stopping.
Owned ==
    /\ server => comp["frontend"].pc \in {"main", "offline", "server"} \/ "frontend" \in forced
    /\ radare => \/ comp["frontend"].pc \in {"ready", "main", "offline", "server", "radare"}
                 \/ "frontend" \in forced
    /\ workers => comp["backend"].pc \in {"main", "offline", "services"} \/ "backend" \in forced
    /\ \A c \in Components :
          status[c] = "online" => comp[c].pc \in {"main", "offline"} \/ c \in forced

\* The components are stopped in the reverse order.
StoppedBefore == [backend |-> {}, frontend |-> {"backend"}, db |-> {"frontend", "backend"}]

InReverse ==
    /\ starter.pc \in {"terminate", "wait"} => \A d \in StoppedBefore[starter.at] : Gone(d)
    /\ starter.pc = "exited" => \A d \in Components : Gone(d)

\* What is still to be started is absent.
ToStart == [db |-> Components, frontend |-> {"frontend", "backend"}, backend |-> {"backend"}]

NotStartedYet == starter.pc = "start" => \A d \in ToStart[starter.at] : comp[d].pc = "absent"

StartupInv == StartupTypes /\ Owned /\ InReverse /\ NotStartedYet

LEMMA StartupInitInv == StartupInit => StartupInv
<1> SUFFICES ASSUME StartupInit PROVE StartupInv
  OBVIOUS
<1>1. StartupTypes
  BY DEF StartupInit, StartupTypes, Components, CompStates
<1>2. Owned
  BY DEF StartupInit, Owned, Components
<1>3. InReverse
  BY DEF StartupInit, InReverse
<1>4. NotStartedYet
  BY DEF StartupInit, NotStartedYet, ToStart
<1> QED
  BY <1>1, <1>2, <1>3, <1>4 DEF StartupInv

\* A component that enters a new state, and what follows from it.
CompRecords == [pc : CompStates, run : BOOLEAN]

LEMMA GotoFacts ==
    ASSUME StartupTypes, NEW c \in Components, NEW pc \in CompStates, Goto(c, pc)
    PROVE  /\ comp' \in [Components -> CompRecords]
           /\ comp'[c].pc = pc
           /\ \A d \in Components \ {c} : comp'[d] = comp[d]
<1> DEFINE new == [comp[c] EXCEPT !.pc = pc]
<1>1. comp \in [Components -> CompRecords] /\ comp[c] \in CompRecords
  BY DEF StartupTypes, CompRecords
<1>2. new \in CompRecords /\ new.pc = pc
  BY <1>1 DEF CompRecords
<1>3. comp' = [comp EXCEPT ![c] = new]
  BY DEF Goto
<1> HIDE DEF new
<1> QED
  BY <1>1, <1>2, <1>3

\* A step of component c: it alone moves, from a state in which it runs to pc,
\* and if it crashes that is remembered.
Moves(c, pc) ==
    /\ starter' = starter /\ opts' = opts
    /\ comp[c].pc \notin {"absent", "exited", "hanging"}
    /\ comp' \in [Components -> CompRecords]
    /\ comp'[c].pc = pc
    /\ \A d \in Components \ {c} : comp'[d] = comp[d]

\* Nothing of the other components changes.
OthersKeep(c) ==
    /\ c # "frontend" => server' = server /\ radare' = radare
    /\ c # "backend" => workers' = workers
    /\ \A d \in Components \ {c} : status'[d] = status[d]
    /\ forced' \in {forced, forced \cup {c}}

EffectTypes ==
    /\ server' \in BOOLEAN /\ radare' \in BOOLEAN /\ workers' \in BOOLEAN
    /\ status' \in [Components -> {"none", "online", "offline"}]

\* What the component has, in its new state, it may have.
KeepsOwn(c, pc) ==
    \/ c \in forced'
    \/ /\ c = "frontend" => /\ server' => pc \in {"main", "offline", "server"}
                            /\ radare' => pc \in {"ready", "main", "offline", "server", "radare"}
       /\ c = "backend" => (workers' => pc \in {"main", "offline", "services"})
       /\ status'[c] = "online" => pc \in {"main", "offline"}

Effect(c, pc) == Moves(c, pc) /\ OthersKeep(c) /\ EffectTypes /\ KeepsOwn(c, pc)

LEMMA EffectKeepsInv ==
    ASSUME StartupInv, NEW c \in Components, NEW pc \in CompStates, Effect(c, pc)
    PROVE  StartupInv'
<1> USE DEF Effect
<1>1. StartupTypes'
  BY DEF StartupInv, StartupTypes, Moves, OthersKeep, EffectTypes, CompRecords
<1>2. /\ forced \subseteq forced'
      /\ \A d \in Components \ {c} : comp'[d].pc = comp[d].pc
  BY DEF OthersKeep, Moves
<1>3. server' => comp'["frontend"].pc \in {"main", "offline", "server"} \/ "frontend" \in forced'
  BY <1>2 DEF StartupInv, Owned, Moves, OthersKeep, KeepsOwn, Components
<1>4. radare' => \/ comp'["frontend"].pc \in {"ready", "main", "offline", "server", "radare"}
                 \/ "frontend" \in forced'
  BY <1>2 DEF StartupInv, Owned, Moves, OthersKeep, KeepsOwn, Components
<1>5. workers' => comp'["backend"].pc \in {"main", "offline", "services"} \/ "backend" \in forced'
  BY <1>2 DEF StartupInv, Owned, Moves, OthersKeep, KeepsOwn, Components
<1>6. ASSUME NEW d \in Components, status'[d] = "online"
      PROVE  comp'[d].pc \in {"main", "offline"} \/ d \in forced'
  BY <1>2, <1>6 DEF StartupInv, Owned, Moves, OthersKeep, KeepsOwn
<1>7. \A d \in Components : Gone(d) => Gone(d)'
  BY <1>2 DEF Moves, Gone
<1>8. /\ starter.at \in Components
      /\ \A d \in Components : StoppedBefore[d] \subseteq Components
  BY DEF StartupInv, StartupTypes, StoppedBefore, Components
<1>9. InReverse'
  BY <1>7, <1>8 DEF StartupInv, InReverse, Moves
<1>10. /\ \A d \in Components : ToStart[d] \subseteq Components
       /\ \A d \in Components : comp[d].pc = "absent" => comp'[d].pc = "absent"
  BY <1>2 DEF ToStart, Components, Moves
<1>11. NotStartedYet'
  BY <1>8, <1>10 DEF StartupInv, NotStartedYet, Moves
<1> QED
  BY <1>1, <1>3, <1>4, <1>5, <1>6, <1>9, <1>11 DEF StartupInv, Owned

\* An action that only goes on.
LEMMA GoesOn ==
    ASSUME StartupInv, NEW c \in Components, NEW pc \in CompStates, Goto(c, pc),
           comp[c].pc \notin {"absent", "exited", "hanging"},
           starter' = starter, opts' = opts
    PROVE  Moves(c, pc)
  BY GotoFacts DEF StartupInv, Moves

LEMMA EffectOfSteps ==
    ASSUME StartupInv, NEW c \in Components, ComponentStep(c)
    PROVE  \E pc \in CompStates : Effect(c, pc)
<1> USE DEF StartupInv
<1>1. CASE setup(c)
  <2> DEFINE pc == IF c = "db" /\ ~postgres THEN "exited" ELSE "group"
  <2>1. pc \in CompStates /\ Moves(c, pc)
    BY <1>1, GoesOn DEF setup, CompStates, procVars, envVars
  <2>2. OthersKeep(c) /\ EffectTypes /\ KeepsOwn(c, pc)
    BY <1>1 DEF setup, procVars, envVars, StartupTypes, Owned, OthersKeep, EffectTypes, KeepsOwn
  <2> QED
    BY <2>1, <2>2 DEF Effect
<1>2. CASE LeaveGroup(c)
  <2>1. "init" \in CompStates /\ Moves(c, "init")
    BY <1>2, GoesOn DEF LeaveGroup, CompStates, procVars, envVars
  <2>2. OthersKeep(c) /\ EffectTypes /\ KeepsOwn(c, "init")
    BY <1>2 DEF LeaveGroup, procVars, envVars, StartupTypes, Owned, OthersKeep, EffectTypes,
                KeepsOwn
  <2> QED
    BY <2>1, <2>2 DEF Effect
<1>3. CASE LeaveMainLoop(c)
  <2>1. "offline" \in CompStates /\ Moves(c, "offline")
    BY <1>3, GoesOn DEF LeaveMainLoop, CompStates, procVars, envVars
  <2>2. OthersKeep(c) /\ EffectTypes /\ KeepsOwn(c, "offline")
    BY <1>3 DEF LeaveMainLoop, procVars, envVars, StartupTypes, Owned, OthersKeep, EffectTypes,
                KeepsOwn
  <2> QED
    BY <2>1, <2>2 DEF Effect
<1>4. CASE MainLoop(c)
  <2>1. starter' = starter /\ opts' = opts /\ comp[c].pc = "main"
    BY <1>4 DEF MainLoop, envVars, Fails
  <2>2. OthersKeep(c) /\ EffectTypes
    BY <1>4 DEF MainLoop, update, update_statistic, Crashes, Goto, envVars, Fails, StartupTypes,
                OthersKeep, EffectTypes
  <2>3. CASE Crashes(c)
    <3> DEFINE pc == IF c = "backend" /\ workers THEN "hanging" ELSE "exited"
    <3>1. pc \in CompStates /\ Moves(c, pc) /\ c \in forced'
      BY <2>1, <2>3, GoesOn DEF Crashes, CompStates
    <3> QED
      BY <2>2, <3>1 DEF Effect, KeepsOwn
  <2>4. CASE Goto(c, "offline") /\ forced' = forced
    <3>1. "offline" \in CompStates /\ Moves(c, "offline")
      BY <2>1, <2>4, GoesOn DEF CompStates
    <3>2. KeepsOwn(c, "offline")
      BY <1>4, <2>1, <2>4 DEF MainLoop, Owned, KeepsOwn
    <3> QED
      BY <2>2, <3>1, <3>2 DEF Effect
  <2>5. CASE comp' = comp /\ forced' = forced
    <3>1. "main" \in CompStates /\ Moves(c, "main")
      BY <2>1, <2>5 DEF CompStates, Moves, StartupTypes, CompRecords
    <3>2. KeepsOwn(c, "main")
      BY <1>4, <2>1, <2>5 DEF MainLoop, Owned, KeepsOwn
    <3> QED
      BY <2>2, <3>1, <3>2 DEF Effect
  <2>6. Crashes(c) \/ (Goto(c, "offline") /\ forced' = forced) \/ (comp' = comp /\ forced' = forced)
    BY <1>4 DEF MainLoop, update, update_statistic
  <2> QED
    BY <2>3, <2>4, <2>5, <2>6
<1>5. CASE BaseShutdown(c)
  <2>1. starter' = starter /\ opts' = opts /\ comp[c].pc = "offline"
    BY <1>5 DEF BaseShutdown, envVars
  <2>2. OthersKeep(c) /\ EffectTypes
    BY <1>5 DEF BaseShutdown, set_offline, update_statistic, Crashes, Goto, envVars,
                StartupTypes, OthersKeep, EffectTypes
  <2>3. CASE postgres
    <3>1. Goto(c, AfterOffline[c]) /\ status' = [status EXCEPT ![c] = "offline"]
      BY <1>5, <2>3 DEF BaseShutdown, set_offline, update_statistic
    <3>2. AfterOffline[c] \in CompStates /\ Moves(c, AfterOffline[c])
      BY <2>1, <3>1, GoesOn DEF AfterOffline, CompStates, Components
    <3>3. status'[c] = "offline"
      BY <3>1 DEF StartupTypes
    <3>4. forced' = forced /\ server' = server /\ radare' = radare /\ workers' = workers
      BY <1>5, <2>3 DEF BaseShutdown, set_offline, update_statistic
    <3>5. KeepsOwn(c, AfterOffline[c])
      BY <2>1, <3>3, <3>4 DEF Owned, KeepsOwn, AfterOffline, Components
    <3> QED
      BY <2>2, <3>2, <3>5 DEF Effect
  <2>4. CASE ~ postgres
    <3> DEFINE pc == IF c = "backend" /\ workers THEN "hanging" ELSE "exited"
    <3>1. pc \in CompStates /\ Moves(c, pc) /\ c \in forced'
      BY <1>5, <2>1, <2>4, GoesOn DEF BaseShutdown, Crashes, CompStates
    <3> QED
      BY <2>2, <3>1 DEF Effect, KeepsOwn
  <2> QED
    BY <2>3, <2>4
<1>6. CASE c = "db" /\ InitDb
  <2>1. "main" \in CompStates /\ Moves(c, "main")
    BY <1>6, GoesOn DEF InitDb, CompStates, procVars, envVars
  <2>2. OthersKeep(c) /\ EffectTypes /\ KeepsOwn(c, "main")
    BY <1>6 DEF InitDb, procVars, envVars, StartupTypes, Owned, OthersKeep, EffectTypes, KeepsOwn
  <2> QED
    BY <2>1, <2>2 DEF Effect
<1>7. CASE c = "frontend" /\ InitFrontend
  <2>1. starter' = starter /\ opts' = opts /\ comp[c].pc = "init"
    BY <1>7 DEF InitFrontend, envVars, Fails
  <2>2. OthersKeep(c) /\ EffectTypes
    BY <1>7 DEF InitFrontend, Crashes, StartupTypes, OthersKeep, EffectTypes
  <2>3. CASE Crashes(c)
    <3>1. "exited" \in CompStates /\ Moves(c, "exited") /\ c \in forced'
      BY <1>7, <2>1, <2>3, GoesOn DEF Crashes, CompStates
    <3> QED
      BY <2>2, <3>1 DEF Effect, KeepsOwn
  <2>4. CASE Goto(c, "ready") /\ forced' = forced
    <3>1. "ready" \in CompStates /\ Moves(c, "ready")
      BY <2>1, <2>4, GoesOn DEF CompStates
    <3>2. KeepsOwn(c, "ready")
      BY <1>7, <2>1, <2>4 DEF InitFrontend, Owned, KeepsOwn
    <3> QED
      BY <2>2, <3>1, <3>2 DEF Effect
  <2> QED
    BY <1>7, <2>3, <2>4 DEF InitFrontend
<1>8. CASE c = "frontend" /\ StartServer
  <2>1. "main" \in CompStates /\ Moves(c, "main")
    BY <1>8, GoesOn DEF StartServer, CompStates, envVars
  <2>2. OthersKeep(c) /\ EffectTypes /\ KeepsOwn(c, "main")
    BY <1>8 DEF StartServer, StartupTypes, Owned, OthersKeep, EffectTypes, KeepsOwn
  <2> QED
    BY <2>1, <2>2 DEF Effect
<1>9. CASE c = "frontend" /\ StopServer
  <2>1. "radare" \in CompStates /\ Moves(c, "radare")
    BY <1>9, GoesOn DEF StopServer, CompStates, envVars
  <2>2. OthersKeep(c) /\ EffectTypes /\ KeepsOwn(c, "radare")
    BY <1>9 DEF StopServer, StartupTypes, Owned, OthersKeep, EffectTypes, KeepsOwn
  <2> QED
    BY <2>1, <2>2 DEF Effect
<1>10. CASE c = "frontend" /\ StopRadare
  <2>1. starter' = starter /\ opts' = opts /\ comp[c].pc = "radare"
    BY <1>10 DEF StopRadare, envVars, Fails
  <2>2. OthersKeep(c) /\ EffectTypes
    BY <1>10 DEF StopRadare, Crashes, StartupTypes, OthersKeep, EffectTypes
  <2>3. "exited" \in CompStates /\ Moves(c, "exited")
    BY <1>10, <2>1, GoesOn DEF StopRadare, Crashes, CompStates
  <2>4. KeepsOwn(c, "exited")
    BY <1>10, <2>1 DEF StopRadare, Crashes, Owned, KeepsOwn
  <2> QED
    BY <2>2, <2>3, <2>4 DEF Effect
<1>11. CASE c = "backend" /\ InitBackend
  <2>1. starter' = starter /\ opts' = opts /\ comp[c].pc = "init"
    BY <1>11 DEF InitBackend, envVars, Fails
  <2>2. OthersKeep(c) /\ EffectTypes
    BY <1>11 DEF InitBackend, Crashes, StartupTypes, OthersKeep, EffectTypes
  <2>3. CASE Crashes(c)
    <3> DEFINE pc == IF c = "backend" /\ workers THEN "hanging" ELSE "exited"
    <3>1. pc \in CompStates /\ Moves(c, pc) /\ c \in forced'
      BY <2>1, <2>3, GoesOn DEF Crashes, CompStates
    <3> QED
      BY <2>2, <3>1 DEF Effect, KeepsOwn
  <2>4. CASE Goto(c, "main") /\ forced' = forced
    <3>1. "main" \in CompStates /\ Moves(c, "main")
      BY <2>1, <2>4, GoesOn DEF CompStates
    <3>2. KeepsOwn(c, "main")
      BY <1>11, <2>1, <2>4 DEF InitBackend, Owned, KeepsOwn
    <3> QED
      BY <2>2, <3>1, <3>2 DEF Effect
  <2> QED
    BY <1>11, <2>3, <2>4 DEF InitBackend
<1>12. CASE c = "backend" /\ StopServices
  <2>1. "exited" \in CompStates /\ Moves(c, "exited")
    BY <1>12, GoesOn DEF StopServices, CompStates, envVars
  <2>2. OthersKeep(c) /\ EffectTypes /\ KeepsOwn(c, "exited")
    BY <1>12 DEF StopServices, StartupTypes, Owned, OthersKeep, EffectTypes, KeepsOwn
  <2> QED
    BY <2>1, <2>2 DEF Effect
<1> QED
  BY <1>1, <1>2, <1>3, <1>4, <1>5, <1>6, <1>7, <1>8, <1>9, <1>10, <1>11, <1>12 DEF ComponentStep

(***************************************************************************)
(* The starter takes nothing from a component that has started something:  *)
(* it starts it, tells it to stop, or kills it and remembers that.         *)
(***************************************************************************)
LeavesOwned ==
    /\ server' = server /\ radare' = radare /\ workers' = workers /\ status' = status
    /\ opts' = opts
    /\ comp' \in [Components -> CompRecords]
    /\ forced \subseteq forced' /\ forced' \subseteq Components
    /\ \A d \in Components : \/ comp'[d].pc = comp[d].pc
                             \/ comp[d].pc \in {"absent", "setup"}
                             \/ d \in forced'

LEMMA StarterKeepsOwned ==
    ASSUME StartupTypes, Owned, LeavesOwned
    PROVE  Owned'
<1>1. "frontend" \in Components /\ "backend" \in Components
  BY DEF Components
<1>2. server' => comp'["frontend"].pc \in {"main", "offline", "server"} \/ "frontend" \in forced'
  BY <1>1 DEF Owned, LeavesOwned
<1>3. radare' => \/ comp'["frontend"].pc \in {"ready", "main", "offline", "server", "radare"}
                 \/ "frontend" \in forced'
  BY <1>1 DEF Owned, LeavesOwned
<1>4. workers' => comp'["backend"].pc \in {"main", "offline", "services"} \/ "backend" \in forced'
  BY <1>1 DEF Owned, LeavesOwned
<1>5. ASSUME NEW d \in Components, status'[d] = "online"
      PROVE  comp'[d].pc \in {"main", "offline"} \/ d \in forced'
  BY <1>5 DEF Owned, LeavesOwned
<1> QED
  BY <1>2, <1>3, <1>4, <1>5 DEF Owned

StarterRecords ==
    [pc : {"start", "check", "loop", "terminate", "wait", "exited"}, at : Components,
     run : BOOLEAN]

\* The next component to stop is one before which only this one was to be stopped.
LEMMA ContinueFacts ==
    ASSUME StartupTypes, NEW c \in Components, Continue(c), starter.at = c,
           \A d \in StoppedBefore[c] : Gone(d)', Gone(c)'
    PROVE  starter' \in StarterRecords /\ InReverse' /\ NotStartedYet'
<1>1. starter \in StarterRecords
  BY DEF StartupTypes, StarterRecords
<1>2. CASE c = "db"
  <2>1. starter' = [starter EXCEPT !.pc = "exited"]
    BY <1>2 DEF Continue, Previous
  <2>2. starter' \in StarterRecords /\ starter'.pc = "exited"
    BY <1>1, <2>1 DEF StarterRecords
  <2>3. \A d \in Components : Gone(d)'
    BY <1>2 DEF StoppedBefore, Components
  <2> QED
    BY <2>2, <2>3 DEF InReverse, NotStartedYet
<1>3. ASSUME c # "db"
      PROVE  starter' \in StarterRecords /\ InReverse' /\ NotStartedYet'
  <2>1. /\ Previous[c] \in Components /\ Previous[c] # "none"
        /\ StoppedBefore[Previous[c]] \subseteq StoppedBefore[c] \cup {c}
    BY <1>3 DEF Previous, StoppedBefore, Components
  <2>2. starter' = [starter EXCEPT !.pc = "terminate", !.at = Previous[c]]
    BY <2>1 DEF Continue
  <2>3. starter' \in StarterRecords /\ starter'.pc = "terminate" /\ starter'.at = Previous[c]
    BY <1>1, <2>1, <2>2 DEF StarterRecords
  <2> QED
    BY <2>1, <2>3 DEF InReverse, NotStartedYet
<1> QED
  BY <1>2, <1>3

LEMMA StarterKeepsInv ==
    ASSUME StartupInv, StarterStep
    PROVE  StartupInv'
<1> USE DEF StartupInv
<1>1. starter \in StarterRecords /\ comp \in [Components -> CompRecords]
  BY DEF StartupTypes, StarterRecords, CompRecords
<1>2. SUFFICES LeavesOwned /\ starter' \in StarterRecords /\ InReverse' /\ NotStartedYet'
  BY StarterKeepsOwned DEF LeavesOwned, StartupTypes, StarterRecords, CompRecords
<1>3. CASE CheckBackend
  <2>1. PICK r \in BOOLEAN : starter' = [starter EXCEPT !.pc = "loop", !.run = r]
    BY <1>1, <1>3 DEF CheckBackend, StarterRecords
  <2>2. starter' \in StarterRecords /\ starter'.pc = "loop"
    BY <1>1, <2>1 DEF StarterRecords
  <2>3. LeavesOwned
    BY <1>1, <1>3 DEF CheckBackend, procVars, envVars, LeavesOwned, StartupTypes
  <2> QED
    BY <2>2, <2>3 DEF InReverse, NotStartedYet
<1>4. CASE LeaveLoop
  <2>1. starter' \in StarterRecords /\ starter'.pc = "terminate" /\ starter'.at = "backend"
    BY <1>1, <1>4 DEF LeaveLoop, StarterRecords, Components
  <2>2. LeavesOwned
    BY <1>1, <1>4 DEF LeaveLoop, procVars, envVars, LeavesOwned, StartupTypes
  <2> QED
    BY <2>1, <2>2 DEF InReverse, NotStartedYet, StoppedBefore
<1>5. ASSUME NEW c \in Components, start_component(c)
      PROVE  LeavesOwned /\ starter' \in StarterRecords /\ InReverse' /\ NotStartedYet'
  <2>1. starter.pc = "start" /\ starter.at = c /\ c \in ToStart[c] /\ comp[c].pc = "absent"
    BY <1>5 DEF start_component, NotStartedYet, ToStart, Components
  <2>2. /\ comp' \in [Components -> CompRecords]
        /\ \A d \in Components \ {c} : comp'[d] = comp[d]
    <3>1. CASE c \in installed
      BY <1>5, <3>1, GotoFacts DEF start_component, Goto, CompStates
    <3>2. CASE c \notin installed
      BY <1>1, <1>5, <3>2 DEF start_component
    <3> QED
      BY <3>1, <3>2
  <2>3. LeavesOwned
    BY <1>5, <2>1, <2>2 DEF start_component, procVars, envVars, LeavesOwned, StartupTypes
  <2>4. CASE c = "backend"
    <3>1. starter' \in StarterRecords /\ starter'.pc = "check"
      BY <1>1, <1>5, <2>4 DEF start_component, StarterRecords
    <3> QED
      BY <2>3, <3>1 DEF InReverse, NotStartedYet
  <2>5. ASSUME c # "backend"
        PROVE  starter' \in StarterRecords /\ InReverse' /\ NotStartedYet'
    <3>1. /\ Order[c] \in Components
          /\ ToStart[Order[c]] \subseteq ToStart[c] \ {c} /\ ToStart[c] \subseteq Components
      BY <2>5 DEF Order, ToStart, Components
    <3>2. starter' \in StarterRecords /\ starter'.pc = "start" /\ starter'.at = Order[c]
      BY <1>1, <1>5, <2>1, <2>5, <3>1 DEF start_component, StarterRecords
    <3>3. \A d \in ToStart[Order[c]] : comp'[d].pc = "absent"
      BY <2>1, <2>2, <3>1 DEF NotStartedYet
    <3> QED
      BY <3>2, <3>3 DEF InReverse, NotStartedYet
  <2> QED
    BY <2>3, <2>4, <2>5
<1>6. ASSUME NEW c \in Components, terminate_process(c)
      PROVE  LeavesOwned /\ starter' \in StarterRecords /\ InReverse' /\ NotStartedYet'
  <2>1. /\ starter.pc = "terminate" /\ starter.at = c
        /\ \A d \in StoppedBefore[c] : Gone(d)
        /\ StoppedBefore[c] \subseteq Components \ {c}
    BY <1>6 DEF terminate_process, InReverse, StoppedBefore, Components
  <2>2. CASE Gone(c)
    <3>1. Continue(c) /\ comp' = comp
      BY <1>6, <2>2 DEF terminate_process
    <3>2. \A d \in Components : Gone(d)' <=> Gone(d)
      BY <3>1 DEF Gone
    <3>3. LeavesOwned
      BY <1>1, <1>6, <3>1 DEF terminate_process, procVars, envVars, LeavesOwned, StartupTypes
    <3> QED
      BY <2>1, <2>2, <3>1, <3>2, <3>3, ContinueFacts
  <2>3. CASE ~ Gone(c)
    <3>1. starter' = [starter EXCEPT !.pc = "wait"] /\ shutdown_listener(c)
      BY <1>6, <2>3 DEF terminate_process
    <3>2. starter' \in StarterRecords /\ starter'.pc = "wait" /\ starter'.at = c
      BY <1>1, <2>1, <3>1 DEF StarterRecords
    <3>3. /\ comp' \in [Components -> CompRecords]
          /\ \A d \in Components \ {c} : comp'[d] = comp[d]
          /\ comp'[c].pc = comp[c].pc \/ comp[c].pc = "setup"
      <4>1. CASE comp[c].pc = "setup"
        BY <3>1, <4>1, GotoFacts DEF shutdown_listener, Goto, CompStates
      <4>2. CASE comp[c].pc = "group"
        BY <1>1, <3>1, <4>2 DEF shutdown_listener
      <4>3. CASE comp[c].pc \notin {"setup", "group"}
        <5> DEFINE new == [comp[c] EXCEPT !.run = FALSE]
        <5>1. new \in CompRecords /\ new.pc = comp[c].pc
          BY <1>1 DEF CompRecords
        <5>2. comp' = [comp EXCEPT ![c] = new]
          BY <3>1, <4>3 DEF shutdown_listener
        <5> HIDE DEF new
        <5> QED
          BY <1>1, <5>1, <5>2
      <4> QED
        BY <4>1, <4>2, <4>3
    <3>4. LeavesOwned
      BY <1>6, <3>3 DEF terminate_process, procVars, envVars, LeavesOwned, StartupTypes
    <3>5. \A d \in StoppedBefore[c] : Gone(d)'
      BY <2>1, <3>3 DEF Gone
    <3> QED
      BY <3>2, <3>4, <3>5 DEF InReverse, NotStartedYet
  <2> QED
    BY <2>2, <2>3
<1>7. ASSUME NEW c \in Components, wait(c)
      PROVE  LeavesOwned /\ starter' \in StarterRecords /\ InReverse' /\ NotStartedYet'
  <2>1. /\ starter.pc = "wait" /\ starter.at = c /\ Continue(c)
        /\ \A d \in StoppedBefore[c] : Gone(d)
        /\ StoppedBefore[c] \subseteq Components \ {c}
    BY <1>7 DEF wait, Waiting, InReverse, StoppedBefore, Components
  <2>2. /\ comp' \in [Components -> CompRecords]
        /\ \A d \in Components \ {c} : comp'[d] = comp[d]
        /\ comp'[c].pc = "exited"
        /\ forced' = forced \/ forced' = forced \cup {c}
        /\ comp[c].pc = "exited" \/ c \in forced'
    <3>1. CASE comp[c].pc = "exited"
      BY <1>1, <1>7, <3>1 DEF wait
    <3>2. CASE comp[c].pc # "exited"
      BY <1>7, <3>2, GotoFacts DEF wait, Goto, CompStates
    <3> QED
      BY <3>1, <3>2
  <2>3. LeavesOwned
    BY <1>7, <2>2 DEF wait, procVars, envVars, LeavesOwned, StartupTypes
  <2>4. Gone(c)' /\ \A d \in StoppedBefore[c] : Gone(d)'
    BY <2>1, <2>2 DEF Gone
  <2> QED
    BY <2>1, <2>3, <2>4, ContinueFacts
<1> QED
  BY <1>3, <1>4, <1>5, <1>6, <1>7 DEF StarterStep

LEMMA ShutdownKeepsInv ==
    ASSUME StartupInv, NEW ctrlC \in BOOLEAN, shutdown(ctrlC)
    PROVE  StartupInv'
<1> USE DEF StartupInv
<1>1. starter \in StarterRecords /\ comp \in [Components -> CompRecords]
  BY DEF StartupTypes, StarterRecords, CompRecords
<1>2. starter' \in StarterRecords /\ starter'.pc = starter.pc /\ starter'.at = starter.at
  BY <1>1 DEF shutdown, StarterRecords
<1>3. ASSUME NEW d \in Components
      PROVE  /\ comp'[d] \in CompRecords
             /\ comp'[d] = comp[d] \/ (comp[d].pc = "setup" /\ comp'[d].pc = "exited")
  <2> DEFINE new == [comp[d] EXCEPT !.pc = "exited"]
  <2>1. new \in CompRecords /\ new.pc = "exited"
    BY <1>1 DEF CompRecords, CompStates
  <2>2. comp'[d] = IF ctrlC /\ comp[d].pc = "setup" THEN new ELSE comp[d]
    BY DEF shutdown
  <2> HIDE DEF new
  <2> QED
    BY <1>1, <2>1, <2>2
<1>4. DOMAIN comp' = Components /\ comp' = [d \in Components |-> comp'[d]]
  BY DEF shutdown
<1>5. LeavesOwned
  BY <1>3, <1>4 DEF shutdown, procVars, envVars, LeavesOwned, StartupTypes
<1>6. Owned' /\ StartupTypes'
  BY <1>2, <1>5, StarterKeepsOwned DEF LeavesOwned, StartupTypes, StarterRecords, CompRecords
<1>7. /\ starter.at \in Components
      /\ \A d \in Components : StoppedBefore[d] \subseteq Components /\ ToStart[d] \subseteq Components
  BY <1>1 DEF StarterRecords, StoppedBefore, ToStart, Components
<1>8. \A d \in Components : /\ Gone(d) => Gone(d)'
                            /\ comp[d].pc = "absent" => comp'[d].pc = "absent"
  BY <1>3 DEF Gone
<1>9. InReverse' /\ NotStartedYet'
  BY <1>2, <1>7, <1>8 DEF InReverse, NotStartedYet
<1> QED
  BY <1>6, <1>9

\* Nothing of a component is left when nobody is forced and all have gone.
LEMMA StartupInvImplies == StartupInv => NothingLeftBehind
<1> SUFFICES ASSUME StartupInv, starter.pc = "exited", forced = {}
             PROVE  /\ \A c \in Components : Gone(c) /\ status[c] # "online"
                    /\ ~server /\ ~radare /\ ~workers
  BY DEF NothingLeftBehind
<1>1. \A c \in Components : comp[c].pc \in {"absent", "exited"}
  BY DEF StartupInv, InReverse, Gone
<1> QED
  BY <1>1 DEF StartupInv, Owned, Components, Gone

LEMMA StartupNextKeepsInv == StartupInv /\ [StartupNext]_startupVars => StartupInv'
<1> SUFFICES ASSUME StartupInv, [StartupNext]_startupVars PROVE StartupInv'
  OBVIOUS
<1>1. CASE UNCHANGED startupVars
  BY <1>1 DEF startupVars, StartupInv, StartupTypes, Owned, InReverse, NotStartedYet, Gone
<1>2. CASE Postgres
  BY <1>2 DEF Postgres, procVars, StartupInv, StartupTypes, Owned, InReverse, NotStartedYet, Gone
<1> QED
  BY <1>1, <1>2, StarterKeepsInv, ShutdownKeepsInv, EffectOfSteps, EffectKeepsInv
     DEF StartupNext, Exited

\* start_fact.py: if no component raised or had to be killed, the starter leaves
\* nothing behind, whenever the signal comes and whatever is installed.
THEOREM StarterLeavesNothing ==
    StartupInit /\ [][StartupNext]_startupVars => []NothingLeftBehind
<1>1. StartupInv /\ [StartupNext]_startupVars => StartupInv'
  BY StartupNextKeepsInv
<1> QED
  BY <1>1, StartupInitInv, StartupInvImplies, PTL

-----------------------------------------------------------------------------
(* migrate_database.py.  The committed table is good at any time, and what *)
(* the open transaction sees is good for the statement that comes next.    *)

UserRows == [user : Users, fs : Users \cup {"none"}]
UserTable == [columns : {"absent", "old", "nullable", "new"}, rows : SUBSET UserRows]
UserTablePair == [user : UserTable, user_tmp : UserTable]

\* Every user has a row, and where fs_uniquifier is demanded it is the user's.
Everybody(t) == {r.user : r \in t.rows} = Users
Unique(t) == \A r \in t.rows : r.fs = r.user
GoodTable(t) ==
    /\ t.columns # "absent" /\ Everybody(t)
    /\ t.columns = "new" => Unique(t)

\* The new table is there and still empty.
EmptyTmp == userWork.user_tmp.columns = NewColumns /\ userWork.user_tmp.rows = {}

AtStatement(s) ==
    /\ s # "rename" => GoodTable(userWork.user)
    /\ s = "update" => userWork.user.columns = "nullable"
    /\ s = "insert" => EmptyTmp
    /\ userJob.upgrade /\ s \in {"create", "insert"} => Unique(userWork.user)
    /\ s \in {"drop", "rename"} =>
          /\ userJob.open
          /\ userWork.user_tmp.columns = NewColumns /\ GoodTable(userWork.user_tmp)
    /\ s = "commit" => userJob.open

UserTypes ==
    /\ userDb \in UserTablePair /\ userWork \in UserTablePair
    /\ userJob \in [pc : {"idle", "running"}, upgrade : BOOLEAN, at : Nat, open : BOOLEAN]

UserInv ==
    /\ UserTypes
    /\ GoodTable(userDb.user)
    /\ ~ userJob.open => userWork = userDb
    /\ userJob.pc = "idle" => userWork = userDb
    /\ userJob.pc = "running" => userJob.at \in DOMAIN Script /\ AtStatement(Script[userJob.at])

UserUnchanged == UNCHANGED <<userDb, userWork, userJob>>

LEMMA UserInitInv == UpgradeInit => UserInv
<1> SUFFICES ASSUME UpgradeInit PROVE UserInv
  OBVIOUS
<1>1. PICK columns \in UserTables :
         userDb = [user |-> [columns |-> columns,
                             rows |-> {[user |-> u, fs |-> IF columns = "new" THEN u ELSE "none"] :
                                       u \in Users}],
                   user_tmp |-> AbsentTable]
  BY DEF UpgradeInit
<1> DEFINE rows == {[user |-> u, fs |-> IF columns = "new" THEN u ELSE "none"] : u \in Users}
           table == [columns |-> columns, rows |-> rows]
           row(u) == [user |-> u, fs |-> IF columns = "new" THEN u ELSE "none"]
<1>2. /\ rows \subseteq UserRows
      /\ {r.user : r \in rows} = Users
      /\ columns = "new" => \A r \in rows : r.fs = r.user
  <2>1. \A u \in Users : /\ row(u) \in UserRows /\ row(u).user = u
                         /\ columns = "new" => row(u).fs = row(u).user
    BY DEF UserRows
  <2>2. rows = {row(u) : u \in Users}
    OBVIOUS
  <2> HIDE DEF row, rows
  <2> QED
    BY <2>1, <2>2
<1>3. columns \in {"old", "nullable", "new"}
  BY UpgradeConstants
<1>4. userDb.user = table /\ userDb.user_tmp = AbsentTable
      /\ userDb = [user |-> table, user_tmp |-> AbsentTable]
  BY <1>1
<1> HIDE DEF rows
<1>5. table \in UserTable /\ AbsentTable \in UserTable /\ GoodTable(table)
  BY <1>2, <1>3 DEF UserTable, AbsentTable, GoodTable, Everybody, Unique
<1> HIDE DEF table
<1>6. userWork = userDb /\ userJob = IdleUserJob
  BY DEF UpgradeInit
<1> QED
  BY <1>4, <1>5, <1>6 DEF UserInv, UserTypes, UserTablePair, IdleUserJob

LEMMA UserUnchangedKeepsInv ==
    ASSUME UserInv, UserUnchanged
    PROVE  UserInv'
<1>1. userDb' = userDb /\ userWork' = userWork /\ userJob' = userJob
  BY DEF UserUnchanged
<1>2. Script' = Script /\ (EmptyTmp' <=> EmptyTmp) /\ NewColumns' = NewColumns
  BY <1>1 DEF Script, EmptyTmp, NewColumns
<1>3. AtStatement(Script[userJob.at])' <=> AtStatement(Script[userJob.at])
  BY <1>1, <1>2 DEF AtStatement
<1> QED
  BY <1>1, <1>2, <1>3 DEF UserInv, UserTypes

LEMMA StartUserMigrationKeepsInv ==
    ASSUME UserInv, NEW upgrade \in BOOLEAN, StartUserMigration(upgrade)
    PROVE  UserInv'
<1>1. /\ userDb' = userDb /\ userWork' = userWork /\ userWork = userDb
      /\ userJob' = [pc |-> "running", upgrade |-> upgrade, at |-> 1, open |-> FALSE]
  BY DEF StartUserMigration, UserInv
<1>2. UserTypes'
  BY <1>1 DEF UserInv, UserTypes
<1>3. /\ 1 \in DOMAIN Script'
      /\ Script'[1] = IF upgrade THEN "add_column" ELSE "create"
      /\ userJob'.upgrade = upgrade /\ userJob'.at = 1 /\ userJob'.open = FALSE
  BY <1>1 DEF Script, UpgradeStatements, DowngradeStatements
<1>4. AtStatement(Script[userJob.at])'
  BY <1>1, <1>3 DEF AtStatement, UserInv
<1> QED
  BY <1>1, <1>2, <1>3, <1>4 DEF UserInv

\* The program ends without a commit.
LEMMA UserStopKeepsInv ==
    ASSUME UserInv, userJob' = IdleUserJob, userWork' = userDb, userDb' = userDb
    PROVE  UserInv'
  BY DEF UserInv, UserTypes, IdleUserJob

\* What a statement makes of the tables.
LEMMA StatementFacts ==
    ASSUME UserInv, userJob.pc = "running", NEW s, s = Script[userJob.at], ~ Raises(s),
           userWork' = UserStatement(s)
    PROVE  /\ userWork' \in UserTablePair
           /\ s = "add_column" => /\ userWork'.user.columns = "nullable"
                                  /\ userWork'.user.rows = userWork.user.rows
                                  /\ userWork'.user_tmp = userWork.user_tmp
           /\ s = "update" => /\ userWork'.user.columns = userWork.user.columns
                              /\ Everybody(userWork'.user) /\ Unique(userWork'.user)
                              /\ userWork.user.rows = {} => userWork'.user.rows = {}
           /\ s = "create" => /\ userWork'.user = userWork.user
                              /\ userWork'.user_tmp = [columns |-> NewColumns, rows |-> {}]
           /\ s = "insert" => /\ userWork'.user = userWork.user
                              /\ userWork'.user_tmp.columns = NewColumns
                              /\ Everybody(userWork'.user_tmp)
                              /\ userJob.upgrade => Unique(userWork'.user_tmp)
           /\ s = "drop" => userWork'.user_tmp = userWork.user_tmp
           /\ s = "rename" => userWork'.user = userWork.user_tmp
           /\ s = "commit" => userWork' = userWork
<1> DEFINE u == userWork.user
           t == userWork.user_tmp
<1>1. /\ userWork = [user |-> u, user_tmp |-> t] /\ u \in UserTable /\ t \in UserTable
      /\ u = [columns |-> u.columns, rows |-> u.rows] /\ u.rows \subseteq UserRows
      /\ t = [columns |-> t.columns, rows |-> t.rows] /\ t.rows \subseteq UserRows
      /\ u.columns \in {"absent", "old", "nullable", "new"}
  BY DEF UserInv, UserTypes, UserTablePair, UserTable
<1>2. AtStatement(s)
  BY DEF UserInv
<1>3. NewColumns \in {"old", "new"} /\ {} \subseteq UserRows
  BY DEF NewColumns
<1> HIDE DEF u, t
<1>4. CASE s = "add_column"
  <2>1. userWork' = [userWork EXCEPT !.user.columns = "nullable"]
    BY <1>4 DEF UserStatement
  <2>2. userWork' = [user |-> [columns |-> "nullable", rows |-> u.rows], user_tmp |-> t]
    BY <1>1, <2>1 DEF u, t
  <2> QED
    BY <1>1, <1>4, <2>2 DEF UserTablePair, UserTable, u, t
<1>5. CASE s = "update"
  <2> DEFINE rows == {[r EXCEPT !.fs = r.user] : r \in u.rows}
  <2>1. userWork' = [userWork EXCEPT !.user.rows = {[r EXCEPT !.fs = r.user] : r \in @}]
    BY <1>5 DEF UserStatement
  <2>2. userWork' = [user |-> [columns |-> u.columns, rows |-> rows], user_tmp |-> t]
    BY <1>1, <2>1 DEF u, t
  <2>3. \A r \in u.rows : /\ [r EXCEPT !.fs = r.user] \in UserRows
                          /\ [r EXCEPT !.fs = r.user].fs = r.user
                          /\ [r EXCEPT !.fs = r.user].user = r.user
    BY <1>1 DEF UserRows
  <2>4. /\ rows \subseteq UserRows /\ \A r \in rows : r.fs = r.user
        /\ {r.user : r \in rows} = {r.user : r \in u.rows}
        /\ u.rows = {} => rows = {}
    <3>1. rows \subseteq UserRows /\ \A r \in rows : r.fs = r.user
      BY <2>3
    <3>2. \A x \in {r.user : r \in rows} : x \in {r.user : r \in u.rows}
      BY <2>3
    <3>3. \A x \in {r.user : r \in u.rows} : x \in {r.user : r \in rows}
      BY <2>3
    <3>4. u.rows = {} => rows = {}
      OBVIOUS
    <3> QED
      BY <3>1, <3>2, <3>3, <3>4
  <2>5. {r.user : r \in u.rows} = Users
    BY <1>2, <1>5 DEF AtStatement, GoodTable, Everybody, u
  <2> HIDE DEF rows
  <2> QED
    BY <1>1, <1>5, <2>2, <2>4, <2>5 DEF UserTablePair, UserTable, Everybody, Unique, u, t
<1>6. CASE s = "create"
  <2>1. userWork' = [user |-> u, user_tmp |-> [columns |-> NewColumns, rows |-> {}]]
    BY <1>1, <1>6 DEF UserStatement
  <2> QED
    BY <1>1, <1>3, <1>6, <2>1 DEF UserTablePair, UserTable, u
<1>7. CASE s = "insert"
  <2> DEFINE rows == IF userJob.upgrade THEN u.rows ELSE {[r EXCEPT !.fs = "none"] : r \in u.rows}
  <2>1. t.columns = NewColumns
    BY <1>2, <1>7 DEF AtStatement, EmptyTmp, t
  <2>2. userWork' = [userWork EXCEPT !.user_tmp.rows = rows]
    BY <1>7 DEF UserStatement, u
  <2>3. userWork' = [user |-> u, user_tmp |-> [columns |-> t.columns, rows |-> rows]]
    <3> HIDE DEF rows
    <3> QED
      BY <1>1, <2>2
  <2>4. \A r \in u.rows : /\ [r EXCEPT !.fs = "none"] \in UserRows
                          /\ [r EXCEPT !.fs = "none"].user = r.user
    BY <1>1 DEF UserRows
  <2>5. /\ rows \subseteq UserRows
        /\ {r.user : r \in rows} = {r.user : r \in u.rows}
    BY <1>1, <2>4
  <2>6. {r.user : r \in u.rows} = Users
    BY <1>2, <1>7 DEF AtStatement, GoodTable, Everybody, u
  <2>7. userJob.upgrade => rows = u.rows /\ \A r \in u.rows : r.fs = r.user
    BY <1>2, <1>7 DEF AtStatement, Unique, u
  <2> HIDE DEF rows
  <2> QED
    BY <1>1, <1>3, <1>7, <2>1, <2>3, <2>5, <2>6, <2>7
       DEF UserTablePair, UserTable, Everybody, Unique, u
<1>8. CASE s = "drop"
  <2>1. userWork' = [user |-> AbsentTable, user_tmp |-> t]
    BY <1>1, <1>8 DEF UserStatement
  <2>2. AbsentTable \in UserTable
    BY <1>3 DEF AbsentTable, UserTable
  <2> QED
    BY <1>1, <1>8, <2>1, <2>2 DEF UserTablePair, t
<1>9. CASE s = "rename"
  <2>1. userWork' = [user |-> t, user_tmp |-> AbsentTable]
    BY <1>9 DEF UserStatement, t
  <2>2. AbsentTable \in UserTable
    BY <1>3 DEF AbsentTable, UserTable
  <2> QED
    BY <1>1, <1>9, <2>1, <2>2 DEF UserTablePair, t
<1>10. CASE s = "commit"
  BY <1>10 DEF UserStatement, UserInv, UserTypes
<1>11. s \in {"add_column", "update", "create", "insert", "drop", "rename", "commit"}
  BY DEF UserInv, Script, UpgradeStatements, DowngradeStatements
<1> QED
  BY <1>4, <1>5, <1>6, <1>7, <1>8, <1>9, <1>10, <1>11

\* Where a program goes after a statement.
LEMMA ScriptFacts ==
    ASSUME UserInv, userJob.pc = "running"
    PROVE  LET s == Script[userJob.at]
               next == Script[userJob.at + 1]
           IN  /\ s # "commit" => userJob.at + 1 \in DOMAIN Script
               /\ s = "add_column" => next = "update" /\ userJob.upgrade
               /\ s = "update" => next = "create" /\ userJob.upgrade
               /\ s = "create" => next = "insert"
               /\ s = "insert" => next = "drop"
               /\ s = "drop" => next = "rename"
               /\ s = "rename" => next = "commit"
<1>1. userJob.at \in DOMAIN Script
  BY DEF UserInv
<1>2. CASE userJob.upgrade
  <2>1. DOMAIN Script = 1 .. 7 /\ Script = UpgradeStatements
    BY <1>2 DEF Script, UpgradeStatements
  <2>2. userJob.at \in {1, 2, 3, 4, 5, 6, 7}
    BY <1>1, <2>1
  <2> QED
    BY <1>2, <2>1, <2>2 DEF UpgradeStatements
<1>3. CASE ~ userJob.upgrade
  <2>1. DOMAIN Script = 1 .. 5 /\ Script = DowngradeStatements
    BY <1>3 DEF Script, DowngradeStatements
  <2>2. userJob.at \in {1, 2, 3, 4, 5}
    BY <1>1, <2>1
  <2> QED
    BY <1>3, <2>1, <2>2 DEF DowngradeStatements
<1> QED
  BY <1>2, <1>3

LEMMA UserStepKeepsInv ==
    ASSUME UserInv, UserStep
    PROVE  UserInv'
<1> DEFINE s == Script[userJob.at]
           stays == userJob.open \/ Opens(s)
<1>1. userJob.pc = "running"
  BY DEF UserStep
<1>2. CASE Raises(s)
  BY <1>2, UserStopKeepsInv DEF UserStep
<1>3. ASSUME ~ Raises(s), s = "commit"
      PROVE  UserInv'
  <2>1. userJob' = IdleUserJob /\ userWork' = userWork /\ userDb' = userWork
    BY <1>1, <1>3, StatementFacts DEF UserStep
  <2>2. GoodTable(userWork.user)
    BY <1>1, <1>3 DEF UserInv, AtStatement
  <2> QED
    BY <2>1, <2>2 DEF UserInv, UserTypes, IdleUserJob
<1>4. ASSUME ~ Raises(s), s # "commit"
      PROVE  UserInv'
  <2>1. /\ userWork' = UserStatement(s)
        /\ userDb' = IF stays THEN userDb ELSE userWork'
        /\ userJob' = [userJob EXCEPT !.at = @ + 1, !.open = stays]
    BY <1>4 DEF UserStep
  <2>2. stays \in BOOLEAN
    <3>1. userJob.open = TRUE \/ userJob.open = FALSE
      BY DEF UserInv, UserTypes
    <3>2. CASE userJob.open = TRUE
      BY <3>2
    <3>3. CASE userJob.open = FALSE
      BY <3>3 DEF Opens
    <3> HIDE DEF stays
    <3> QED
      BY <3>1, <3>2, <3>3
  <2> HIDE DEF stays
  <2>3. PICK o \in BOOLEAN : o = stays
    BY <2>2
  <2>4. /\ userJob' = [userJob EXCEPT !.at = @ + 1, !.open = o]
        /\ userDb' = IF o THEN userDb ELSE userWork'
    BY <2>1, <2>3
  <2>5. /\ userJob' \in [pc : {"idle", "running"}, upgrade : BOOLEAN, at : Nat, open : BOOLEAN]
        /\ userJob'.pc = "running" /\ userJob'.upgrade = userJob.upgrade
        /\ userJob'.at = userJob.at + 1 /\ userJob'.open = o
    <3>1. userJob \in [pc : {"idle", "running"}, upgrade : BOOLEAN, at : Nat, open : BOOLEAN]
      BY DEF UserInv, UserTypes
    <3>2. userJob.at + 1 \in Nat
      BY <3>1
    <3> QED
      BY <1>1, <2>4, <3>1, <3>2
  <2>6. Script' = Script /\ NewColumns' = NewColumns
    BY <2>5 DEF Script, NewColumns
  <2>7. UserTypes'
    BY <1>1, <1>4, <2>1, <2>5, StatementFacts DEF UserInv, UserTypes
  <2>8. AtStatement(s)
    BY <1>1 DEF UserInv
  <2>9. s \in {"add_column", "update", "create", "insert", "drop", "rename"}
    BY <1>1, <1>4 DEF UserInv, Script, UpgradeStatements, DowngradeStatements
  <2>10. s \in {"insert", "drop", "rename"} => o
    <3>1. s \in {"insert", "drop", "rename"} => stays
      BY <2>8 DEF stays, Opens, AtStatement
    <3> QED
      BY <2>3, <3>1
  <2>11. /\ s \in {"add_column", "update", "create", "insert"} => GoodTable(userWork'.user)
         /\ s = "rename" => GoodTable(userWork'.user)
    BY <1>1, <1>4, <2>1, <2>8, StatementFacts DEF AtStatement, GoodTable, Everybody, Unique
  <2>12. GoodTable(userDb'.user)
    BY <2>4, <2>9, <2>10, <2>11 DEF UserInv
  <2>13. ~ o => userWork' = userDb'
    BY <2>4
  <2>14. PICK next : next = Script[userJob.at + 1]
    OBVIOUS
  <2>15. PICK this : this = s
    OBVIOUS
  <2>16. next = Script'[userJob'.at] /\ userJob'.at \in DOMAIN Script'
    BY <1>1, <1>4, <2>5, <2>6, <2>14, ScriptFacts
  <2>17. /\ this = "add_column" => next = "update" /\ userJob.upgrade
         /\ this = "update" => next = "create" /\ userJob.upgrade
         /\ this = "create" => next = "insert"
         /\ this = "insert" => next = "drop"
         /\ this = "drop" => next = "rename"
         /\ this = "rename" => next = "commit"
    BY <1>1, <2>14, <2>15, ScriptFacts
  <2>18. /\ AtStatement(this)
         /\ this \in {"add_column", "update", "create", "insert", "drop", "rename"}
         /\ this \in {"insert", "drop", "rename"} => userJob'.open
         /\ this # "drop" => GoodTable(userWork'.user)
    BY <2>5, <2>8, <2>9, <2>10, <2>11, <2>15
  <2>19. /\ this = "add_column" => userWork'.user.columns = "nullable"
         /\ this = "update" => Unique(userWork'.user)
         /\ this = "create" => /\ userWork'.user = userWork.user
                               /\ userWork'.user_tmp = [columns |-> NewColumns, rows |-> {}]
         /\ this = "insert" => /\ userWork'.user_tmp.columns = NewColumns
                               /\ Everybody(userWork'.user_tmp)
                               /\ userJob.upgrade => Unique(userWork'.user_tmp)
         /\ this = "drop" => userWork'.user_tmp = userWork.user_tmp
    BY <1>1, <1>4, <2>1, <2>15, StatementFacts
  <2> HIDE DEF s
  <2>20. AtStatement(next)'
    <3>1. CASE this = "add_column"
      BY <2>17, <2>18, <2>19, <3>1 DEF AtStatement
    <3>2. CASE this = "update"
      BY <2>17, <2>18, <2>19, <3>2 DEF AtStatement
    <3>3. CASE this = "create"
      <4>1. EmptyTmp'
        BY <2>6, <2>19, <3>3 DEF EmptyTmp
      <4> QED
        BY <2>5, <2>17, <2>18, <2>19, <3>3, <4>1 DEF AtStatement
    <3>4. CASE this = "insert"
      <4>1. GoodTable(userWork'.user_tmp)
        BY <2>19, <3>4 DEF GoodTable, NewColumns
      <4> QED
        BY <2>6, <2>17, <2>18, <2>19, <3>4, <4>1 DEF AtStatement
    <3>5. CASE this = "drop"
      BY <2>6, <2>17, <2>18, <2>19, <3>5 DEF AtStatement
    <3>6. CASE this = "rename"
      BY <2>17, <2>18, <3>6 DEF AtStatement
    <3> QED
      BY <2>18, <3>1, <3>2, <3>3, <3>4, <3>5, <3>6
  <2>21. AtStatement(Script[userJob.at])'
    BY <2>16, <2>20
  <2> QED
    BY <2>5, <2>7, <2>12, <2>13, <2>16, <2>21 DEF UserInv
<1> QED
  BY <1>2, <1>3, <1>4

\* A killed program loses what it did not commit; a table that demands a
\* fs_uniquifier has the user's own.
LEMMA UserInvImplies == UserInv => UsersSurvive
<1> SUFFICES ASSUME UserInv PROVE UsersSurvive
  OBVIOUS
<1>1. GoodTable(userDb.user) /\ userDb.user.rows \subseteq UserRows
  BY DEF UserInv, UserTypes, UserTablePair, UserTable
<1>2. "none" \notin Users
  BY UpgradeConstants
<1>3. ASSUME Unique(userDb.user), NEW r \in userDb.user.rows, NEW t \in userDb.user.rows
      PROVE  r.fs # "none" /\ (r.fs = t.fs => r = t)
  BY <1>1, <1>2, <1>3 DEF Unique, UserRows
<1> QED
  BY <1>1, <1>3 DEF GoodTable, Everybody, UsersSurvive

LEMMA UserNextKeepsInv == UserInv /\ [UpgradeNext]_upgradeVars => UserInv'
<1> SUFFICES ASSUME UserInv, [UpgradeNext]_upgradeVars PROVE UserInv'
  OBVIOUS
<1>1. CASE UserUnchanged
  BY <1>1, UserUnchangedKeepsInv
<1>2. CASE Kill
  BY <1>2, UserStopKeepsInv DEF Kill
<1>3. ASSUME ~ UserUnchanged, ~ Kill, ~ UserStep
      PROVE  \E upgrade \in BOOLEAN : StartUserMigration(upgrade)
  BY <1>3 DEF UpgradeNext, upgradeVars, UserUnchanged, StartInit, InitStep, StartMigration, Return,
              EndMigration, VisitKnown, VisitNew, MigrateComparison
<1> QED
  BY <1>1, <1>2, <1>3, StartUserMigrationKeepsInv, UserStepKeepsInv

-----------------------------------------------------------------------------
(* migrate_db_to_postgresql.py: what the migration puts into the database  *)
(* comes from MongoDB, and what it has gone past is there.                 *)

\* The files an object includes, as far as they are known.
Kids(u) == FilesIncluded[u] \cap FileObjects

Reached == UNION {Below(fw) : fw \in Firmwares}

\* What may be in the new database at any time.
AnalysesSound ==
    /\ \A s \in store.analyses : \E u \in store.files : \E a \in Converted(u) :
          s = [uid |-> u, analysis |-> a]
    /\ \A u \in store.files : \A a \in Converted(u) : [uid |-> u, analysis |-> a] \in store.analyses

StoreRecords ==
    [files : SUBSET Uids, firmware : SUBSET Uids, parents : SUBSET (Uids \X Uids),
     roots : SUBSET (Uids \X Uids),
     analyses : SUBSET [uid : Uids, analysis : AnalysisRecords],
     comparisons : SUBSET CompareResults]

StoreTypes == store \in StoreRecords

StoreSound ==
    /\ StoreTypes
    /\ store.files \subseteq Reached
    /\ store.files \ FileObjects \subseteq store.firmware
    /\ \A l \in store.roots : \E v, r \in Uids :
          /\ l = <<v, r>> /\ r \in Firmwares /\ v \in FileObjects
          /\ \E k \in Kids(r) : v \in Below(k)
    /\ \A l \in store.parents : \E v, g \in Uids :
          l = <<v, g>> /\ g \in Reached /\ v \in Kids(g)
    /\ AnalysesSound
    /\ \A c \in store.comparisons : c \subseteq store.files

\* The file v has been visited in g, below the firmware r ...
Linked(v, g, r) ==
    v \in store.files /\ <<v, r>> \in store.roots /\ <<v, g>> \in store.parents

\* ... and so has everything below u.
Done(u, r) == \A g \in Below(u) : \A v \in Kids(g) : Linked(v, g, r)

AllDone == \A fw \in Firmwares : fw \in store.files /\ Done(fw, fw)

\* The entries of a query, and the root firmware of one of them.
Items(f) == IF f.root THEN Firmwares ELSE Kids(f.parentUid)
RootOf(f, v) == IF f.root THEN v ELSE f.rootUid
Seen(f, v) == v \in store.files /\ (~ f.root => Linked(v, f.parentUid, f.rootUid))

Frames == [todo : SUBSET Uids, root : BOOLEAN, rootUid : Uids \cup {NoUid},
           parentUid : Uids \cup {NoUid}]

\* A frame: which firmware and which file it is for, and that what is not on its
\* list any more has been visited.
FrameSound(f) ==
    /\ f \in Frames
    /\ f.todo \subseteq Items(f)
    /\ f.root => f.parentUid = NoUid
    /\ ~ f.root => /\ f.rootUid \in Firmwares \cap store.files
                   /\ f.parentUid \in store.files
                   /\ f.parentUid \in Below(f.rootUid)
    /\ \A v \in Items(f) \ f.todo : Seen(f, v)

\* A call is for an entry that is not on the list of the frame below it any more.
CalledFrom(g, f) ==
    /\ ~ g.root
    /\ g.parentUid \in Items(f) \ f.todo
    /\ g.rootUid = RootOf(f, g.parentUid)

\* Everything below an entry has been visited, if the call for it has returned.
Settled(f, except) ==
    \A v \in Items(f) \ f.todo : v \in except \/ Done(v, RootOf(f, v))

StackSound(stack) ==
    /\ \A i \in 1 .. Len(stack) : FrameSound(stack[i])
    /\ stack # << >> => Settled(stack[1], {}) /\ stack[Len(stack)].root
    /\ \A i \in 1 .. Len(stack) : i > 1 =>
          /\ CalledFrom(stack[i - 1], stack[i])
          /\ Settled(stack[i], {stack[i - 1].parentUid})

MigrationInv ==
    /\ mongo \in MongoContents
    /\ StoreSound
    /\ migration \in [pc : {"idle", "running", "aborted", "done"}, stack : Seq(Frames)]
    /\ migration.pc = "running" => StackSound(migration.stack)
    /\ migration.pc = "running" /\ migration.stack = << >> => AllDone
    /\ migration.pc = "done" =>
          AllDone /\ \A c \in CompareResults : c \subseteq store.files => c \in store.comparisons

LEMMA MongoFacts ==
    ASSUME mongo \in MongoContents
    PROVE  /\ NoUid \notin Uids
           /\ Firmwares \subseteq Uids /\ FileObjects \subseteq Uids
           /\ \A u \in Uids : Kids(u) \subseteq FileObjects
           /\ \A S \in SUBSET Uids : S # {} => \E u \in S : FilesIncluded[u] \cap S = {}
           /\ Analyses \in [Uids -> SUBSET AnalysisRecords]
  BY UpgradeConstants DEF Uids, Firmwares, FileObjects, FilesIncluded, Analyses, Kids

(***************************************************************************)
(* What is below an object.                                                *)
(***************************************************************************)
LEMMA BelowIsLeast ==
    ASSUME NEW u \in Uids, NEW S \in SUBSET Uids, u \in S, Closed(S)
    PROVE  Below(u) \subseteq S
  BY DEF Below

LEMMA BelowFacts ==
    ASSUME mongo \in MongoContents, NEW u \in Uids
    PROVE  /\ Below(u) \subseteq Uids /\ u \in Below(u)
           /\ \A g \in Below(u) : Kids(g) \subseteq Below(u)
           /\ \A g \in Below(u) : Below(g) \subseteq Below(u)
<1>1. Below(u) \subseteq Uids /\ u \in Below(u)
  BY DEF Below
<1>2. ASSUME NEW g \in Below(u), NEW v \in Kids(g)
      PROVE  v \in Below(u)
  <2>1. v \in Uids
    BY <1>1, MongoFacts
  <2>2. \A S \in SUBSET Uids : u \in S /\ Closed(S) => g \in S /\ v \in S
    BY DEF Below, Closed, Kids
  <2> QED
    BY <2>1, <2>2 DEF Below
<1>3. Closed(Below(u))
  BY <1>2 DEF Closed, Kids
<1>4. \A g \in Below(u) : Below(g) \subseteq Below(u)
  BY <1>1, <1>3, BelowIsLeast
<1> QED
  BY <1>1, <1>2, <1>4

\* What is below an object is the object or below a file in it.
LEMMA BelowKids ==
    ASSUME mongo \in MongoContents, NEW u \in Uids, NEW v \in Below(u), v # u
    PROVE  \E k \in Kids(u) : v \in Below(k)
<1> DEFINE S == {u} \cup UNION {Below(k) : k \in Kids(u)}
<1>1. Kids(u) \subseteq Uids
  BY MongoFacts
<1>2. \A k \in Kids(u) : Below(k) \subseteq Uids /\ k \in Below(k)
                         /\ \A g \in Below(k) : Kids(g) \subseteq Below(k)
  BY <1>1, BelowFacts
<1>3. S \subseteq Uids /\ u \in S
  BY <1>2
<1>4. ASSUME NEW g \in S PROVE Kids(g) \subseteq S
  BY <1>2
<1>5. Closed(S)
  BY <1>4 DEF Closed, Kids
<1>6. v \in S
  BY <1>3, <1>5, BelowIsLeast
<1> QED
  BY <1>6

\* Nothing is below itself.
LEMMA BelowAcyclic ==
    ASSUME mongo \in MongoContents, NEW u \in Uids, NEW k \in Kids(u)
    PROVE  u \notin Below(k)
<1> SUFFICES ASSUME u \in Below(k) PROVE FALSE
  OBVIOUS
<1> DEFINE S == {x \in Below(u) : u \in Below(x)}
<1>1. /\ Below(u) \subseteq Uids /\ u \in Below(u)
      /\ \A g \in Below(u) : Kids(g) \subseteq Below(u)
  BY BelowFacts
<1>2. S \subseteq Uids /\ S # {}
  BY <1>1
<1>3. PICK x \in S : FilesIncluded[x] \cap S = {}
  <2> HIDE DEF S
  <2> QED
    BY <1>2, MongoFacts
<1>4. \E y \in Kids(x) : u \in Below(y)
  BY <1>1, BelowKids
<1>5. PICK y \in Kids(x) : u \in Below(y)
  BY <1>4
<1>6. y \in S /\ y \in FilesIncluded[x]
  BY <1>1, <1>5 DEF Kids
<1> QED
  BY <1>3, <1>6

\* Below a file there are files.
LEMMA BelowAreFiles ==
    ASSUME mongo \in MongoContents, NEW u \in FileObjects
    PROVE  Below(u) \subseteq FileObjects
<1>1. FileObjects \subseteq Uids /\ Closed(FileObjects)
  BY MongoFacts DEF Closed
<1> QED
  BY <1>1, BelowIsLeast

(***************************************************************************)
(* What becomes of the analyses.                                           *)
(***************************************************************************)
ValueRecords == [type : {"text", "nul", "bytes"}, in : {"list", "dict"}, key : ResultKeys,
                 utf8 : BOOLEAN]
TextOnly(a) == \A v \in a.values : v.type = "text"

LEMMA RetrieveFacts ==
    ASSUME NEW a \in AnalysisRecords
    PROVE  retrieve_analysis(a) \in AnalysisRecords
<1>1. \A v \in a.values : [v EXCEPT !.type = "text"] \in ValueRecords
  BY DEF AnalysisRecords, ValueRecords
<1> DEFINE values == {[v EXCEPT !.type = "text"] : v \in a.values}
<1>2. values \subseteq ValueRecords
  BY <1>1
<1> HIDE DEF values
<1>3. [a EXCEPT !.values = values] \in AnalysisRecords
  BY <1>2 DEF AnalysisRecords, ValueRecords
<1>4. retrieve_analysis(a) \in {a, [a EXCEPT !.values = values]}
  BY DEF retrieve_analysis, values
<1> QED
  BY <1>3, <1>4

LEMMA FixedFacts ==
    ASSUME NEW r \in AnalysisRecords
    PROVE  LET b == [r EXCEPT !.values = {Fixed(v) : v \in r.values}]
           IN  b \in AnalysisRecords /\ TextOnly(b)
<1>1. \A v \in r.values : Fixed(v) \in ValueRecords /\ Fixed(v).type = "text"
  BY DEF AnalysisRecords, ValueRecords, Fixed
<1> DEFINE values == {Fixed(v) : v \in r.values}
           b == [r EXCEPT !.values = values]
<1>2. values \subseteq ValueRecords /\ \A v \in values : v.type = "text"
  BY <1>1
<1> HIDE DEF values
<1>3. b \in AnalysisRecords /\ b.values = values
  BY <1>2 DEF AnalysisRecords, ValueRecords
<1>4. TextOnly(b)
  BY <1>2, <1>3 DEF TextOnly
<1> QED
  BY <1>3, <1>4 DEF values

LEMMA MissingFieldsFacts ==
    ASSUME NEW b \in AnalysisRecords
    PROVE  /\ check_for_missing_fields(b) \in AnalysisRecords
           /\ check_for_missing_fields(b).complete
           /\ TextOnly(b) => TextOnly(check_for_missing_fields(b))
  BY DEF check_for_missing_fields, AnalysisRecords, TextOnly

LEMMA MigratePluginFacts ==
    ASSUME NEW b \in AnalysisRecords
    PROVE  /\ migrate_plugin(b) \in AnalysisRecords
           /\ migrate_plugin(b).complete = b.complete
           /\ TextOnly(b) => TextOnly(migrate_plugin(b))
<1>1. \A v \in b.values : /\ [v EXCEPT !.key = "architectures"] \in ValueRecords
                          /\ [v EXCEPT !.key = "architectures"].type = v.type
  <2>1. b.values \subseteq ValueRecords
    BY DEF AnalysisRecords, ValueRecords
  <2>2. "architectures" \in ResultKeys
    BY UpgradeConstants
  <2> QED
    BY <2>1, <2>2 DEF ValueRecords
<1> DEFINE values == {[v EXCEPT !.key = "architectures"] : v \in b.values}
           d == [b EXCEPT !.values = values]
<1>2. values \subseteq ValueRecords /\ (TextOnly(b) => \A v \in values : v.type = "text")
  BY <1>1 DEF TextOnly
<1> HIDE DEF values
<1>3. d \in AnalysisRecords /\ d.values = values /\ d.complete = b.complete
  BY <1>2 DEF AnalysisRecords, ValueRecords
<1>4. TextOnly(b) => TextOnly(d)
  BY <1>2, <1>3 DEF TextOnly
<1>5. migrate_plugin(b) \in {b, d}
  BY DEF migrate_plugin, values
<1> QED
  BY <1>3, <1>4, <1>5

LEMMA ConvertedFacts ==
    ASSUME mongo \in MongoContents, NEW u \in Uids
    PROVE  /\ \A a \in Converted(u) : a \in AnalysisRecords /\ a.complete /\ TextOnly(a)
           /\ Converted(u) = {} <=> Analyses[u] = {}
<1> DEFINE step(a) == [retrieve_analysis(a) EXCEPT
                          !.values = {Fixed(v) : v \in retrieve_analysis(a).values}]
           whole(a) == migrate_plugin(check_for_missing_fields(step(a)))
<1>1. Converted(u) = {whole(a) : a \in Analyses[u]}
  BY DEF Converted
<1>2. Analyses[u] \subseteq AnalysisRecords
  BY MongoFacts
<1>3. ASSUME NEW a \in Analyses[u]
      PROVE  whole(a) \in AnalysisRecords /\ whole(a).complete /\ TextOnly(whole(a))
  <2>1. step(a) \in AnalysisRecords /\ TextOnly(step(a))
    BY <1>2, <1>3, RetrieveFacts, FixedFacts
  <2> HIDE DEF step
  <2>2. /\ check_for_missing_fields(step(a)) \in AnalysisRecords
        /\ check_for_missing_fields(step(a)).complete
        /\ TextOnly(check_for_missing_fields(step(a)))
    BY <2>1, MissingFieldsFacts
  <2> QED
    BY <2>2, MigratePluginFacts
<1> HIDE DEF whole
<1> QED
  BY <1>1, <1>3

(***************************************************************************)
(* MongoDB does not change.                                                *)
(***************************************************************************)
LEMMA MongoStays ==
    ASSUME mongo' = mongo
    PROVE  /\ Uids' = Uids /\ Firmwares' = Firmwares /\ FileObjects' = FileObjects
           /\ CompareResults' = CompareResults /\ Reached' = Reached
           /\ \A u : /\ Kids(u)' = Kids(u) /\ Below(u)' = Below(u)
                     /\ Converted(u)' = Converted(u)
<1>1. /\ Uids' = Uids /\ Firmwares' = Firmwares /\ FileObjects' = FileObjects
      /\ FilesIncluded' = FilesIncluded /\ Analyses' = Analyses
      /\ CompareResults' = CompareResults
  BY DEF Uids, Firmwares, FileObjects, FilesIncluded, Analyses, CompareResults
<1>2. ASSUME NEW u PROVE Kids(u)' = Kids(u)
  BY <1>1 DEF Kids
<1>3. \A S : Closed(S)' <=> Closed(S)
  BY <1>1 DEF Closed
<1>4. ASSUME NEW u PROVE Below(u)' = Below(u)
  BY <1>1, <1>3 DEF Below
<1>5. ASSUME NEW u PROVE Converted(u)' = Converted(u)
  BY <1>1 DEF Converted
<1>6. Reached' = Reached
  BY <1>1, <1>4 DEF Reached
<1> QED
  BY <1>1, <1>2, <1>4, <1>5, <1>6

(***************************************************************************)
(* The new database only grows, and so what has been visited stays so.     *)
(***************************************************************************)
Grows ==
    /\ mongo' = mongo
    /\ store.files \subseteq store'.files
    /\ store.roots \subseteq store'.roots
    /\ store.parents \subseteq store'.parents

LEMMA DoneStays ==
    ASSUME Grows, NEW u, NEW r, Done(u, r)
    PROVE  Done(u, r)'
<1>1. Below(u)' = Below(u) /\ \A g : Kids(g)' = Kids(g)
  BY MongoStays DEF Grows
<1>2. \A v, g : Linked(v, g, r) => Linked(v, g, r)'
  BY DEF Linked, Grows
<1> QED
  BY <1>1, <1>2 DEF Done

LEMMA AllDoneStays ==
    ASSUME Grows, AllDone
    PROVE  AllDone'
<1>1. Firmwares' = Firmwares
  BY MongoStays DEF Grows
<1>2. \A fw \in Firmwares : Done(fw, fw)'
  BY DoneStays DEF AllDone
<1> QED
  BY <1>1, <1>2 DEF AllDone, Grows

LEMMA FrameStays ==
    ASSUME Grows, NEW f
    PROVE  /\ Items(f)' = Items(f)
           /\ \A v : Seen(f, v) => Seen(f, v)'
           /\ FrameSound(f) => FrameSound(f)'
           /\ \A e : Settled(f, e) => Settled(f, e)'
           /\ \A g : CalledFrom(g, f) => CalledFrom(g, f)'
<1>1. /\ Uids' = Uids /\ Firmwares' = Firmwares
      /\ Kids(f.parentUid)' = Kids(f.parentUid)
      /\ Below(f.rootUid)' = Below(f.rootUid)
  BY MongoStays DEF Grows
<1>2. Items(f)' = Items(f)
  BY <1>1 DEF Items
<1>3. \A v : Seen(f, v) => Seen(f, v)'
  BY DEF Seen, Linked, Grows
<1>4. Frames' = Frames
  BY <1>1 DEF Frames
<1>5. FrameSound(f) => FrameSound(f)'
  BY <1>1, <1>2, <1>3, <1>4 DEF FrameSound, Grows
<1>6. \A v : RootOf(f, v)' = RootOf(f, v)
  BY DEF RootOf
<1>7. ASSUME NEW e, Settled(f, e) PROVE Settled(f, e)'
  <2>1. ASSUME NEW v \in Items(f) \ f.todo, v \notin e
        PROVE  Done(v, RootOf(f, v))'
    <3>1. Done(v, RootOf(f, v))
      BY <1>7, <2>1 DEF Settled
    <3> QED
      BY <1>6, <3>1, DoneStays
  <2> QED
    BY <1>2, <2>1 DEF Settled
<1>8. ASSUME NEW g, CalledFrom(g, f) PROVE CalledFrom(g, f)'
  BY <1>2, <1>6, <1>8 DEF CalledFrom
<1> QED
  BY <1>2, <1>3, <1>5, <1>7, <1>8

(***************************************************************************)
(* A call returns: what is below its object has been visited.              *)
(***************************************************************************)
LEMMA CallIsDone ==
    ASSUME mongo \in MongoContents, NEW f, FrameSound(f), ~ f.root, f.todo = {},
           Settled(f, {}), f.parentUid \in Uids
    PROVE  Done(f.parentUid, f.rootUid)
<1> DEFINE p == f.parentUid
           r == f.rootUid
<1>1. ASSUME NEW k \in Kids(p) PROVE Linked(k, p, r) /\ Done(k, r)
  BY <1>1 DEF FrameSound, Seen, Settled, Items, RootOf
<1>2. ASSUME NEW g \in Below(p), NEW v \in Kids(g) PROVE Linked(v, g, r)
  <2>1. CASE g = p
    BY <1>1, <1>2, <2>1
  <2>2. CASE g # p
    <3>1. PICK k \in Kids(p) : g \in Below(k)
      BY <1>2, <2>2, BelowKids
    <3> QED
      BY <1>1, <1>2, <3>1 DEF Done
  <2> QED
    BY <2>1, <2>2
<1> QED
  BY <1>2 DEF Done

\* The top of the stack is taken off.
LEMMA ReturnSound ==
    ASSUME mongo \in MongoContents, NEW s \in Seq(Frames), s # << >>, StackSound(s),
           s[1].todo = {}
    PROVE  /\ Tail(s) \in Seq(Frames) /\ StackSound(Tail(s))
           /\ Tail(s) = << >> => AllDone
<1> DEFINE t == Tail(s)
<1>1. /\ t \in Seq(Frames) /\ Len(s) \in Nat /\ Len(s) >= 1 /\ Len(t) = Len(s) - 1
      /\ \A i \in 1 .. Len(t) : t[i] = s[i + 1] /\ i + 1 \in 1 .. Len(s)
      /\ 1 \in 1 .. Len(s) /\ Len(s) \in 1 .. Len(s)
  OBVIOUS
<1>2. FrameSound(s[1]) /\ Settled(s[1], {}) /\ s[Len(s)].root
  BY <1>1 DEF StackSound
<1>3. CASE Len(s) = 1
  <2>1. t = << >> /\ StackSound(t)
    BY <1>1, <1>3 DEF StackSound
  <2>2. s[1].root
    BY <1>2, <1>3
  <2>3. AllDone
    BY <1>2, <2>2 DEF AllDone, FrameSound, Settled, Items, RootOf, Seen
  <2> QED
    BY <1>1, <2>1, <2>3
<1>4. CASE Len(s) # 1
  <2>1. Len(s) >= 2 /\ 2 \in 1 .. Len(s) /\ t # << >> /\ t[1] = s[2] /\ t[Len(t)] = s[Len(s)]
    <3>1. Len(s) >= 2 /\ Len(t) >= 1 /\ 2 \in 1 .. Len(s)
      BY <1>1, <1>4
    <3>2. /\ 1 \in 1 .. Len(t) /\ Len(t) \in 1 .. Len(t)
          /\ t # << >>
      <4> HIDE DEF t
      <4>1. Len(t) # 0 /\ Len(t) \in Nat
        BY <1>1, <3>1
      <4>2. Len(<< >>) = 0
        OBVIOUS
      <4> QED
        BY <3>1, <4>1, <4>2
    <3>3. t[1] = s[1 + 1] /\ t[Len(t)] = s[Len(t) + 1] /\ Len(t) + 1 = Len(s) /\ 1 + 1 = 2
      BY <1>1, <3>2
    <3> QED
      BY <3>1, <3>2, <3>3
  <2>2. CalledFrom(s[1], s[2]) /\ Settled(s[2], {s[1].parentUid})
    <3>1. ASSUME NEW i \in 1 .. Len(s), NEW j, i > 1, j = i - 1
          PROVE  CalledFrom(s[j], s[i]) /\ Settled(s[i], {s[j].parentUid})
      BY <3>1 DEF StackSound
    <3>2. 2 > 1 /\ 1 = 2 - 1
      OBVIOUS
    <3> QED
      BY <2>1, <3>1, <3>2
  <2>3. Done(s[1].parentUid, RootOf(s[2], s[1].parentUid))
    <3>1. s[1].parentUid \in Uids /\ ~ s[1].root
          /\ s[1].rootUid = RootOf(s[2], s[1].parentUid)
      <4>1. s[1].parentUid \in Items(s[2])
        BY <2>2 DEF CalledFrom
      <4>2. s[2] \in Frames /\ FrameSound(s[2])
        BY <2>1 DEF StackSound
      <4>3. Items(s[2]) \subseteq Uids
        BY MongoFacts DEF Items, Kids
      <4> QED
        BY <2>2, <4>1, <4>3 DEF CalledFrom
    <3> QED
      BY <1>2, <3>1, CallIsDone
  <2>4. Settled(s[2], {})
    BY <2>2, <2>3 DEF Settled
  <2>5. \A i \in 1 .. Len(t) : FrameSound(t[i])
    BY <1>1 DEF StackSound
  <2>6. ASSUME NEW i \in 1 .. Len(t), i > 1
        PROVE  CalledFrom(t[i - 1], t[i]) /\ Settled(t[i], {t[i - 1].parentUid})
    <3>1. i - 1 \in 1 .. Len(t) /\ t[i] = s[i + 1] /\ t[i - 1] = s[i]
          /\ i + 1 \in 1 .. Len(s) /\ i + 1 > 1 /\ (i + 1) - 1 = i
      BY <1>1, <2>6
    <3>2. \A j \in 1 .. Len(s) : j > 1 =>
              CalledFrom(s[j - 1], s[j]) /\ Settled(s[j], {s[j - 1].parentUid})
      BY DEF StackSound
    <3>3. CalledFrom(s[(i + 1) - 1], s[i + 1]) /\ Settled(s[i + 1], {s[(i + 1) - 1].parentUid})
      BY <3>1, <3>2
    <3> QED
      BY <3>1, <3>3
  <2> QED
    BY <1>1, <1>2, <2>1, <2>4, <2>5, <2>6 DEF StackSound
<1> QED
  BY <1>3, <1>4

(***************************************************************************)
(* An entry is taken off the list of the query on the top, and the files   *)
(* in it are called for.                                                   *)
(***************************************************************************)
CallFor(f, uid, c) ==
    /\ c.todo = Kids(uid) /\ ~ c.root
    /\ c.rootUid = RootOf(f, uid) /\ c.parentUid = uid

RestOf(f, uid, rest) ==
    /\ rest.todo = f.todo \ {uid} /\ rest.root = f.root /\ rest.parentUid = f.parentUid
    /\ ~ f.root => rest.rootUid = f.rootUid

\* The firmware for which an entry is visited.
LEMMA RootOfFacts ==
    ASSUME mongo \in MongoContents, NEW f, FrameSound(f), NEW uid \in f.todo
    PROVE  /\ uid \in Items(f) /\ uid \in Uids
           /\ RootOf(f, uid) \in Firmwares /\ RootOf(f, uid) \in Uids
           /\ uid \in Below(RootOf(f, uid))
           /\ ~ f.root => /\ uid \in FileObjects /\ uid \in Kids(f.parentUid)
                          /\ f.parentUid \in Below(f.rootUid)
<1>1. uid \in Items(f)
  BY DEF FrameSound
<1>2. CASE f.root
  <2>1. uid \in Firmwares /\ RootOf(f, uid) = uid
    BY <1>1, <1>2 DEF Items, RootOf
  <2> QED
    BY <1>1, <1>2, <2>1, MongoFacts, BelowFacts
<1>3. CASE ~ f.root
  <2>1. uid \in Kids(f.parentUid) /\ RootOf(f, uid) = f.rootUid
    BY <1>1, <1>3 DEF Items, RootOf
  <2>2. f.rootUid \in Firmwares /\ f.parentUid \in Below(f.rootUid)
    BY <1>3 DEF FrameSound
  <2>3. f.rootUid \in Uids
    BY <2>2, MongoFacts
  <2>4. uid \in Below(f.rootUid) /\ uid \in FileObjects /\ uid \in Uids
    BY <2>1, <2>2, <2>3, BelowFacts, MongoFacts DEF Kids
  <2> QED
    BY <1>1, <1>3, <2>1, <2>2, <2>3, <2>4
<1> QED
  BY <1>2, <1>3

LEMMA PushFrames ==
    ASSUME mongo \in MongoContents, Grows, NEW f, FrameSound(f), Settled(f, {}),
           NEW uid \in f.todo, NEW c \in Frames, NEW rest \in Frames,
           CallFor(f, uid, c), RestOf(f, uid, rest),
           Seen(f, uid)', RootOf(f, uid) \in store'.files
    PROVE  /\ FrameSound(c)' /\ Settled(c, {})'
           /\ FrameSound(rest)' /\ Settled(rest, {uid})'
           /\ CalledFrom(c, rest)'
<1>1. /\ uid \in Items(f) /\ uid \in Uids
      /\ RootOf(f, uid) \in Firmwares /\ uid \in Below(RootOf(f, uid))
  BY RootOfFacts
<1>2. /\ Firmwares' = Firmwares /\ Frames' = Frames
      /\ Below(c.rootUid)' = Below(c.rootUid)
  BY MongoStays DEF Grows, Frames
<1>3. Items(c)' = Kids(uid) /\ Items(f)' = Items(f) /\ Items(rest)' = Items(f)
  <2>1. Items(c)' = Items(c) /\ Items(f)' = Items(f) /\ Items(rest)' = Items(rest)
    BY FrameStays
  <2> QED
    BY <2>1 DEF Items, CallFor, RestOf
<1>4. FrameSound(c)'
  BY <1>1, <1>2, <1>3 DEF FrameSound, CallFor, Seen
<1>5. Settled(c, {})'
  BY <1>3 DEF Settled, CallFor
<1>6. \A v : (Seen(rest, v)' <=> Seen(f, v)') /\ RootOf(rest, v)' = RootOf(f, v)
  BY DEF Seen, RootOf, RestOf
<1>7. FrameSound(f)' /\ Settled(f, {})'
  BY FrameStays
<1>8. FrameSound(rest)'
  BY <1>1, <1>2, <1>3, <1>6, <1>7 DEF FrameSound, RestOf
<1>9. Settled(rest, {uid})'
  <2>1. ASSUME NEW v \in Items(f) \ f.todo PROVE Done(v, RootOf(f, v))'
    BY <1>3, <1>7, <2>1 DEF Settled
  <2>2. RootOf(f, uid)' = RootOf(f, uid) /\ \A v : RootOf(f, v)' = RootOf(f, v)
    BY DEF RootOf
  <2> QED
    BY <1>3, <1>6, <2>1, <2>2 DEF Settled, RestOf
<1>10. CalledFrom(c, rest)'
  BY <1>1, <1>3, <1>6 DEF CalledFrom, CallFor, RestOf
<1> QED
  BY <1>4, <1>5, <1>8, <1>9, <1>10

LEMMA PushSound ==
    ASSUME mongo \in MongoContents, Grows, NEW s \in Seq(Frames), s # << >>, StackSound(s),
           NEW uid \in s[1].todo, NEW c \in Frames, NEW rest \in Frames,
           CallFor(s[1], uid, c), RestOf(s[1], uid, rest),
           Seen(s[1], uid)', RootOf(s[1], uid) \in store'.files,
           NEW t, t = <<c, rest>> \o Tail(s)
    PROVE  t \in Seq(Frames) /\ t # << >> /\ StackSound(t)'
<1>1. /\ Len(s) \in Nat /\ Len(s) >= 1 /\ 1 \in 1 .. Len(s)
      /\ Tail(s) \in Seq(Frames) /\ <<c, rest>> \in Seq(Frames)
      /\ Len(Tail(s)) = Len(s) - 1 /\ Len(<<c, rest>>) = 2
      /\ \A i \in 1 .. Len(s) - 1 : Tail(s)[i] = s[i + 1]
  OBVIOUS
<1>2. t \in Seq(Frames) /\ Len(t) = Len(s) + 1
  BY <1>1
<1>3. t[1] = c /\ t[2] = rest
  BY <1>1
<1>4. \A i \in 3 .. Len(t) : t[i] = s[i - 1]
  BY <1>1, <1>2
<1>5. /\ FrameSound(s[1]) /\ Settled(s[1], {}) /\ s[Len(s)].root
      /\ \A i \in 1 .. Len(s) : FrameSound(s[i])
  BY <1>1 DEF StackSound
<1>6. /\ FrameSound(c)' /\ Settled(c, {})'
      /\ FrameSound(rest)' /\ Settled(rest, {uid})'
      /\ CalledFrom(c, rest)'
  BY <1>5, PushFrames
<1>7. ASSUME NEW i \in 1 .. Len(t) PROVE FrameSound(t[i])'
  <2>1. CASE i \in {1, 2}
    BY <1>3, <1>6, <2>1
  <2>2. CASE i \notin {1, 2}
    <3>1. i \in 3 .. Len(t) /\ i - 1 \in 1 .. Len(s)
      BY <1>1, <1>2, <1>7, <2>2
    <3>2. FrameSound(s[i - 1])'
      BY <1>5, <3>1, FrameStays
    <3> QED
      BY <1>4, <3>1, <3>2
  <2> QED
    BY <2>1, <2>2
<1>8. ASSUME NEW i \in 1 .. Len(s), NEW j, j = i - 1, i > 1
      PROVE  CalledFrom(s[j], s[i])' /\ Settled(s[i], {s[j].parentUid})'
  <2>1. CalledFrom(s[j], s[i]) /\ Settled(s[i], {s[j].parentUid})
    BY <1>8 DEF StackSound
  <2> QED
    BY <2>1, FrameStays
<1>9. ASSUME NEW i \in 1 .. Len(t), NEW j, j = i - 1, i > 1
      PROVE  CalledFrom(t[j], t[i])' /\ Settled(t[i], {t[j].parentUid})'
  <2>1. CASE i = 2
    <3>1. j = 1
      BY <1>9, <2>1
    <3> QED
      BY <1>3, <1>6, <2>1, <3>1 DEF CallFor
  <2>2. CASE i = 3
    <3>1. j = 2 /\ t[i] = s[2] /\ 2 \in 1 .. Len(s) /\ 1 = 2 - 1 /\ 2 > 1
      BY <1>1, <1>2, <1>4, <1>9, <2>2
    <3>2. CalledFrom(s[1], s[2])' /\ Settled(s[2], {s[1].parentUid})'
      BY <1>8, <3>1
    <3>3. rest.parentUid = s[1].parentUid /\ rest.root = s[1].root
          /\ (~ s[1].root => rest.rootUid = s[1].rootUid)
      BY DEF RestOf
    <3>4. CalledFrom(rest, s[2])' /\ Settled(s[2], {rest.parentUid})'
      BY <3>2, <3>3 DEF CalledFrom
    <3> QED
      BY <1>3, <3>1, <3>4
  <2>3. CASE i \notin {2, 3}
    <3>1. /\ i \in 3 .. Len(t) /\ j \in 3 .. Len(t)
          /\ i - 1 \in 1 .. Len(s) /\ j - 1 = (i - 1) - 1 /\ i - 1 > 1
      BY <1>1, <1>2, <1>9, <2>3
    <3>2. CalledFrom(s[j - 1], s[i - 1])' /\ Settled(s[i - 1], {s[j - 1].parentUid})'
      BY <1>8, <3>1
    <3>3. t[i] = s[i - 1] /\ t[j] = s[j - 1]
      BY <1>4, <3>1
    <3> QED
      BY <3>2, <3>3
  <2> QED
    BY <2>1, <2>2, <2>3
<1>10. t[Len(t)].root
  <2>1. CASE Len(s) = 1
    <3>1. Len(t) = 2
      BY <1>2, <2>1
    <3> QED
      BY <1>3, <1>5, <2>1, <3>1 DEF RestOf
  <2>2. CASE Len(s) # 1
    <3>1. Len(t) \in 3 .. Len(t) /\ Len(t) - 1 = Len(s)
      BY <1>1, <1>2, <2>2
    <3>2. t[Len(t)] = s[Len(s)]
      BY <1>4, <3>1
    <3> QED
      BY <1>5, <3>2
  <2> QED
    BY <2>1, <2>2
<1>11. t # << >>
  <2>1. Len(t) # 0 /\ Len(<< >>) = 0
    BY <1>1, <1>2
  <2> QED
    BY <2>1
<1>12. \A i \in 1 .. Len(t) : i > 1 =>
          CalledFrom(t[i - 1], t[i])' /\ Settled(t[i], {t[i - 1].parentUid})'
  BY <1>9
<1>13. Settled(t[1], {})'
  BY <1>3, <1>6
<1> QED
  BY <1>2, <1>7, <1>10, <1>11, <1>12, <1>13 DEF StackSound

(***************************************************************************)
(* The steps of the migration.                                             *)
(***************************************************************************)
LEMMA MigrationInitInv == UpgradeInit => MigrationInv
<1> SUFFICES ASSUME UpgradeInit PROVE MigrationInv
  OBVIOUS
<1>1. /\ mongo \in MongoContents
      /\ migration = [pc |-> "idle", stack |-> << >>]
      /\ store = [files |-> {}, firmware |-> {}, parents |-> {}, roots |-> {}, analyses |-> {},
                  comparisons |-> {}]
  BY DEF UpgradeInit
<1>2. migration.stack = << >> /\ migration.pc = "idle" /\ << >> \in Seq(Frames)
  BY <1>1
<1>3. /\ store.files = {} /\ store.roots = {} /\ store.parents = {} /\ store.analyses = {}
      /\ store.comparisons = {}
  BY <1>1
<1>4. StoreTypes
  BY <1>1 DEF StoreTypes, StoreRecords
<1>5. StoreSound
  BY <1>3, <1>4 DEF StoreSound, AnalysesSound
<1> QED
  BY <1>1, <1>2, <1>5 DEF MigrationInv


LEMMA StackStays ==
    ASSUME Grows, NEW s, StackSound(s)
    PROVE  StackSound(s)'
<1>1. \A i \in 1 .. Len(s) : FrameSound(s[i])'
  BY FrameStays DEF StackSound
<1>2. s # << >> => Settled(s[1], {})' /\ s[Len(s)].root
  BY FrameStays DEF StackSound
<1>3. ASSUME NEW i \in 1 .. Len(s), i > 1
      PROVE  CalledFrom(s[i - 1], s[i])' /\ Settled(s[i], {s[i - 1].parentUid})'
  BY <1>3, FrameStays DEF StackSound
<1> QED
  BY <1>1, <1>2, <1>3 DEF StackSound

LEMMA StoreStays ==
    ASSUME StoreSound, mongo' = mongo, store' = store
    PROVE  StoreSound'
<1>1. /\ Uids' = Uids /\ Firmwares' = Firmwares /\ FileObjects' = FileObjects
      /\ CompareResults' = CompareResults /\ Reached' = Reached
      /\ \A u : Kids(u)' = Kids(u) /\ Below(u)' = Below(u) /\ Converted(u)' = Converted(u)
  BY MongoStays
<1>2. AnalysesSound'
  BY <1>1 DEF StoreSound, AnalysesSound
<1> QED
  BY <1>1, <1>2 DEF StoreSound, StoreTypes, StoreRecords

\* The migration and what it has written stay as they are, or it ends early.
LEMMA MigrationRests ==
    ASSUME MigrationInv, mongo' = mongo, store' = store,
           \/ migration' = migration
           \/ \E pc \in {"idle", "aborted"} : migration' = [pc |-> pc, stack |-> << >>]
    PROVE  MigrationInv'
<1>1. Grows
  BY DEF Grows
<1>2. mongo' \in MongoContents /\ StoreSound'
  BY StoreStays DEF MigrationInv
<1>3. Frames' = Frames /\ CompareResults' = CompareResults
  BY MongoStays DEF Frames
<1>4. CASE migration' = migration
  <2>1. PICK s : s = migration.stack
    OBVIOUS
  <2>2. s = migration'.stack
    BY <1>4, <2>1
  <2>3. migration'.pc = "running" => StackSound(s)'
    BY <1>1, <1>4, <2>1, StackStays DEF MigrationInv
  <2>4. \/ migration'.pc = "running" /\ migration'.stack = << >>
        \/ migration'.pc = "done"
        => AllDone'
    BY <1>1, <1>4, AllDoneStays DEF MigrationInv
  <2>5. StackSound(migration.stack)' <=> StackSound(s)'
    BY <2>2
  <2> QED
    BY <1>2, <1>3, <1>4, <2>3, <2>4, <2>5 DEF MigrationInv
<1>5. CASE \E pc \in {"idle", "aborted"} : migration' = [pc |-> pc, stack |-> << >>]
  <2>1. PICK pc \in {"idle", "aborted"} : migration' = [pc |-> pc, stack |-> << >>]
    BY <1>5
  <2>2. << >> \in Seq(Frames')
    OBVIOUS
  <2> QED
    BY <1>2, <1>3, <2>1, <2>2 DEF MigrationInv
<1> QED
  BY <1>4, <1>5

(***************************************************************************)
(* An object is written, or only the links to the file in which it was     *)
(* found and to the firmware.                                              *)
(***************************************************************************)
Rows(u) == {[uid |-> u, analysis |-> a] : a \in Converted(u)}

Written(f, uid) ==
    /\ mongo' = mongo /\ StoreTypes'
    /\ store'.files = store.files \cup {uid}
    /\ store.firmware \subseteq store'.firmware /\ (uid \in FileObjects \/ uid \in store'.firmware)
    /\ store'.analyses = store.analyses \cup Rows(uid)
    /\ store'.comparisons = store.comparisons
    /\ f.root => store'.roots = store.roots /\ store'.parents = store.parents
    /\ ~ f.root => /\ store'.roots = store.roots \cup {<<uid, f.rootUid>>}
                   /\ store'.parents = store.parents \cup {<<uid, f.parentUid>>}

LEMMA WrittenSound ==
    ASSUME mongo \in MongoContents, StoreSound, NEW f, FrameSound(f), NEW uid \in f.todo,
           Written(f, uid)
    PROVE  Grows /\ StoreSound' /\ Seen(f, uid)' /\ RootOf(f, uid) \in store'.files
<1>1. /\ uid \in Items(f) /\ uid \in Uids
      /\ RootOf(f, uid) \in Firmwares /\ RootOf(f, uid) \in Uids
      /\ uid \in Below(RootOf(f, uid))
      /\ ~ f.root => /\ uid \in FileObjects /\ uid \in Kids(f.parentUid)
                     /\ f.parentUid \in Below(f.rootUid)
  BY RootOfFacts
<1>2. /\ Uids' = Uids /\ Firmwares' = Firmwares /\ FileObjects' = FileObjects
      /\ CompareResults' = CompareResults /\ Reached' = Reached
      /\ \A u : Kids(u)' = Kids(u) /\ Below(u)' = Below(u) /\ Converted(u)' = Converted(u)
  BY MongoStays DEF Written
<1>3. Grows
  BY DEF Written, Grows
<1>4. Seen(f, uid)'
  BY DEF Written, Seen, Linked
<1>5. RootOf(f, uid) \in store'.files
  BY DEF Written, RootOf, FrameSound
<1>6. uid \in Reached
  BY <1>1 DEF Reached
<1>7. store'.files \subseteq Reached'
  BY <1>2, <1>6 DEF Written, StoreSound
<1>8. store'.files \ FileObjects' \subseteq store'.firmware
  BY <1>2 DEF Written, StoreSound
<1>9. ASSUME NEW l \in store'.roots
      PROVE  \E v, r \in Uids : /\ l = <<v, r>> /\ r \in Firmwares /\ v \in FileObjects
                                /\ \E k \in Kids(r) : v \in Below(k)
  <2>1. CASE l \in store.roots
    BY <2>1 DEF StoreSound
  <2>2. CASE l \notin store.roots
    <3>1. ~ f.root /\ l = <<uid, f.rootUid>> /\ f.rootUid = RootOf(f, uid)
      BY <1>9, <2>2 DEF Written, RootOf
    <3>2. \E k \in Kids(f.rootUid) : uid \in Below(k)
      <4>1. CASE f.parentUid = f.rootUid
        BY <1>1, <3>1, <4>1, BelowFacts
      <4>2. CASE f.parentUid # f.rootUid
        <5>1. PICK k \in Kids(f.rootUid) : f.parentUid \in Below(k)
          BY <1>1, <3>1, <4>2, BelowKids
        <5>2. k \in Uids
          BY <1>1, <3>1, MongoFacts
        <5> QED
          BY <1>1, <3>1, <5>1, <5>2, BelowFacts
      <4> QED
        BY <4>1, <4>2
    <3> QED
      BY <1>1, <3>1, <3>2
  <2> QED
    BY <2>1, <2>2
<1>10. ASSUME NEW l \in store'.parents
       PROVE  \E v, g \in Uids : l = <<v, g>> /\ g \in Reached /\ v \in Kids(g)
  <2>1. CASE l \in store.parents
    BY <2>1 DEF StoreSound
  <2>2. CASE l \notin store.parents
    <3>1. ~ f.root /\ l = <<uid, f.parentUid>> /\ f.rootUid = RootOf(f, uid)
      BY <1>10, <2>2 DEF Written, RootOf
    <3>2. f.parentUid \in Reached /\ f.parentUid \in Uids
      BY <1>1, <3>1, BelowFacts DEF Reached
    <3> QED
      BY <1>1, <3>1, <3>2
  <2> QED
    BY <2>1, <2>2
<1>11. AnalysesSound'
  <2>1. ASSUME NEW s \in store'.analyses
        PROVE  \E u \in store'.files : \E a \in Converted(u) : s = [uid |-> u, analysis |-> a]
    BY <2>1 DEF Written, Rows, StoreSound, AnalysesSound
  <2>2. ASSUME NEW u \in store'.files, NEW a \in Converted(u)
        PROVE  [uid |-> u, analysis |-> a] \in store'.analyses
    BY <2>2 DEF Written, Rows, StoreSound, AnalysesSound
  <2> QED
    BY <1>2, <2>1, <2>2 DEF AnalysesSound
<1>12. StoreTypes' /\ \A c \in store'.comparisons : c \subseteq store'.files
  BY DEF Written, StoreSound
<1>13. StoreSound'
  BY <1>2, <1>7, <1>8, <1>9, <1>10, <1>11, <1>12 DEF StoreSound
<1> QED
  BY <1>3, <1>4, <1>5, <1>13

(***************************************************************************)
(* The migration goes on with the files in the object.                     *)
(***************************************************************************)
LEMMA PushKeepsInv ==
    ASSUME MigrationInv, migration.pc = "running", migration.stack # << >>,
           NEW uid \in Top.todo, Written(Top, uid),
           NEW rest, rest = Rest(uid, Top.rootUid) \/ rest = Rest(uid, RootFor(uid)),
           migration' = Enter(<<Call(uid, RootFor(uid)), rest>>)
    PROVE  MigrationInv'
<1>1. PICK s \in Seq(Frames) : s = migration.stack
  BY DEF MigrationInv
<1>2. s # << >> /\ StackSound(s) /\ 1 \in 1 .. Len(s)
  BY <1>1 DEF MigrationInv
<1>3. Top = s[1] /\ FrameSound(s[1]) /\ s[1] \in Frames
  BY <1>1, <1>2 DEF Top, StackSound
<1>4. mongo \in MongoContents /\ StoreSound
  BY DEF MigrationInv
<1>5. PICK f : f = s[1]
  OBVIOUS
<1>6. /\ Grows /\ StoreSound' /\ Seen(f, uid)' /\ RootOf(f, uid) \in store'.files
  BY <1>3, <1>4, <1>5, WrittenSound
<1>7. /\ uid \in Uids /\ RootOf(f, uid) \in Uids
      /\ Kids(uid) \subseteq Uids
  BY <1>3, <1>4, <1>5, RootOfFacts, MongoFacts
<1>8. RootFor(uid) = RootOf(f, uid)
  BY <1>3, <1>5 DEF RootFor, RootOf
<1>9. PICK c : c = Call(uid, RootFor(uid))
  OBVIOUS
<1>10. c \in Frames /\ CallFor(f, uid, c)
  BY <1>7, <1>8, <1>9 DEF Call, Frame, Frames, CallFor, Kids
<1>11. PICK u \in Uids \cup {NoUid} :
          /\ rest = [f EXCEPT !.todo = f.todo \ {uid}, !.rootUid = u]
          /\ ~ f.root => u = f.rootUid
  <2>1. f.rootUid \in Uids \cup {NoUid}
    BY <1>3, <1>5 DEF Frames
  <2>2. rest = [f EXCEPT !.todo = f.todo \ {uid}, !.rootUid = f.rootUid]
        \/ rest = [f EXCEPT !.todo = f.todo \ {uid}, !.rootUid = RootFor(uid)]
    BY <1>3, <1>5 DEF Rest
  <2>3. ~ f.root => RootFor(uid) = f.rootUid
    BY <1>8 DEF RootOf
  <2> QED
    BY <1>7, <1>8, <2>1, <2>2, <2>3
<1>12. rest \in Frames /\ RestOf(f, uid, rest)
  BY <1>3, <1>5, <1>11 DEF Frames, RestOf
<1>13. PICK t : t = <<c, rest>> \o Tail(s)
  OBVIOUS
<1>14. migration' = [migration EXCEPT !.stack = t]
  BY <1>1, <1>9, <1>13 DEF Enter
<1>15. t \in Seq(Frames) /\ t # << >> /\ StackSound(t)'
  BY <1>2, <1>3, <1>4, <1>5, <1>6, <1>10, <1>12, <1>13, PushSound
<1>16. /\ migration' \in [pc : {"idle", "running", "aborted", "done"}, stack : Seq(Frames)]
       /\ migration'.pc = "running" /\ migration'.stack = t
  BY <1>14, <1>15 DEF MigrationInv
<1>17. Frames' = Frames /\ mongo' = mongo
  BY <1>6, MongoStays DEF Frames, Grows
<1>18. StackSound(migration.stack)'
  BY <1>15, <1>16
<1> QED
  BY <1>4, <1>6, <1>15, <1>16, <1>17, <1>18 DEF MigrationInv

\* The two parts of writing an object.
ParentsWritten(st, w, uid, r, p) ==
    /\ w \in StoreRecords
    /\ w.files = st.files /\ w.firmware = st.firmware
    /\ w.analyses = st.analyses /\ w.comparisons = st.comparisons
    /\ w.roots = st.roots \cup {<<uid, r>>}
    /\ w.parents = st.parents \cup {<<uid, p>>}

LEMMA WithParentsFacts ==
    ASSUME NEW st \in StoreRecords, NEW uid \in Uids, NEW r \in Uids, NEW p \in Uids
    PROVE  ParentsWritten(st, WithParents(st, uid, r, p), uid, r, p)
<1>1. PICK w : w = WithParents(st, uid, r, p)
  OBVIOUS
<1> DEFINE roots == st.roots \cup {<<uid, r>>}
           parents == st.parents \cup {<<uid, p>>}
<1>2. roots \subseteq Uids \X Uids /\ parents \subseteq Uids \X Uids
  BY DEF StoreRecords
<1>3. w = [st EXCEPT !.roots = roots, !.parents = parents]
  BY <1>1 DEF WithParents
<1> HIDE DEF roots, parents
<1>4. /\ w \in StoreRecords
      /\ w.files = st.files /\ w.firmware = st.firmware
      /\ w.analyses = st.analyses /\ w.comparisons = st.comparisons
      /\ w.roots = roots /\ w.parents = parents
  BY <1>2, <1>3 DEF StoreRecords
<1> QED
  BY <1>1, <1>4 DEF ParentsWritten, roots, parents

LEMMA WithObjectFacts ==
    ASSUME mongo \in MongoContents, NEW st \in StoreRecords, NEW uid \in Uids
    PROVE  LET w == WithObject(st, uid)
           IN  /\ w \in StoreRecords
               /\ w.files = st.files \cup {uid}
               /\ w.firmware = IF uid \in FileObjects THEN st.firmware ELSE st.firmware \cup {uid}
               /\ w.analyses = st.analyses \cup Rows(uid)
               /\ w.comparisons = st.comparisons
               /\ w.roots = st.roots /\ w.parents = st.parents
<1> DEFINE theFiles == st.files \cup {uid}
           firmware == IF uid \in FileObjects THEN st.firmware ELSE st.firmware \cup {uid}
           analyses == st.analyses \cup Rows(uid)
<1>1. Rows(uid) \subseteq [uid : Uids, analysis : AnalysisRecords]
  BY ConvertedFacts DEF Rows
<1>2. /\ theFiles \subseteq Uids /\ firmware \subseteq Uids
      /\ analyses \subseteq [uid : Uids, analysis : AnalysisRecords]
  BY <1>1 DEF StoreRecords
<1>3. WithObject(st, uid) = [st EXCEPT !.files = theFiles, !.firmware = firmware,
                                       !.analyses = analyses]
  BY DEF WithObject, get_object, Rows
<1> HIDE DEF theFiles, firmware, analyses
<1>4. LET w == [st EXCEPT !.files = theFiles, !.firmware = firmware, !.analyses = analyses]
      IN  /\ w \in StoreRecords
          /\ w.files = theFiles /\ w.firmware = firmware /\ w.analyses = analyses
          /\ w.comparisons = st.comparisons
          /\ w.roots = st.roots /\ w.parents = st.parents
  BY <1>2 DEF StoreRecords
<1> QED
  BY <1>3, <1>4 DEF theFiles, firmware, analyses

LEMMA VisitKeepsInv ==
    ASSUME MigrationInv, NEW uid \in Uids, VisitKnown(uid) \/ VisitNew(uid)
    PROVE  MigrationInv'
<1>1. /\ migration.pc = "running" /\ migration.stack # << >> /\ uid \in Top.todo
      /\ mongo' = mongo
  BY DEF VisitKnown, VisitNew, Visiting
<1>2. CASE Abort /\ store' = store
  BY <1>1, <1>2, MigrationRests DEF Abort
<1>3. ASSUME ~ (Abort /\ store' = store) PROVE MigrationInv'
  <2>1. PICK s \in Seq(Frames) : s = migration.stack
    BY DEF MigrationInv
  <2>2. s # << >> /\ StackSound(s) /\ 1 \in 1 .. Len(s)
    BY <1>1, <2>1 DEF MigrationInv
  <2>3. Top = s[1] /\ FrameSound(s[1]) /\ s[1] \in Frames
    BY <2>1, <2>2 DEF Top, StackSound
  <2>4. PICK f : f = s[1]
    OBVIOUS
  <2>5. mongo \in MongoContents /\ StoreSound /\ store \in StoreRecords
    BY DEF MigrationInv, StoreSound, StoreTypes
  <2>6. /\ RootOf(f, uid) \in Firmwares /\ RootOf(f, uid) \in Uids
        /\ ~ f.root => uid \in FileObjects
        /\ f.root => f.parentUid = NoUid
    BY <1>1, <2>3, <2>4, <2>5, RootOfFacts DEF FrameSound
  <2>7. ~ f.root => f.rootUid \in Uids /\ f.parentUid \in Uids
    BY <2>3, <2>4, <2>5 DEF FrameSound, StoreRecords
  <2>8. NoUid \notin store.files
    BY <2>5, MongoFacts DEF StoreRecords
  <2>9. StoreRecords' = StoreRecords
    BY <1>1, MongoStays DEF StoreRecords
  <2>10. CASE VisitKnown(uid)
    <3>1. /\ uid \in store.files /\ (uid \in FileObjects \/ uid \in store.firmware)
          /\ Rows(uid) \subseteq store.analyses
      BY <2>5, <2>10 DEF VisitKnown, StoreSound, AnalysesSound, Rows
    <3>2. /\ f.root => store' = store
          /\ ~ f.root => store' = WithParents(store, uid, f.rootUid, f.parentUid)
          /\ migration' = Enter(<<Call(uid, RootFor(uid)), Rest(uid, Top.rootUid)>>)
      BY <1>3, <2>3, <2>4, <2>10 DEF VisitKnown
    <3>3. Written(f, uid)
      <4>1. CASE f.root
        BY <1>1, <2>5, <2>9, <3>1, <3>2, <4>1 DEF Written, StoreTypes
      <4>2. CASE ~ f.root
        <5>1. PICK r \in Uids, p \in Uids : r = f.rootUid /\ p = f.parentUid
          BY <2>7, <4>2
        <5>2. store' = WithParents(store, uid, r, p)
          BY <3>2, <4>2, <5>1
        <5>3. /\ store' \in StoreRecords
              /\ store'.files = store.files /\ store'.firmware = store.firmware
              /\ store'.analyses = store.analyses /\ store'.comparisons = store.comparisons
              /\ store'.roots = store.roots \cup {<<uid, r>>}
              /\ store'.parents = store.parents \cup {<<uid, p>>}
          <6>1. ParentsWritten(store, WithParents(store, uid, r, p), uid, r, p)
            BY <2>5, <5>1, WithParentsFacts
          <6> QED
            BY <5>2, <6>1 DEF ParentsWritten
        <5> QED
          BY <1>1, <2>9, <3>1, <4>2, <5>1, <5>3 DEF Written, StoreTypes
      <4> QED
        BY <4>1, <4>2
    <3> QED
      BY <1>1, <2>3, <2>4, <3>2, <3>3, PushKeepsInv
  <2>11. CASE VisitNew(uid)
    <3>1. /\ get_object(uid) = "FileObject" => ParentsKnown(f.rootUid, f.parentUid)
          /\ store' = insert_object(uid, f.rootUid, f.parentUid)
          /\ migration' = Enter(<<Call(uid, RootFor(uid)), Rest(uid, RootFor(uid))>>)
      BY <1>3, <2>3, <2>4, <2>11 DEF VisitNew
    <3>2. uid \in FileObjects <=> ~ f.root
      BY <2>6, <2>8, <3>1 DEF get_object, ParentsKnown
    <3>3. PICK w \in StoreRecords : w = WithObject(store, uid)
      BY <2>5, WithObjectFacts
    <3>4. /\ w.files = store.files \cup {uid}
          /\ w.firmware = IF uid \in FileObjects THEN store.firmware ELSE store.firmware \cup {uid}
          /\ w.analyses = store.analyses \cup Rows(uid)
          /\ w.comparisons = store.comparisons
          /\ w.roots = store.roots /\ w.parents = store.parents
      BY <2>5, <3>3, WithObjectFacts
    <3>5. Written(f, uid)
      <4>1. CASE f.root
        <5>1. store' = w
          BY <3>1, <3>2, <3>3, <4>1 DEF insert_object, get_object
        <5> QED
          BY <1>1, <2>9, <3>2, <3>4, <4>1, <5>1 DEF Written, StoreTypes
      <4>2. CASE ~ f.root
        <5>1. PICK r \in Uids, p \in Uids : r = f.rootUid /\ p = f.parentUid
          BY <2>7, <4>2
        <5>2. store' = WithParents(w, uid, r, p)
          BY <3>1, <3>2, <3>3, <4>2, <5>1 DEF insert_object, get_object
        <5>3. /\ store' \in StoreRecords
              /\ store'.files = w.files /\ store'.firmware = w.firmware
              /\ store'.analyses = w.analyses /\ store'.comparisons = w.comparisons
              /\ store'.roots = w.roots \cup {<<uid, r>>}
              /\ store'.parents = w.parents \cup {<<uid, p>>}
          <6>1. ParentsWritten(w, WithParents(w, uid, r, p), uid, r, p)
            BY <3>3, <5>1, WithParentsFacts
          <6> QED
            BY <5>2, <6>1 DEF ParentsWritten
        <5> QED
          BY <1>1, <2>9, <3>2, <3>4, <4>2, <5>1, <5>3 DEF Written, StoreTypes
      <4> QED
        BY <4>1, <4>2
    <3> QED
      BY <1>1, <2>3, <2>4, <3>1, <3>5, PushKeepsInv
  <2> QED
    BY <2>10, <2>11
<1> QED
  BY <1>2, <1>3

LEMMA StartMigrationKeepsInv ==
    ASSUME MigrationInv, StartMigration
    PROVE  MigrationInv'
<1>1. mongo' = mongo /\ store' = store /\ mongo \in MongoContents
  BY DEF StartMigration, MigrationInv
<1>2. CASE ~ DatabaseReady
  BY <1>1, <1>2, MigrationRests DEF StartMigration
<1>3. CASE DatabaseReady
  <2>1. PICK f : f = Frame(Firmwares, TRUE, NoUid, NoUid)
    OBVIOUS
  <2>2. PICK s : s = <<f>>
    OBVIOUS
  <2>3. migration' = [pc |-> "running", stack |-> s]
    BY <1>3, <2>1, <2>2 DEF StartMigration
  <2>4. /\ f \in Frames /\ f.root /\ f.todo = Firmwares /\ f.parentUid = NoUid
    BY <1>1, <2>1, MongoFacts DEF Frame, Frames
  <2>5. FrameSound(f) /\ Settled(f, {})
    BY <2>4 DEF FrameSound, Settled, Items
  <2>6. s \in Seq(Frames) /\ Len(s) = 1 /\ s[1] = f /\ s # << >>
    BY <2>2, <2>4
  <2>7. StackSound(s)
    BY <2>4, <2>5, <2>6 DEF StackSound
  <2>8. Grows
    BY <1>1 DEF Grows
  <2>9. StackSound(s)' /\ StoreSound' /\ Frames' = Frames
    BY <1>1, <2>7, <2>8, StackStays, StoreStays, MongoStays DEF MigrationInv, Frames
  <2>10. StackSound(migration.stack)'
    BY <2>3, <2>9
  <2> QED
    BY <1>1, <2>3, <2>6, <2>9, <2>10 DEF MigrationInv
<1> QED
  BY <1>2, <1>3

LEMMA ReturnKeepsInv ==
    ASSUME MigrationInv, Return
    PROVE  MigrationInv'
<1>1. /\ migration.pc = "running" /\ migration.stack # << >> /\ Top.todo = {}
      /\ mongo' = mongo /\ store' = store /\ mongo \in MongoContents
  BY DEF Return, MigrationInv
<1>2. PICK s \in Seq(Frames) : s = migration.stack
  BY DEF MigrationInv
<1>3. s # << >> /\ StackSound(s) /\ s[1].todo = {}
  BY <1>1, <1>2 DEF MigrationInv, Top
<1>4. PICK t : t = Tail(s)
  OBVIOUS
<1>5. t \in Seq(Frames) /\ StackSound(t) /\ (t = << >> => AllDone)
  BY <1>1, <1>3, <1>4, ReturnSound
<1>6. migration' = [migration EXCEPT !.stack = t]
  BY <1>2, <1>4 DEF Return
<1>7. /\ migration' \in [pc : {"idle", "running", "aborted", "done"}, stack : Seq(Frames)]
      /\ migration'.pc = "running" /\ migration'.stack = t
  BY <1>1, <1>5, <1>6 DEF MigrationInv
<1>8. Grows
  BY <1>1 DEF Grows
<1>9. StackSound(t)' /\ StoreSound' /\ Frames' = Frames /\ (t = << >> => AllDone')
  BY <1>1, <1>5, <1>8, StackStays, StoreStays, AllDoneStays, MongoStays DEF MigrationInv, Frames
<1>10. StackSound(migration.stack)'
  BY <1>7, <1>9
<1> QED
  BY <1>1, <1>7, <1>9, <1>10 DEF MigrationInv

LEMMA MigrateComparisonKeepsInv ==
    ASSUME MigrationInv, NEW c \in CompareResults, MigrateComparison(c)
    PROVE  MigrationInv'
<1>1. /\ migration.pc = "running" /\ migration.stack = << >> /\ AllDone
      /\ mongo' = mongo /\ migration' = migration /\ mongo \in MongoContents
      /\ c \subseteq store.files
      /\ store' = [store EXCEPT !.comparisons = @ \cup {c}]
  BY DEF MigrateComparison, MigrationInv, all_uids_found_in_database
<1>2. StoreSound /\ store \in StoreRecords
  BY DEF MigrationInv, StoreSound, StoreTypes
<1>3. /\ store' \in StoreRecords /\ store'.files = store.files /\ store'.firmware = store.firmware
      /\ store'.roots = store.roots /\ store'.parents = store.parents
      /\ store'.analyses = store.analyses /\ store'.comparisons = store.comparisons \cup {c}
  <2>1. store.comparisons \cup {c} \subseteq CompareResults
    BY <1>2 DEF StoreRecords
  <2> DEFINE cs == store.comparisons \cup {c}
  <2>2. store' = [store EXCEPT !.comparisons = cs]
    BY <1>1
  <2> HIDE DEF cs
  <2>3. cs \subseteq CompareResults
    BY <2>1 DEF cs
  <2>4. /\ store' \in StoreRecords /\ store'.files = store.files /\ store'.firmware = store.firmware
        /\ store'.roots = store.roots /\ store'.parents = store.parents
        /\ store'.analyses = store.analyses /\ store'.comparisons = cs
    BY <1>2, <2>2, <2>3 DEF StoreRecords
  <2> QED
    BY <2>4 DEF cs
<1>4. Grows
  BY <1>1, <1>3 DEF Grows
<1>5. /\ Uids' = Uids /\ Firmwares' = Firmwares /\ FileObjects' = FileObjects
      /\ CompareResults' = CompareResults /\ Reached' = Reached
      /\ \A u : Kids(u)' = Kids(u) /\ Below(u)' = Below(u) /\ Converted(u)' = Converted(u)
  BY <1>1, MongoStays
<1>6. StoreTypes' /\ AnalysesSound'
  BY <1>2, <1>3, <1>5 DEF StoreTypes, StoreRecords, StoreSound, AnalysesSound
<1>7. StoreSound'
  BY <1>1, <1>2, <1>3, <1>5, <1>6 DEF StoreSound
<1>8. AllDone' /\ Frames' = Frames
  BY <1>1, <1>4, <1>5, AllDoneStays DEF Frames
<1>9. StackSound(migration.stack)'
  <2>1. StackSound(<< >>)'
    BY DEF StackSound
  <2> QED
    BY <1>1, <2>1
<1> QED
  BY <1>1, <1>7, <1>8, <1>9 DEF MigrationInv

LEMMA EndMigrationKeepsInv ==
    ASSUME MigrationInv, EndMigration
    PROVE  MigrationInv'
<1>1. /\ migration.pc = "running" /\ migration.stack = << >> /\ AllDone
      /\ mongo' = mongo /\ store' = store /\ mongo \in MongoContents
      /\ \A c \in CompareResults : c \subseteq store.files => c \in store.comparisons
      /\ migration' = [migration EXCEPT !.pc = "done"]
  BY DEF EndMigration, MigrationInv, all_uids_found_in_database
<1>2. /\ migration' \in [pc : {"idle", "running", "aborted", "done"}, stack : Seq(Frames)]
      /\ migration'.pc = "done"
  BY <1>1 DEF MigrationInv
<1>3. Grows
  BY <1>1 DEF Grows
<1>4. AllDone' /\ StoreSound' /\ Frames' = Frames /\ CompareResults' = CompareResults
  BY <1>1, <1>3, AllDoneStays, StoreStays, MongoStays DEF MigrationInv, Frames
<1> QED
  BY <1>1, <1>2, <1>4 DEF MigrationInv

LEMMA MigrationNextKeepsInv == MigrationInv /\ [UpgradeNext]_upgradeVars => MigrationInv'
<1> SUFFICES ASSUME MigrationInv, [UpgradeNext]_upgradeVars PROVE MigrationInv'
  OBVIOUS
<1>1. CASE UNCHANGED upgradeVars \/ StartInit \/ InitStep \/ UserStep
           \/ \E upgrade \in BOOLEAN : StartUserMigration(upgrade)
  BY <1>1, MigrationRests DEF upgradeVars, StartInit, InitStep, UserStep, StartUserMigration
<1>2. CASE Kill
  <2>1. mongo' = mongo /\ store' = store
        /\ (migration' = migration \/ migration' = [pc |-> "idle", stack |-> << >>])
    BY <1>2 DEF Kill
  <2> QED
    BY <2>1, MigrationRests
<1> QED
  BY <1>1, <1>2, StartMigrationKeepsInv, ReturnKeepsInv, EndMigrationKeepsInv, VisitKeepsInv,
     MigrateComparisonKeepsInv DEF UpgradeNext

(***************************************************************************)
(* A migration that is done has copied everything.                         *)
(***************************************************************************)

\* Something that is below an object is in something that is below it.
LEMMA BelowParent ==
    ASSUME mongo \in MongoContents, NEW u \in Uids, NEW v \in Below(u), v # u
    PROVE  \E g \in Below(u) : v \in Kids(g)
<1> DEFINE S == {u} \cup UNION {Kids(g) : g \in Below(u)}
<1>1. /\ Below(u) \subseteq Uids /\ u \in Below(u)
      /\ \A g \in Below(u) : Kids(g) \subseteq Below(u)
  BY BelowFacts
<1>2. S \subseteq Below(u) /\ u \in S
  BY <1>1
<1>3. Closed(S)
  BY <1>2 DEF Closed, Kids
<1>4. v \in S
  BY <1>1, <1>2, <1>3, BelowIsLeast
<1> QED
  BY <1>4

LEMMA AllFilesThere ==
    ASSUME MigrationInv, AllDone
    PROVE  /\ store.files = Reached
           /\ Firmwares \ FileObjects \subseteq store.firmware
<1>1. mongo \in MongoContents /\ StoreSound
  BY DEF MigrationInv
<1>2. ASSUME NEW fw \in Firmwares, NEW v \in Below(fw) PROVE v \in store.files
  <2>1. CASE v = fw
    BY <2>1 DEF AllDone
  <2>2. CASE v # fw
    <3>1. PICK g \in Below(fw) : v \in Kids(g)
      BY <1>1, <1>2, <2>2, BelowParent, MongoFacts
    <3> QED
      BY <3>1 DEF AllDone, Done, Linked
  <2> QED
    BY <2>1, <2>2
<1>3. store.files = Reached
  BY <1>1, <1>2 DEF StoreSound, Reached
<1>4. Firmwares \ FileObjects \subseteq store.firmware
  BY <1>1 DEF StoreSound, AllDone
<1> QED
  BY <1>3, <1>4

LEMMA AllRootsThere ==
    ASSUME MigrationInv, AllDone
    PROVE  store.roots = {l \in Reached \X Firmwares :
                              l[1] # l[2] /\ l[1] \in FileObjects /\ l[1] \in Below(l[2])}
<1>1. mongo \in MongoContents /\ StoreSound /\ Firmwares \subseteq Uids
  BY MongoFacts DEF MigrationInv
<1>2. ASSUME NEW v, NEW r, <<v, r>> \in store.roots
      PROVE  v \in Reached /\ r \in Firmwares /\ v # r /\ v \in FileObjects /\ v \in Below(r)
  <2>1. r \in Firmwares /\ v \in FileObjects /\ \E k \in Kids(r) : v \in Below(k)
    <3>1. PICK w, q \in Uids : /\ <<v, r>> = <<w, q>> /\ q \in Firmwares /\ w \in FileObjects
                               /\ \E k \in Kids(q) : w \in Below(k)
      BY <1>1, <1>2 DEF StoreSound
    <3> QED
      BY <3>1
  <2>2. PICK k \in Kids(r) : v \in Below(k)
    BY <2>1
  <2>3. k \in Below(r) /\ Below(k) \subseteq Below(r)
    BY <1>1, <2>1, <2>2, BelowFacts
  <2>4. r \notin Below(k)
    BY <1>1, <2>1, <2>2, BelowAcyclic
  <2> QED
    BY <2>1, <2>2, <2>3, <2>4 DEF Reached
<1>3. ASSUME NEW v, NEW r \in Firmwares, v # r, v \in Below(r)
      PROVE  <<v, r>> \in store.roots
  <2>1. PICK g \in Below(r) : v \in Kids(g)
    BY <1>1, <1>3, BelowParent
  <2> QED
    BY <2>1 DEF AllDone, Done, Linked
<1>4. \A l \in store.roots : l = <<l[1], l[2]>>
  BY <1>1 DEF StoreSound, StoreTypes, StoreRecords
<1>5. \A l \in Reached \X Firmwares : l = <<l[1], l[2]>> /\ l[2] \in Firmwares
  OBVIOUS
<1> DEFINE R == {l \in Reached \X Firmwares :
                     l[1] # l[2] /\ l[1] \in FileObjects /\ l[1] \in Below(l[2])}
<1>6. ASSUME NEW l \in store.roots PROVE l \in R
  BY <1>2, <1>4, <1>6
<1>7. ASSUME NEW l \in R PROVE l \in store.roots
  BY <1>3, <1>5, <1>7
<1> QED
  BY <1>6, <1>7

LEMMA AllParentsThere ==
    ASSUME MigrationInv, AllDone
    PROVE  store.parents = {l \in Reached \X Reached :
                                l[1] \in FileObjects \cap FilesIncluded[l[2]]}
<1>1. mongo \in MongoContents /\ StoreSound /\ Firmwares \subseteq Uids
  BY MongoFacts DEF MigrationInv
<1>2. ASSUME NEW v, NEW g, <<v, g>> \in store.parents
      PROVE  v \in Reached /\ g \in Reached /\ v \in Kids(g)
  <2>1. g \in Reached /\ v \in Kids(g)
    <3>1. PICK w, q \in Uids : <<v, g>> = <<w, q>> /\ q \in Reached /\ w \in Kids(q)
      BY <1>1, <1>2 DEF StoreSound
    <3> QED
      BY <3>1
  <2>2. PICK fw \in Firmwares : g \in Below(fw)
    BY <2>1 DEF Reached
  <2>3. v \in Below(fw)
    BY <1>1, <2>1, <2>2, BelowFacts
  <2> QED
    BY <2>1, <2>3 DEF Reached
<1>3. ASSUME NEW v, NEW g \in Reached, v \in Kids(g)
      PROVE  <<v, g>> \in store.parents
  BY <1>3 DEF Reached, AllDone, Done, Linked
<1>4. \A l \in store.parents : l = <<l[1], l[2]>>
  BY <1>1 DEF StoreSound, StoreTypes, StoreRecords
<1>5. \A l \in Reached \X Reached : l = <<l[1], l[2]>> /\ l[2] \in Reached
  OBVIOUS
<1> DEFINE R == {l \in Reached \X Reached : l[1] \in FileObjects \cap FilesIncluded[l[2]]}
<1>6. ASSUME NEW l \in store.parents PROVE l \in R
  BY <1>2, <1>4, <1>6 DEF Kids
<1>7. ASSUME NEW l \in R PROVE l \in store.parents
  BY <1>3, <1>5, <1>7 DEF Kids
<1> QED
  BY <1>6, <1>7

LEMMA AllAnalysesThere ==
    ASSUME MigrationInv, AllDone
    PROVE  /\ {s.uid : s \in store.analyses} = {u \in Reached : Analyses[u] # {}}
           /\ \A s \in store.analyses :
                  s.analysis.complete /\ \A v \in s.analysis.values : v.type = "text"
<1>1. mongo \in MongoContents /\ AnalysesSound /\ store.files = Reached
  BY AllFilesThere DEF MigrationInv, StoreSound
<1>2. Reached \subseteq Uids
  BY <1>1, BelowFacts, MongoFacts DEF Reached
<1>3. ASSUME NEW s \in store.analyses
      PROVE  /\ s.uid \in Reached /\ Analyses[s.uid] # {}
             /\ s.analysis.complete /\ TextOnly(s.analysis)
  <2>1. PICK u, a : u \in Reached /\ a \in Converted(u) /\ s = [uid |-> u, analysis |-> a]
    BY <1>1, <1>3 DEF AnalysesSound
  <2>2. s.uid = u /\ s.analysis = a
    BY <2>1
  <2>3. a.complete /\ TextOnly(a) /\ Analyses[u] # {}
    BY <1>1, <1>2, <2>1, ConvertedFacts
  <2> QED
    BY <2>1, <2>2, <2>3
<1>4. ASSUME NEW u \in Reached, Analyses[u] # {}
      PROVE  \E s \in store.analyses : s.uid = u
  <2>1. PICK a : a \in Converted(u)
    BY <1>1, <1>2, <1>4, ConvertedFacts
  <2>2. [uid |-> u, analysis |-> a] \in store.analyses
    BY <1>1, <2>1 DEF AnalysesSound
  <2> QED
    BY <2>2
<1> QED
  BY <1>3, <1>4 DEF TextOnly

LEMMA AllComparisonsThere ==
    ASSUME MigrationInv, migration.pc = "done"
    PROVE  store.comparisons = {c \in CompareResults : c \subseteq Reached}
<1>1. /\ store.files = Reached
      /\ \A c \in CompareResults : c \subseteq store.files => c \in store.comparisons
      /\ \A c \in store.comparisons : c \subseteq store.files
      /\ store.comparisons \subseteq CompareResults
  BY AllFilesThere DEF MigrationInv, StoreSound, StoreTypes, StoreRecords
<1> QED
  BY <1>1

LEMMA MigrationInvImplies == MigrationInv => MigrationIsComplete
<1> SUFFICES ASSUME MigrationInv, migration.pc = "done" PROVE MigrationIsComplete
  BY DEF MigrationIsComplete
<1>1. AllDone
  BY DEF MigrationInv
<1> QED
  BY <1>1, AllFilesThere, AllRootsThere, AllParentsThere, AllAnalysesThere,
     AllComparisonsThere, Zenon DEF MigrationIsComplete, Reached

\* Whatever is in MongoDB and whenever one of the programs is killed, a migration
\* that reaches its end has copied everything (migrate_fw visits again what is
\* there), and a table with all users is there, each with a fs_uniquifier of their
\* own where the table demands one.
THEOREM UpgradeKeepsData == UpgradeSpec => []DataSurvives
<1>1. UpgradeInit => UserInv /\ MigrationInv
  BY UserInitInv, MigrationInitInv
<1>2. UserInv /\ MigrationInv /\ [UpgradeNext]_upgradeVars => (UserInv /\ MigrationInv)'
  BY UserNextKeepsInv, MigrationNextKeepsInv
<1>3. UserInv /\ MigrationInv => DataSurvives
  BY UserInvImplies, MigrationInvImplies DEF DataSurvives
<1> QED
  BY <1>1, <1>2, <1>3, PTL DEF UpgradeSpec

-----------------------------------------------------------------------------
(* The requests that change something.                                     *)

Comments == [id : Nat, time : Times]

RequestRecords ==
    [step : {"idle", "delete"}]
    \cup [step : {"send"}, type : TaskTypes \ {"analysis_task"}, comments : SUBSET Comments]
    \cup [step : {"comment", "delete_comment"}, time : Times, id : Nat,
          comments : SUBSET Comments]
    \cup [step : {"add_user"}, name : Names, key : Keys]
    \cup [step : {"check_roles", "edit_roles"}, key : Keys, new : SUBSET AllRoles,
          added : SUBSET ROLES, removed : SUBSET ROLES]

ToolRecords ==
    [step : {"off", "ready", "dead"}]
    \cup [step : {"write"}, action : CliActions, name : Names, role : AllRoles, key : Keys]

ImageRecords == [stored : BOOLEAN, comments : SUBSET Comments, disk : BOOLEAN]

HistoryRecords ==
    [posted : SUBSET Comments, uncommented : SUBSET Comments, uploaded : BOOLEAN,
     deleted : BOOLEAN, rewritten : BOOLEAN, crashed : BOOLEAN, overlap : BOOLEAN,
     userOverlap : BOOLEAN]

FrontendTypes ==
    /\ image \in ImageRecords
    /\ tasks \in [TaskTypes -> Seq(SUBSET Comments)]
    /\ \A i \in DOMAIN tasks["analysis_task"] : tasks["analysis_task"][i] = {}
    /\ users \in [Names -> 0 .. MaxRequests]
    /\ roleNames \subseteq AllRoles
    /\ member \in [Keys \X AllRoles -> Nat]
    /\ req \in [Workers -> RequestRecords]
    /\ cli \in ToolRecords
    /\ started \in 0 .. MaxRequests
    /\ history \in HistoryRecords

(***************************************************************************)
(* What is under way.                                                      *)
(***************************************************************************)
Single(S) == \A x, y \in S : x = y

LEMMA AtMostOne ==
    ASSUME NEW S, IsFiniteSet(S), ~ (Cardinality(S) > 1)
    PROVE  Single(S)
<1>1. ASSUME NEW x \in S, NEW y \in S, x # y PROVE FALSE
  <2>1. IsFiniteSet(S \ {x}) /\ Cardinality(S \ {x}) = Cardinality(S) - 1
    BY FS_RemoveElement
  <2>2. /\ IsFiniteSet((S \ {x}) \ {y})
        /\ Cardinality((S \ {x}) \ {y}) = Cardinality(S \ {x}) - 1
    BY <1>1, <2>1, FS_RemoveElement
  <2>3. Cardinality((S \ {x}) \ {y}) \in Nat /\ Cardinality(S) \in Nat
    BY <2>2, FS_CardinalityType
  <2> QED
    BY <2>1, <2>2, <2>3
<1> QED
  BY <1>1 DEF Single

\* The image of a finite set is finite.
LEMMA FiniteImages ==
    ASSUME NEW S, IsFiniteSet(S), NEW T, NEW f \in [S -> T], \A t \in T : \E s \in S : f[s] = t
    PROVE  IsFiniteSet(T)
<1>1. f \in Surjection(S, T)
  BY DEF Surjection
<1> QED
  BY <1>1, FS_Surjection

LEMMA WorkersFinite ==
    ASSUME NEW S \in SUBSET Workers
    PROVE  IsFiniteSet({<<w>> : w \in S})
<1>1. IsFiniteSet(S)
  BY FrontendConstants, FS_Subset
<1> DEFINE f == [w \in S |-> <<w>>]
<1>2. f \in [S -> {<<w>> : w \in S}] /\ \A t \in {<<w>> : w \in S} : \E s \in S : f[s] = t
  OBVIOUS
<1> HIDE DEF f
<1> QED
  BY <1>1, <1>2, FiniteImages

TasksTyped == tasks \in [TaskTypes -> Seq(SUBSET Comments)]

LEMMA ActivityFinite ==
    ASSUME TasksTyped
    PROVE  IsFiniteSet(ImageActivity) /\ IsFiniteSet(UserActivity)
<1>1. ASSUME NEW t \in TaskTypes
      PROVE  IsFiniteSet({<<t, i>> : i \in DOMAIN tasks[t]})
  <2> DEFINE S == DOMAIN tasks[t]
             f == [i \in S |-> <<t, i>>]
  <2>1. PICK n \in Nat : S = 1 .. n
    BY DEF TasksTyped
  <2>2. IsFiniteSet(S)
    <3> HIDE DEF S
    <3>1. n \in Int /\ 1 \in Int
      BY <2>1
    <3>2. IsFiniteSet(1 .. n)
      BY <3>1, FS_Interval
    <3> QED
      BY <2>1, <3>2
  <2>3. f \in [S -> {<<t, i>> : i \in S}] /\ \A x \in {<<t, i>> : i \in S} : \E i \in S : f[i] = x
    OBVIOUS
  <2> HIDE DEF f, S
  <2>4. IsFiniteSet({<<t, i>> : i \in S})
    BY <2>2, <2>3, FiniteImages
  <2> QED
    BY <2>4 DEF S
<1> DEFINE Of(t) == {<<t, i>> : i \in DOMAIN tasks[t]}
<1>2. UNION {Of(t) : t \in TaskTypes} =
        Of("analysis_task") \cup (Of("re_analyze_task") \cup (Of("update_task")
          \cup (Of("single_file_task") \cup Of("file_delete_task"))))
  <2> HIDE DEF Of
  <2> QED
    BY DEF TaskTypes
<1>3. \A t \in TaskTypes : IsFiniteSet(Of(t))
  BY <1>1
<1> HIDE DEF Of
<1>4. /\ IsFiniteSet(Of("analysis_task")) /\ IsFiniteSet(Of("re_analyze_task"))
      /\ IsFiniteSet(Of("update_task")) /\ IsFiniteSet(Of("single_file_task"))
      /\ IsFiniteSet(Of("file_delete_task"))
  BY <1>3 DEF TaskTypes
<1>5. IsFiniteSet(UNION {Of(t) : t \in TaskTypes})
  <2>1. IsFiniteSet(Of("single_file_task") \cup Of("file_delete_task"))
    BY <1>4, FS_Union
  <2>2. IsFiniteSet(Of("update_task") \cup (Of("single_file_task") \cup Of("file_delete_task")))
    BY <1>4, <2>1, FS_Union
  <2>3. IsFiniteSet(Of("re_analyze_task") \cup (Of("update_task")
          \cup (Of("single_file_task") \cup Of("file_delete_task"))))
    BY <1>4, <2>2, FS_Union
  <2>4. IsFiniteSet(Of("analysis_task") \cup (Of("re_analyze_task") \cup (Of("update_task")
          \cup (Of("single_file_task") \cup Of("file_delete_task")))))
    BY <1>4, <2>3, FS_Union
  <2> QED
    BY <1>2, <2>4, Zenon
<1> DEFINE A == {w \in Workers : req[w].step \notin UserSteps \cup {"idle"}}
           B == {w \in Workers : req[w].step \in UserSteps}
<1>6. IsFiniteSet({<<w>> : w \in A}) /\ IsFiniteSet({<<w>> : w \in B})
  BY WorkersFinite
<1>7. IsFiniteSet(ImageActivity)
  <2>1. ImageActivity = {<<w>> : w \in A} \cup UNION {Of(t) : t \in TaskTypes}
    BY DEF ImageActivity, Of
  <2> HIDE DEF A
  <2> QED
    BY <1>5, <1>6, <2>1, FS_Union
<1>8. IsFiniteSet(UserActivity)
  <2> DEFINE C == {<<"tool", step>> : step \in {cli.step} \cap {"write"}}
  <2>1. C = {} \/ C = {<<"tool", "write">>}
    BY Zenon
  <2>2. IsFiniteSet(C)
    <3> HIDE DEF C
    <3> QED
      BY <2>1, FS_EmptySet, FS_Singleton
  <2>3. UserActivity = {<<w>> : w \in B} \cup C
    BY DEF UserActivity
  <2> HIDE DEF B, C
  <2> QED
    BY <1>6, <2>2, <2>3, FS_Union
<1> QED
  BY <1>7, <1>8

\* What the history says after a step.
LEMMA WatchFacts ==
    ASSUME NEW h \in HistoryRecords, Watch(h), TasksTyped'
    PROVE  /\ history' \in HistoryRecords
           /\ history'.posted = h.posted /\ history'.uncommented = h.uncommented
           /\ history'.rewritten = h.rewritten
           /\ ~ history'.overlap => ~ h.overlap /\ Single(ImageActivity')
           /\ ~ history'.userOverlap => ~ h.userOverlap /\ Single(UserActivity')
<1>1. IsFiniteSet(ImageActivity') /\ IsFiniteSet(UserActivity')
  <2>1. (IsFiniteSet(ImageActivity) /\ IsFiniteSet(UserActivity))'
    BY ActivityFinite, PTL
  <2> QED
    BY <2>1
<1>2. PICK a \in BOOLEAN : a <=> Cardinality(ImageActivity') > 1
  OBVIOUS
<1>3. PICK b \in BOOLEAN : b <=> Cardinality(UserActivity') > 1
  OBVIOUS
<1>4. PICK c \in BOOLEAN, d \in BOOLEAN : c = (h.overlap \/ a) /\ d = (h.userOverlap \/ b)
  OBVIOUS
<1>5. history' = [h EXCEPT !.overlap = c, !.userOverlap = d]
  <2>1. (h.overlap \/ Cardinality(ImageActivity') > 1) = c
    BY <1>2, <1>4 DEF HistoryRecords
  <2>2. (h.userOverlap \/ Cardinality(UserActivity') > 1) = d
    BY <1>3, <1>4 DEF HistoryRecords
  <2>3. history' = [h EXCEPT !.overlap = h.overlap \/ Cardinality(ImageActivity') > 1,
                             !.userOverlap = h.userOverlap \/ Cardinality(UserActivity') > 1]
    BY DEF Watch
  <2> QED
    BY <2>1, <2>2, <2>3, Zenon
<1>6. /\ history' \in HistoryRecords
      /\ history'.posted = h.posted /\ history'.uncommented = h.uncommented
      /\ history'.rewritten = h.rewritten
      /\ history'.overlap = c /\ history'.userOverlap = d
  BY <1>4, <1>5 DEF HistoryRecords
<1>7. ~ a => Single(ImageActivity')
  BY <1>1, <1>2, AtMostOne
<1>8. ~ b => Single(UserActivity')
  BY <1>1, <1>3, AtMostOne
<1> QED
  BY <1>4, <1>6, <1>7, <1>8

(***************************************************************************)
(* The records of the requests.                                            *)
(***************************************************************************)
LEMMA MakeRequests ==
    /\ Idle \in RequestRecords /\ [step |-> "delete"] \in RequestRecords
    /\ \A t \in TaskTypes \ {"analysis_task"}, c \in SUBSET Comments :
          [step |-> "send", type |-> t, comments |-> c] \in RequestRecords
    /\ \A o \in {"comment", "delete_comment"}, t \in Times, i \in Nat, c \in SUBSET Comments :
          [step |-> o, time |-> t, id |-> i, comments |-> c] \in RequestRecords
    /\ \A n \in Names, k \in Keys :
          [step |-> "add_user", name |-> n, key |-> k] \in RequestRecords
    /\ \A o \in {"check_roles", "edit_roles"}, k \in Keys, n \in SUBSET AllRoles,
          a \in SUBSET ROLES, b \in SUBSET ROLES :
          [step |-> o, key |-> k, new |-> n, added |-> a, removed |-> b] \in RequestRecords
<1>1. Idle \in RequestRecords /\ [step |-> "delete"] \in RequestRecords
  BY DEF Idle, RequestRecords
<1>2. \A t \in TaskTypes \ {"analysis_task"}, c \in SUBSET Comments :
         [step |-> "send", type |-> t, comments |-> c] \in RequestRecords
  BY DEF RequestRecords
<1>3. \A o \in {"comment", "delete_comment"}, t \in Times, i \in Nat, c \in SUBSET Comments :
         [step |-> o, time |-> t, id |-> i, comments |-> c] \in RequestRecords
  BY DEF RequestRecords
<1>4. \A n \in Names, k \in Keys :
         [step |-> "add_user", name |-> n, key |-> k] \in RequestRecords
  BY DEF RequestRecords
<1>5. \A o \in {"check_roles", "edit_roles"}, k \in Keys, n \in SUBSET AllRoles,
         a \in SUBSET ROLES, b \in SUBSET ROLES :
         [step |-> o, key |-> k, new |-> n, added |-> a, removed |-> b] \in RequestRecords
  BY DEF RequestRecords
<1> QED
  BY <1>1, <1>2, <1>3, <1>4, <1>5

Steppings ==
    {"idle", "delete", "send", "comment", "delete_comment", "add_user", "check_roles", "edit_roles"}

LEMMA ReadRequests ==
    ASSUME NEW r \in RequestRecords
    PROVE  /\ r.step \in Steppings
           /\ r.step = "send" => /\ r.type \in TaskTypes \ {"analysis_task"}
                                 /\ r.comments \in SUBSET Comments
           /\ r.step \in {"comment", "delete_comment"} =>
                 r.time \in Times /\ r.id \in Nat /\ r.comments \in SUBSET Comments
           /\ r.step = "add_user" => r.name \in Names /\ r.key \in Keys
           /\ r.step \in {"check_roles", "edit_roles"} =>
                 /\ r.key \in Keys /\ r.new \in SUBSET AllRoles
                 /\ r.added \in SUBSET ROLES /\ r.removed \in SUBSET ROLES
  BY DEF RequestRecords, Steppings

\* A request goes on.
LEMMA OneRequest ==
    ASSUME req \in [Workers -> RequestRecords], NEW w \in Workers, NEW r \in RequestRecords,
           req' = [req EXCEPT ![w] = r]
    PROVE  /\ req' \in [Workers -> RequestRecords]
           /\ req'[w] = r /\ \A v \in Workers : v # w => req'[v] = req[v]
  OBVIOUS

(***************************************************************************)
(* Types.                                                                  *)
(***************************************************************************)
RequestsTyped == req \in [Workers -> RequestRecords]
UsersTyped ==
    /\ users \in [Names -> 0 .. MaxRequests] /\ roleNames \subseteq AllRoles
    /\ member \in [Keys \X AllRoles -> Nat]
UploadsPlain == \A i \in DOMAIN tasks["analysis_task"] : tasks["analysis_task"][i] = {}

LEMMA TypesParts ==
    FrontendTypes <=> /\ image \in ImageRecords /\ TasksTyped /\ UploadsPlain /\ UsersTyped
                      /\ RequestsTyped /\ cli \in ToolRecords /\ started \in 0 .. MaxRequests
                      /\ history \in HistoryRecords
  BY DEF FrontendTypes, TasksTyped, UploadsPlain, UsersTyped, RequestsTyped

LEMMA ReceiveFacts ==
    ASSUME started \in 0 .. MaxRequests, NEW w, Receive(w)
    PROVE  started' \in 0 .. MaxRequests /\ started' = started + 1 /\ started' \in Keys
                /\ started' \in Nat
  BY FrontendConstants DEF Receive, Keys

\* A task is appended to its queue, or the first one is taken.
LEMMA PushFacts ==
    ASSUME TasksTyped, UploadsPlain, NEW t \in TaskTypes, NEW c \in SUBSET Comments,
           t = "analysis_task" => c = {}, Push(t, c)
    PROVE  /\ TasksTyped' /\ UploadsPlain'
           /\ \A u \in TaskTypes : u # t => tasks'[u] = tasks[u]
           /\ tasks'[t] = Append(tasks[t], c)
<1>1. tasks[t] \in Seq(SUBSET Comments)
  BY DEF TasksTyped
<1>2. Append(tasks[t], c) \in Seq(SUBSET Comments)
  BY <1>1
<1>3. tasks' = [tasks EXCEPT ![t] = Append(tasks[t], c)]
  BY DEF Push
<1>4. /\ TasksTyped' /\ tasks'[t] = Append(tasks[t], c)
      /\ \A u \in TaskTypes : u # t => tasks'[u] = tasks[u]
  BY <1>2, <1>3 DEF TasksTyped
<1>5. UploadsPlain'
  <2>1. CASE t = "analysis_task"
    <3>1. \A i \in DOMAIN Append(tasks[t], c) : Append(tasks[t], c)[i] = {}
      BY <1>1, <2>1 DEF UploadsPlain
    <3> QED
      BY <1>4, <2>1, <3>1 DEF UploadsPlain
  <2>2. CASE t # "analysis_task"
    BY <1>4, <2>2 DEF UploadsPlain, TaskTypes
  <2> QED
    BY <2>1, <2>2
<1> QED
  BY <1>4, <1>5

LEMMA TakeFacts ==
    ASSUME TasksTyped, UploadsPlain, NEW t \in TaskTypes, tasks[t] # <<>>,
           tasks' = [tasks EXCEPT ![t] = Tail(@)]
    PROVE  /\ TasksTyped' /\ UploadsPlain'
           /\ \A u \in TaskTypes : u # t => tasks'[u] = tasks[u]
           /\ tasks'[t] = Tail(tasks[t])
           /\ Head(tasks[t]) \in SUBSET Comments
           /\ t = "analysis_task" => Head(tasks[t]) = {}
<1>1. tasks[t] \in Seq(SUBSET Comments)
  BY DEF TasksTyped
<1>2. Tail(tasks[t]) \in Seq(SUBSET Comments) /\ Head(tasks[t]) \in SUBSET Comments
  BY <1>1
<1>3. tasks' = [tasks EXCEPT ![t] = Tail(tasks[t])]
  OBVIOUS
<1>4. /\ TasksTyped' /\ tasks'[t] = Tail(tasks[t])
      /\ \A u \in TaskTypes : u # t => tasks'[u] = tasks[u]
  BY <1>2, <1>3 DEF TasksTyped
<1>5. UploadsPlain' /\ (t = "analysis_task" => Head(tasks[t]) = {})
  <2>1. CASE t = "analysis_task"
    <3>1. \A i \in DOMAIN Tail(tasks[t]) : Tail(tasks[t])[i] = {}
      BY <1>1, <2>1 DEF UploadsPlain
    <3>2. Head(tasks[t]) = {}
      BY <1>1, <2>1 DEF UploadsPlain
    <3> QED
      BY <1>4, <2>1, <3>1, <3>2 DEF UploadsPlain
  <2>2. CASE t # "analysis_task"
    BY <1>4, <2>2 DEF UploadsPlain, TaskTypes
  <2> QED
    BY <2>1, <2>2
<1> QED
  BY <1>2, <1>4, <1>5

\* What a record of the history becomes.
LEMMA HistoryChanges ==
    ASSUME history \in HistoryRecords
    PROVE  /\ \A b \in BOOLEAN : [history EXCEPT !.rewritten = b] \in HistoryRecords
           /\ \A b \in BOOLEAN : [history EXCEPT !.deleted = b] \in HistoryRecords
           /\ \A b \in BOOLEAN : [history EXCEPT !.crashed = b] \in HistoryRecords
           /\ \A b \in BOOLEAN : [history EXCEPT !.userOverlap = b] \in HistoryRecords
           /\ \A b \in BOOLEAN : [history EXCEPT !.uploaded = TRUE, !.rewritten = b] \in HistoryRecords
           /\ \A p \in SUBSET Comments : [history EXCEPT !.posted = p] \in HistoryRecords
           /\ \A p \in SUBSET Comments : [history EXCEPT !.uncommented = p] \in HistoryRecords
  BY DEF HistoryRecords

\* What the image becomes.
LEMMA ImageChanges ==
    ASSUME image \in ImageRecords
    PROVE  /\ \A c \in SUBSET Comments : [image EXCEPT !.comments = c] \in ImageRecords
           /\ \A b \in BOOLEAN, c \in SUBSET Comments :
                 [image EXCEPT !.stored = b, !.comments = c] \in ImageRecords
           /\ [image EXCEPT !.disk = FALSE] \in ImageRecords
           /\ \A c \in SUBSET Comments : [stored |-> TRUE, comments |-> c, disk |-> TRUE] \in ImageRecords
  BY DEF ImageRecords

LEMMA TypesAfter ==
    ASSUME image' \in ImageRecords, TasksTyped', UploadsPlain', UsersTyped', RequestsTyped',
           cli' \in ToolRecords, started' \in 0 .. MaxRequests, history' \in HistoryRecords
    PROVE  FrontendTypes'
<1>1. /\ (image \in ImageRecords /\ TasksTyped /\ UploadsPlain /\ UsersTyped
          /\ RequestsTyped /\ cli \in ToolRecords /\ started \in 0 .. MaxRequests
          /\ history \in HistoryRecords)'
  BY DEF ImageRecords, ToolRecords, HistoryRecords
<1> QED
  BY <1>1, TypesParts, PTL

\* Requests about the image leave users alone, the others the image.
LEMMA ImageRequestTypes ==
    ASSUME FrontendTypes, UNCHANGED <<userVars, cli>>, image' \in ImageRecords, TasksTyped',
           UploadsPlain', RequestsTyped', started' \in 0 .. MaxRequests,
           NEW h \in HistoryRecords, Watch(h)
    PROVE  FrontendTypes'
<1>1. UsersTyped' /\ cli' \in ToolRecords
  BY TypesParts DEF UsersTyped, userVars
<1>2. history' \in HistoryRecords
  BY WatchFacts
<1> QED
  BY <1>1, <1>2, TypesAfter

LEMMA UserRequestTypes ==
    ASSUME FrontendTypes, UNCHANGED imageVars, UsersTyped', RequestsTyped', cli' \in ToolRecords,
           started' \in 0 .. MaxRequests, NEW h \in HistoryRecords, Watch(h)
    PROVE  FrontendTypes'
<1>1. image' \in ImageRecords /\ TasksTyped' /\ UploadsPlain'
  BY TypesParts DEF TasksTyped, UploadsPlain, imageVars
<1>2. history' \in HistoryRecords
  BY <1>1, WatchFacts
<1> QED
  BY <1>1, <1>2, TypesAfter

\* The request of a worker is another record afterwards.
LEMMA RequestTyped ==
    ASSUME FrontendTypes, NEW w \in Workers, NEW r \in RequestRecords,
           req' = req \/ req' = [req EXCEPT ![w] = r]
    PROVE  RequestsTyped'
  BY TypesParts DEF RequestsTyped

LEMMA SameTasks ==
    ASSUME FrontendTypes, tasks' = tasks
    PROVE  TasksTyped' /\ UploadsPlain'
  BY TypesParts DEF TasksTyped, UploadsPlain

LEMMA PostUploadTypes ==
    ASSUME FrontendTypes, NEW w \in Workers, NEW form, PostUpload(w, form)
    PROVE  FrontendTypes'
<1>1. /\ image \in ImageRecords /\ TasksTyped /\ UploadsPlain /\ RequestsTyped
      /\ started \in 0 .. MaxRequests /\ history \in HistoryRecords
  BY TypesParts
<1>2. /\ image' = image /\ req' = req /\ UNCHANGED <<userVars, cli>>
      /\ started' \in 0 .. MaxRequests
  BY <1>1, ReceiveFacts DEF PostUpload
<1>3. TasksTyped' /\ UploadsPlain'
  <2>1. CASE tasks' = tasks
    BY <2>1, SameTasks
  <2>2. CASE Push("analysis_task", {})
    <3>1. "analysis_task" \in TaskTypes /\ {} \in SUBSET Comments
      BY DEF TaskTypes
    <3> QED
      BY <1>1, <2>2, <3>1, PushFacts
  <2> QED
    BY <2>1, <2>2 DEF PostUpload
<1>4. PICK b \in BOOLEAN : b = (history.rewritten \/ image.stored)
  BY <1>1 DEF HistoryRecords, ImageRecords
<1>5. PICK h : /\ h = IF tasks' = tasks THEN history
                      ELSE [history EXCEPT !.uploaded = TRUE, !.rewritten = @ \/ image.stored]
               /\ Watch(h)
  BY DEF PostUpload
<1>6. h \in {history, [history EXCEPT !.uploaded = TRUE, !.rewritten = b]}
  BY <1>4, <1>5
<1>7. h \in HistoryRecords
  BY <1>1, <1>6, HistoryChanges
<1>8. RequestsTyped'
  BY <1>1, <1>2 DEF RequestsTyped
<1> QED
  BY <1>1, <1>2, <1>3, <1>5, <1>7, <1>8, ImageRequestTypes

LEMMA SubmitTypes ==
    ASSUME FrontendTypes, NEW w \in Workers, NEW t \in TaskTypes \ {"analysis_task"}, NEW form,
           Submit(w, t, form)
    PROVE  FrontendTypes'
<1>1. /\ image \in ImageRecords /\ started \in 0 .. MaxRequests /\ history \in HistoryRecords
  BY TypesParts
<1>2. /\ image' = image /\ tasks' = tasks /\ UNCHANGED <<userVars, cli>> /\ Watch(history)
      /\ started' \in 0 .. MaxRequests
  BY <1>1, ReceiveFacts DEF Submit
<1>3. PICK r : r = [step |-> "send", type |-> t, comments |-> image.comments]
  OBVIOUS
<1>4. r \in RequestRecords
  BY <1>1, <1>3, MakeRequests DEF ImageRecords
<1>5. req' = req \/ req' = [req EXCEPT ![w] = r]
  BY <1>3 DEF Submit
<1> QED
  BY <1>1, <1>2, <1>4, <1>5, RequestTyped, SameTasks, ImageRequestTypes

LEMMA SendTaskTypes ==
    ASSUME FrontendTypes, NEW w \in Workers, SendTask(w)
    PROVE  FrontendTypes'
<1>1. /\ image \in ImageRecords /\ TasksTyped /\ UploadsPlain /\ req[w] \in RequestRecords
      /\ started \in 0 .. MaxRequests /\ history \in HistoryRecords
  BY TypesParts DEF RequestsTyped
<1>2. /\ image' = image /\ started' = started /\ UNCHANGED <<userVars, cli>>
      /\ req' = [req EXCEPT ![w] = Idle]
  BY DEF SendTask, Answer
<1>3. req[w].type \in TaskTypes \ {"analysis_task"} /\ req[w].comments \in SUBSET Comments
  BY <1>1, ReadRequests DEF SendTask
<1>4. TasksTyped' /\ UploadsPlain'
  BY <1>1, <1>3, PushFacts DEF SendTask
<1>5. PICK b \in BOOLEAN : b = (history.rewritten \/ req[w].type = "re_analyze_task")
  BY <1>1 DEF HistoryRecords
<1>6. PICK h : h = [history EXCEPT !.rewritten = b] /\ Watch(h)
  BY <1>5 DEF SendTask
<1> QED
  BY <1>1, <1>2, <1>4, <1>6, HistoryChanges, MakeRequests, RequestTyped, ImageRequestTypes

LEMMA RedoAnalysisTypes ==
    ASSUME FrontendTypes, NEW w \in Workers, NEW form, RedoAnalysis(w, form)
    PROVE  FrontendTypes'
<1>1. /\ image \in ImageRecords /\ started \in 0 .. MaxRequests /\ history \in HistoryRecords
  BY TypesParts
<1>2. /\ tasks' = tasks /\ UNCHANGED <<userVars, cli>> /\ started' \in 0 .. MaxRequests
  BY <1>1, ReceiveFacts DEF RedoAnalysis
<1>3. {} \in SUBSET Comments /\ "re_analyze_task" \in TaskTypes \ {"analysis_task"}
  BY DEF TaskTypes
<1>4. image' \in ImageRecords
  <2>1. image' \in {image, [image EXCEPT !.stored = FALSE, !.comments = {}]}
    BY DEF RedoAnalysis
  <2> QED
    BY <1>1, <1>3, <2>1, ImageChanges
<1>5. PICK r : r = [step |-> "send", type |-> "re_analyze_task", comments |-> {}]
  OBVIOUS
<1>6. r \in RequestRecords
  BY <1>3, <1>5, MakeRequests
<1>7. req' = req \/ req' = [req EXCEPT ![w] = r]
  BY <1>5 DEF RedoAnalysis
<1>8. PICK b \in BOOLEAN : b = (history.rewritten \/ req' # req)
  BY <1>1 DEF HistoryRecords
<1>9. PICK h : h = [history EXCEPT !.rewritten = b] /\ Watch(h)
  BY <1>8 DEF RedoAnalysis
<1> QED
  BY <1>1, <1>2, <1>4, <1>6, <1>7, <1>9, HistoryChanges, RequestTyped, SameTasks,
     ImageRequestTypes

LEMMA CheckFirmwareTypes ==
    ASSUME FrontendTypes, NEW w \in Workers, CheckFirmware(w)
    PROVE  FrontendTypes'
<1>1. /\ image \in ImageRecords /\ started \in 0 .. MaxRequests /\ history \in HistoryRecords
  BY TypesParts
<1>2. /\ image' = image /\ tasks' = tasks /\ UNCHANGED <<userVars, cli>>
      /\ started' \in 0 .. MaxRequests
  BY <1>1, ReceiveFacts DEF CheckFirmware
<1>3. req' = req \/ req' = [req EXCEPT ![w] = [step |-> "delete"]]
  BY DEF CheckFirmware
<1>4. PICK b \in BOOLEAN : b = (history.deleted \/ image.stored)
  BY <1>1 DEF HistoryRecords, ImageRecords
<1>5. PICK h : h = [history EXCEPT !.deleted = b] /\ Watch(h)
  BY <1>4 DEF CheckFirmware
<1> QED
  BY <1>1, <1>2, <1>3, <1>5, HistoryChanges, MakeRequests, RequestTyped, SameTasks,
     ImageRequestTypes

LEMMA DeleteFirmwareTypes ==
    ASSUME FrontendTypes, NEW w \in Workers, DeleteFirmware(w)
    PROVE  FrontendTypes'
<1>1. /\ image \in ImageRecords /\ started \in 0 .. MaxRequests /\ history \in HistoryRecords
  BY TypesParts
<1>2. /\ tasks' = tasks /\ started' = started /\ UNCHANGED <<userVars, cli>>
  BY DEF DeleteFirmware
<1>3. {} \in SUBSET Comments /\ "file_delete_task" \in TaskTypes \ {"analysis_task"}
  BY DEF TaskTypes
<1>4. image' \in ImageRecords
  BY <1>1, <1>3, ImageChanges DEF DeleteFirmware
<1>5. PICK r : r = IF image.stored
                   THEN [step |-> "send", type |-> "file_delete_task", comments |-> {}] ELSE Idle
  OBVIOUS
<1>6. r \in RequestRecords
  BY <1>3, <1>5, MakeRequests
<1>7. req' = [req EXCEPT ![w] = r]
  BY <1>5 DEF DeleteFirmware
<1>8. PICK h : h = [history EXCEPT !.rewritten = TRUE] /\ Watch(h)
  BY DEF DeleteFirmware
<1> QED
  BY <1>1, <1>2, <1>4, <1>6, <1>7, <1>8, HistoryChanges, RequestTyped, SameTasks,
     ImageRequestTypes

LEMMA BackEndTypes ==
    ASSUME FrontendTypes, NEW t \in TaskTypes, BackEnd(t)
    PROVE  FrontendTypes'
<1>1. /\ image \in ImageRecords /\ TasksTyped /\ UploadsPlain
      /\ started \in 0 .. MaxRequests /\ history \in HistoryRecords /\ RequestsTyped
  BY TypesParts
<1>2. /\ started' = started /\ req' = req /\ UNCHANGED <<userVars, cli>> /\ Watch(history)
      /\ tasks[t] # <<>> /\ tasks' = [tasks EXCEPT ![t] = Tail(@)]
  BY DEF BackEnd
<1>3. TasksTyped' /\ UploadsPlain' /\ Head(tasks[t]) \in SUBSET Comments
  BY <1>1, <1>2, TakeFacts
<1>4. image' \in ImageRecords
  <2>1. PICK c \in SUBSET Comments : c = Head(tasks[t])
    BY <1>3
  <2>2. image' \in {image, [stored |-> TRUE, comments |-> c, disk |-> TRUE],
                    [image EXCEPT !.stored = TRUE, !.comments = c], [image EXCEPT !.disk = FALSE]}
    BY <2>1 DEF BackEnd
  <2> QED
    BY <1>1, <2>1, <2>2, ImageChanges
<1>5. RequestsTyped'
  BY <1>1, <1>2 DEF RequestsTyped
<1> QED
  BY <1>1, <1>2, <1>3, <1>4, <1>5, ImageRequestTypes

LEMMA ReadCommentsTypes ==
    ASSUME FrontendTypes, NEW w \in Workers, NEW op \in {"comment", "delete_comment"},
           NEW time \in Times, ReadComments(w, op, time)
    PROVE  FrontendTypes'
<1>1. /\ image \in ImageRecords /\ started \in 0 .. MaxRequests /\ history \in HistoryRecords
  BY TypesParts
<1>2. /\ image' = image /\ tasks' = tasks /\ UNCHANGED <<userVars, cli>> /\ Watch(history)
      /\ started' \in 0 .. MaxRequests /\ started' \in Nat
  BY <1>1, ReceiveFacts DEF ReadComments
<1>3. PICK r : r = [step |-> op, time |-> time, id |-> started', comments |-> image.comments]
  OBVIOUS
<1>4. r \in RequestRecords
  BY <1>1, <1>2, <1>3, MakeRequests DEF ImageRecords
<1>5. req' = req \/ req' = [req EXCEPT ![w] = r]
  BY <1>3 DEF ReadComments
<1> QED
  BY <1>1, <1>2, <1>4, <1>5, RequestTyped, SameTasks, ImageRequestTypes

LEMMA AddCommentTypes ==
    ASSUME FrontendTypes, NEW w \in Workers, AddComment(w)
    PROVE  FrontendTypes'
<1>1. /\ image \in ImageRecords /\ started \in 0 .. MaxRequests /\ history \in HistoryRecords
      /\ req[w] \in RequestRecords
  BY TypesParts DEF RequestsTyped
<1>2. /\ tasks' = tasks /\ started' = started /\ UNCHANGED <<userVars, cli>>
      /\ req' = [req EXCEPT ![w] = Idle]
  BY DEF AddComment, Answer
<1>3. /\ req[w].time \in Times /\ req[w].id \in Nat /\ req[w].comments \in SUBSET Comments
  BY <1>1, ReadRequests DEF AddComment
<1>4. NewComment(req[w]) \in Comments
  BY <1>3 DEF NewComment, Comments
<1>5. PICK c \in SUBSET Comments : c = req[w].comments \cup {NewComment(req[w])}
  BY <1>3, <1>4
<1>6. PICK p \in SUBSET Comments : p = history.posted \cup {NewComment(req[w])}
  BY <1>1, <1>4 DEF HistoryRecords
<1>7. image' \in {image, [image EXCEPT !.comments = c]}
  BY <1>5 DEF AddComment
<1>8. PICK h : h \in {history, [history EXCEPT !.posted = p]} /\ Watch(h)
  BY <1>6 DEF AddComment
<1> QED
  BY <1>1, <1>2, <1>7, <1>8, ImageChanges, HistoryChanges, MakeRequests, RequestTyped, SameTasks,
     ImageRequestTypes

LEMMA DeleteCommentTypes ==
    ASSUME FrontendTypes, NEW w \in Workers, DeleteComment(w)
    PROVE  FrontendTypes'
<1>1. /\ image \in ImageRecords /\ started \in 0 .. MaxRequests /\ history \in HistoryRecords
      /\ req[w] \in RequestRecords
  BY TypesParts DEF RequestsTyped
<1>2. /\ tasks' = tasks /\ started' = started /\ UNCHANGED <<userVars, cli>>
      /\ req' = [req EXCEPT ![w] = Idle]
  BY DEF DeleteComment, Answer
<1>3. req[w].comments \in SUBSET Comments
  BY <1>1, ReadRequests DEF DeleteComment
<1>4. PICK c \in SUBSET Comments : c = {x \in req[w].comments : x.time # req[w].time}
  BY <1>3
<1>5. PICK p \in SUBSET Comments :
         p = history.uncommented \cup {x \in req[w].comments : x.time = req[w].time}
  BY <1>1, <1>3 DEF HistoryRecords
<1>6. image' \in {image, [image EXCEPT !.comments = c]}
  BY <1>4 DEF DeleteComment
<1>7. PICK h : h = [history EXCEPT !.uncommented = p] /\ Watch(h)
  BY <1>5 DEF DeleteComment
<1> QED
  BY <1>1, <1>2, <1>6, <1>7, ImageChanges, HistoryChanges, MakeRequests, RequestTyped, SameTasks,
     ImageRequestTypes

-----------------------------------------------------------------------------
LEMMA MakeTool ==
    /\ \A step \in {"off", "ready", "dead"} : [step |-> step] \in ToolRecords
    /\ \A a \in CliActions, n \in Names, r \in AllRoles, k \in Keys :
          [step |-> "write", action |-> a, name |-> n, role |-> r, key |-> k] \in ToolRecords
  BY DEF ToolRecords

LEMMA ReadTool ==
    ASSUME cli \in ToolRecords
    PROVE  /\ cli.step \in {"off", "ready", "dead", "write"}
           /\ cli.step = "write" => /\ cli.action \in CliActions /\ cli.name \in Names
                                    /\ cli.role \in AllRoles /\ cli.key \in Keys
  BY DEF ToolRecords

LEMMA Pairs ==
    \A m \in Keys \X AllRoles : m = <<m[1], m[2]>> /\ m[1] \in Keys /\ m[2] \in AllRoles
  OBVIOUS

LEMMA EditedTypes ==
    ASSUME member \in [Keys \X AllRoles -> Nat], NEW k, NEW a, NEW b
    PROVE  Edited(k, a, b) \in [Keys \X AllRoles -> Nat]
  BY DEF Edited

LEMMA InsertTypes ==
    ASSUME UsersTyped, NEW n \in Names, NEW k \in Keys, NEW roles, InsertUser(n, k, roles),
           roleNames' = roleNames
    PROVE  UsersTyped'
  BY FrontendConstants DEF UsersTyped, InsertUser, Keys

LEMMA RemoveTypes ==
    ASSUME UsersTyped, NEW n \in Names, RemoveUser(n), roleNames' = roleNames
    PROVE  UsersTyped'
  BY FrontendConstants DEF UsersTyped, RemoveUser

LEMMA SameUsers ==
    ASSUME UsersTyped, UNCHANGED userVars
    PROVE  UsersTyped'
  BY DEF UsersTyped, userVars

LEMMA UserExistsTypes ==
    ASSUME FrontendTypes, NEW w \in Workers, NEW n \in Names, UserExists(w, n)
    PROVE  FrontendTypes'
<1>1. /\ UsersTyped /\ started \in 0 .. MaxRequests /\ history \in HistoryRecords
      /\ cli \in ToolRecords
  BY TypesParts
<1>2. /\ UNCHANGED imageVars /\ UNCHANGED userVars /\ cli' = cli /\ Watch(history)
      /\ started' \in 0 .. MaxRequests /\ started' \in Keys
  BY <1>1, ReceiveFacts DEF UserExists
<1>3. PICK r : r = [step |-> "add_user", name |-> n, key |-> started']
  OBVIOUS
<1>4. r \in RequestRecords
  BY <1>2, <1>3, MakeRequests
<1>5. req' = req \/ req' = [req EXCEPT ![w] = r]
  BY <1>3 DEF UserExists
<1> QED
  BY <1>1, <1>2, <1>4, <1>5, RequestTyped, SameUsers, UserRequestTypes

LEMMA AddUserTypes ==
    ASSUME FrontendTypes, NEW w \in Workers, AddUser(w)
    PROVE  FrontendTypes'
<1>1. /\ UsersTyped /\ started \in 0 .. MaxRequests /\ history \in HistoryRecords
      /\ cli \in ToolRecords /\ req[w] \in RequestRecords
  BY TypesParts DEF RequestsTyped
<1>2. /\ UNCHANGED imageVars /\ roleNames' = roleNames /\ cli' = cli /\ Watch(history)
      /\ started' = started /\ req' = [req EXCEPT ![w] = Idle]
  BY DEF AddUser, Answer
<1>3. req[w].name \in Names /\ req[w].key \in Keys
  BY <1>1, ReadRequests DEF AddUser
<1>4. UsersTyped'
  <2>1. CASE UNCHANGED <<users, member>>
    BY <1>1, <1>2, <2>1 DEF UsersTyped
  <2>2. CASE InsertUser(req[w].name, req[w].key, {})
    BY <1>1, <1>2, <1>3, <2>2, InsertTypes
  <2> QED
    BY <2>1, <2>2 DEF AddUser
<1> QED
  BY <1>1, <1>2, <1>4, MakeRequests, RequestTyped, UserRequestTypes

LEMMA FindUserTypes ==
    ASSUME FrontendTypes, NEW w \in Workers, NEW n \in Names, NEW selected \in SUBSET ROLES,
           FindUser(w, n, selected)
    PROVE  FrontendTypes'
<1>1. /\ UsersTyped /\ started \in 0 .. MaxRequests /\ history \in HistoryRecords
      /\ cli \in ToolRecords
  BY TypesParts
<1>2. /\ UNCHANGED imageVars /\ UNCHANGED userVars /\ cli' = cli /\ Watch(history)
      /\ started' \in 0 .. MaxRequests
  BY <1>1, ReceiveFacts DEF FindUser
<1>3. PICK a \in SUBSET ROLES, b \in SUBSET ROLES :
         /\ a = selected \ (RolesOf(users[n]) \cap ROLES)
         /\ b = (RolesOf(users[n]) \cap ROLES) \ selected
  OBVIOUS
<1>4. CASE users[n] = 0
  <2>1. req' = req
    BY <1>4 DEF FindUser
  <2> QED
    BY <1>1, <1>2, <2>1, MakeRequests, RequestTyped, SameUsers, UserRequestTypes
<1>5. CASE users[n] # 0
  <2>1. PICK r : r = [step |-> "check_roles", key |-> users[n], new |-> {}, added |-> a,
                      removed |-> b]
    OBVIOUS
  <2>2. users[n] \in Keys /\ {} \in SUBSET AllRoles
    BY <1>1, <1>5, FrontendConstants DEF UsersTyped, Keys
  <2>3. r \in RequestRecords
    BY <1>3, <2>1, <2>2, MakeRequests
  <2>4. req' = [req EXCEPT ![w] = r]
    BY <1>3, <1>5, <2>1 DEF FindUser
  <2> QED
    BY <1>1, <1>2, <2>3, <2>4, RequestTyped, SameUsers, UserRequestTypes
<1> QED
  BY <1>4, <1>5

\* The request to edit roles after the second step.
Checked(r) == [r EXCEPT !.step = "edit_roles", !.new = r.added \ roleNames]

LEMMA CheckedTypes ==
    ASSUME NEW r \in RequestRecords, r.step = "check_roles"
    PROVE  /\ Checked(r) \in RequestRecords /\ Checked(r).step = "edit_roles"
           /\ Checked(r).new = r.added \ roleNames /\ Checked(r).key = r.key
           /\ Checked(r).added = r.added /\ Checked(r).removed = r.removed
<1>1. r \in [step : {"check_roles", "edit_roles"}, key : Keys, new : SUBSET AllRoles,
             added : SUBSET ROLES, removed : SUBSET ROLES]
  BY DEF RequestRecords
<1>2. r.added \ roleNames \in SUBSET AllRoles
  BY <1>1 DEF AllRoles
<1> QED
  BY <1>1, <1>2 DEF RequestRecords, Checked

LEMMA RoleExistsTypes ==
    ASSUME FrontendTypes, NEW w \in Workers, RoleExists(w)
    PROVE  FrontendTypes'
<1>1. /\ UsersTyped /\ started \in 0 .. MaxRequests /\ history \in HistoryRecords
      /\ cli \in ToolRecords /\ req \in [Workers -> RequestRecords]
  BY TypesParts DEF RequestsTyped
<1>2. /\ UNCHANGED imageVars /\ UNCHANGED userVars /\ cli' = cli /\ Watch(history)
      /\ started' = started
  BY DEF RoleExists
<1>3. req' = [req EXCEPT ![w] = Checked(req[w])]
  BY <1>1 DEF RoleExists, Checked
<1>4. Checked(req[w]) \in RequestRecords
  BY <1>1, CheckedTypes DEF RoleExists
<1> QED
  BY <1>1, <1>2, <1>3, <1>4, RequestTyped, SameUsers, UserRequestTypes

LEMMA EditRolesTypes ==
    ASSUME FrontendTypes, NEW w \in Workers, EditRoles(w)
    PROVE  FrontendTypes'
<1>1. /\ UsersTyped /\ started \in 0 .. MaxRequests /\ history \in HistoryRecords
      /\ cli \in ToolRecords /\ req[w] \in RequestRecords
  BY TypesParts DEF RequestsTyped
<1>2. /\ UNCHANGED imageVars /\ users' = users /\ cli' = cli /\ Watch(history)
      /\ started' = started /\ req' = [req EXCEPT ![w] = Idle]
  BY DEF EditRoles, Answer
<1>3. req[w].new \in SUBSET AllRoles
  BY <1>1, ReadRequests DEF EditRoles
<1>4. UsersTyped'
  <2>1. CASE UNCHANGED <<roleNames, member>>
    BY <1>1, <1>2, <2>1 DEF UsersTyped
  <2>2. CASE /\ roleNames' = roleNames \cup req[w].new
             /\ member' = Edited(req[w].key, req[w].added, req[w].removed)
    BY <1>1, <1>2, <1>3, <2>2, EditedTypes DEF UsersTyped
  <2> QED
    BY <2>1, <2>2 DEF EditRoles
<1> QED
  BY <1>1, <1>2, <1>4, MakeRequests, RequestTyped, UserRequestTypes

LEMMA DeleteUserTypes ==
    ASSUME FrontendTypes, NEW w \in Workers, NEW n \in Names, DeleteUser(w, n)
    PROVE  FrontendTypes'
<1>1. /\ UsersTyped /\ started \in 0 .. MaxRequests /\ history \in HistoryRecords
      /\ cli \in ToolRecords
  BY TypesParts
<1>2. /\ UNCHANGED imageVars /\ roleNames' = roleNames /\ cli' = cli /\ req' = req
      /\ started' \in 0 .. MaxRequests
  BY <1>1, ReceiveFacts DEF DeleteUser
<1>3. UsersTyped'
  <2>1. CASE UNCHANGED <<users, member>>
    BY <1>1, <1>2, <2>1 DEF UsersTyped
  <2>2. CASE RemoveUser(n)
    BY <1>1, <1>2, <2>2, RemoveTypes
  <2> QED
    BY <2>1, <2>2 DEF DeleteUser
<1>4. PICK b \in BOOLEAN : b = (history.userOverlap \/ UserActivity # {})
  BY <1>1 DEF HistoryRecords
<1>5. PICK h : h = [history EXCEPT !.userOverlap = b] /\ Watch(h)
  BY <1>4 DEF DeleteUser
<1> QED
  BY <1>1, <1>2, <1>3, <1>5, HistoryChanges, MakeRequests, RequestTyped, UserRequestTypes

LEMMA StartToolTypes ==
    ASSUME FrontendTypes, StartTool
    PROVE  FrontendTypes'
<1>1. /\ UsersTyped /\ started \in 0 .. MaxRequests /\ history \in HistoryRecords
      /\ RequestsTyped
  BY TypesParts
<1>2. /\ UNCHANGED imageVars /\ roleNames' = roleNames \cup ROLES /\ cli' = [step |-> "ready"]
      /\ req' = req /\ started' = started /\ users' = users /\ member' = member
  BY DEF StartTool, Ready
<1>3. UsersTyped' /\ RequestsTyped' /\ cli' \in ToolRecords
  BY <1>1, <1>2, MakeTool DEF UsersTyped, RequestsTyped, AllRoles
<1>4. PICK b \in BOOLEAN : b = (history.userOverlap \/ UserActivity # {})
  BY <1>1 DEF HistoryRecords
<1>5. PICK h : h = [history EXCEPT !.userOverlap = b] /\ Watch(h)
  BY <1>4 DEF StartTool
<1> QED
  BY <1>1, <1>2, <1>3, <1>5, HistoryChanges, UserRequestTypes

LEMMA ExitTypes ==
    ASSUME FrontendTypes, Exit
    PROVE  FrontendTypes'
<1>1. /\ UsersTyped /\ started \in 0 .. MaxRequests /\ history \in HistoryRecords
      /\ RequestsTyped
  BY TypesParts
<1>2. /\ UNCHANGED imageVars /\ UNCHANGED userVars /\ cli' = [step |-> "off"]
      /\ req' = req /\ started' = started /\ Watch(history)
  BY DEF Exit, Off
<1>3. RequestsTyped' /\ cli' \in ToolRecords
  BY <1>1, <1>2, MakeTool DEF RequestsTyped
<1> QED
  BY <1>1, <1>2, <1>3, SameUsers, UserRequestTypes

LEMMA PromptTypes ==
    ASSUME FrontendTypes, NEW a \in CliActions, NEW n \in Names, NEW r \in AllRoles, Prompt(a, n, r)
    PROVE  FrontendTypes'
<1>1. /\ UsersTyped /\ started \in 0 .. MaxRequests /\ history \in HistoryRecords
      /\ RequestsTyped
  BY TypesParts
<1>2. /\ UNCHANGED imageVars /\ UNCHANGED userVars /\ req' = req /\ Watch(history)
      /\ started < MaxRequests /\ started' = started + 1
      /\ cli' = [step |-> "write", action |-> a, name |-> n, role |-> r, key |-> started']
  BY DEF Prompt
<1>3. started' \in 0 .. MaxRequests /\ started' \in Keys
  BY <1>1, <1>2, FrontendConstants DEF Keys
<1>4. RequestsTyped' /\ cli' \in ToolRecords
  BY <1>1, <1>2, <1>3, MakeTool DEF RequestsTyped
<1> QED
  BY <1>1, <1>2, <1>3, <1>4, SameUsers, UserRequestTypes

LEMMA WriteTypes ==
    ASSUME FrontendTypes, Write
    PROVE  FrontendTypes'
<1>1. /\ UsersTyped /\ started \in 0 .. MaxRequests /\ history \in HistoryRecords
      /\ RequestsTyped /\ cli \in ToolRecords
  BY TypesParts
<1>2. /\ UNCHANGED imageVars /\ req' = req /\ Watch(history) /\ started' = started
      /\ cli' \in {[step |-> "dead"], [step |-> "ready"]}
  BY DEF Write, Ready
<1>3. RequestsTyped' /\ cli' \in ToolRecords
  BY <1>1, <1>2, MakeTool DEF RequestsTyped
<1>4. /\ cli.action \in CliActions /\ cli.name \in Names /\ cli.role \in AllRoles
      /\ cli.key \in Keys
  BY <1>1, ReadTool DEF Write
<1>5. UsersTyped'
  <2>1. CASE UNCHANGED userVars
    BY <1>1, <2>1, SameUsers
  <2>2. CASE InsertUser(cli.name, cli.key, {"guest"}) /\ UNCHANGED roleNames
    BY <1>1, <1>4, <2>2, InsertTypes
  <2>3. CASE RemoveUser(cli.name) /\ UNCHANGED roleNames
    BY <1>1, <1>4, <2>3, RemoveTypes
  <2>4. CASE roleNames' = roleNames \cup {cli.role} /\ UNCHANGED <<users, member>>
    BY <1>1, <1>4, <2>4 DEF UsersTyped
  <2>5. ASSUME NEW k, NEW a, NEW b, member' = Edited(k, a, b), UNCHANGED <<users, roleNames>>
        PROVE  UsersTyped'
    BY <1>1, <2>5, EditedTypes DEF UsersTyped
  <2>6. \/ UNCHANGED userVars
        \/ InsertUser(cli.name, cli.key, {"guest"}) /\ UNCHANGED roleNames
        \/ RemoveUser(cli.name) /\ UNCHANGED roleNames
        \/ roleNames' = roleNames \cup {cli.role} /\ UNCHANGED <<users, member>>
        \/ /\ member' = Edited(users[cli.name], {cli.role} \ RolesOf(users[cli.name]), {})
           /\ UNCHANGED <<users, roleNames>>
        \/ /\ member' = Edited(users[cli.name], {}, {cli.role})
           /\ UNCHANGED <<users, roleNames>>
    BY <1>4 DEF Write, CliActions
  <2> QED
    BY <2>1, <2>2, <2>3, <2>4, <2>5, <2>6
<1> QED
  BY <1>1, <1>2, <1>3, <1>5, UserRequestTypes

LEMMA RespawnTypes ==
    ASSUME FrontendTypes, NEW w \in Workers, Respawn(w)
    PROVE  FrontendTypes'
<1>1. /\ UsersTyped /\ started \in 0 .. MaxRequests /\ history \in HistoryRecords
      /\ cli \in ToolRecords
  BY TypesParts
<1>2. /\ UNCHANGED imageVars /\ UNCHANGED userVars /\ req' = [req EXCEPT ![w] = Idle]
      /\ started' = started /\ cli' = cli
  BY DEF Respawn, Answer
<1>3. PICK h : h = [history EXCEPT !.crashed = TRUE] /\ Watch(h)
  BY DEF Respawn
<1> QED
  BY <1>1, <1>2, <1>3, HistoryChanges, MakeRequests, RequestTyped, SameUsers, UserRequestTypes

LEMMA TypesInit == Init => FrontendTypes
<1> SUFFICES ASSUME Init PROVE FrontendTypes
  OBVIOUS
<1>1. image \in ImageRecords
  BY DEF Init, ImageRecords
<1>2. TasksTyped /\ UploadsPlain
  BY DEF Init, TasksTyped, UploadsPlain, TaskTypes
<1>3. UsersTyped
  BY FrontendConstants DEF Init, UsersTyped
<1>4. RequestsTyped
  BY MakeRequests DEF Init, RequestsTyped
<1>5. cli \in ToolRecords
  BY MakeTool DEF Init, Off
<1>6. started \in 0 .. MaxRequests
  BY FrontendConstants DEF Init
<1>7. history \in HistoryRecords
  BY DEF Init, HistoryRecords
<1> QED
  BY <1>1, <1>2, <1>3, <1>4, <1>5, <1>6, <1>7, TypesParts

\* What a worker does about the image, and about users.
ImageRequests(w) ==
    \/ \E form \in Forms : PostUpload(w, form)
    \/ \E t \in TaskTypes \ {"analysis_task"} : \E form : Submit(w, t, form)
    \/ \E form : RedoAnalysis(w, form)
    \/ CheckFirmware(w)
    \/ \E op \in {"comment", "delete_comment"}, t \in Times : ReadComments(w, op, t)
ImageSteps(w) == SendTask(w) \/ DeleteFirmware(w) \/ AddComment(w) \/ DeleteComment(w)
UserRequests(w) ==
    \/ \E n \in Names : UserExists(w, n) \/ DeleteUser(w, n)
    \/ \E n \in Names, S \in SUBSET ROLES : FindUser(w, n, S)
UserWorks(w) == AddUser(w) \/ RoleExists(w) \/ EditRoles(w)
ToolSteps ==
    \/ StartTool \/ Exit \/ Write
    \/ \E a \in CliActions, n \in Names, r \in AllRoles : Prompt(a, n, r)

LEMMA NextParts ==
    ASSUME [Next]_vars
    PROVE  \/ \E w \in Workers : \/ ImageRequests(w) \/ ImageSteps(w) \/ UserRequests(w)
                                 \/ UserWorks(w) \/ Respawn(w)
           \/ \E t \in TaskTypes : BackEnd(t)
           \/ ToolSteps
           \/ UNCHANGED vars
<1>1. ASSUME NEW w \in Workers, Requests(w) PROVE ImageRequests(w) \/ UserRequests(w)
  <2>1. {"update_task", "single_file_task", "re_analyze_task"} \subseteq TaskTypes \ {"analysis_task"}
    BY DEF TaskTypes
  <2>2. ASSUME NEW form, PostUpdateAnalysis(w, form) PROVE ImageRequests(w)
    BY <2>1, <2>2 DEF PostUpdateAnalysis, ImageRequests
  <2>3. ASSUME NEW form, RedoAnalysis(w, form) PROVE ImageRequests(w)
    BY <2>3 DEF ImageRequests
  <2>4. ASSUME StartSingleFileAnalysis(w) PROVE ImageRequests(w)
    BY <2>1, <2>4 DEF StartSingleFileAnalysis, ImageRequests
  <2>5. ASSUME NEW unpack \in BOOLEAN, UpdateAnalysis(w, unpack) PROVE ImageRequests(w)
    <3>1. CASE unpack
      <4>1. Submit(w, "re_analyze_task", "complete")
        BY <2>5, <3>1 DEF UpdateAnalysis
      <4> QED
        BY <2>1, <4>1 DEF ImageRequests
    <3>2. CASE ~ unpack
      <4>1. Submit(w, "update_task", "complete")
        BY <2>5, <3>2 DEF UpdateAnalysis
      <4> QED
        BY <2>1, <4>1 DEF ImageRequests
    <3> QED
      BY <3>1, <3>2
  <2>6. ASSUME \/ \E form \in Forms : PostUpload(w, form)
               \/ CheckFirmware(w)
               \/ \E op \in {"comment", "delete_comment"}, t \in Times : ReadComments(w, op, t)
        PROVE  ImageRequests(w)
    BY <2>6 DEF ImageRequests
  <2>7. ASSUME \/ \E n \in Names : UserExists(w, n) \/ DeleteUser(w, n)
               \/ \E n \in Names, S \in SUBSET ROLES : FindUser(w, n, S)
        PROVE  UserRequests(w)
    BY <2>7 DEF UserRequests
  <2> QED
    BY <1>1, <2>2, <2>3, <2>4, <2>5, <2>6, <2>7, Zenon DEF Requests
<1>2. ASSUME NEW w \in Workers, Steps(w) PROVE ImageSteps(w) \/ UserWorks(w)
  BY <1>2 DEF Steps, ImageSteps, UserWorks
<1> QED
  BY <1>1, <1>2, Zenon DEF Next, ToolSteps

LEMMA TypesStep == FrontendTypes /\ [Next]_vars => FrontendTypes'
<1> SUFFICES ASSUME FrontendTypes, [Next]_vars PROVE FrontendTypes'
  OBVIOUS
<1>1. ASSUME NEW w \in Workers, ImageRequests(w) PROVE FrontendTypes'
  BY <1>1, PostUploadTypes, SubmitTypes, RedoAnalysisTypes, CheckFirmwareTypes,
     ReadCommentsTypes, Zenon DEF ImageRequests
<1>2. ASSUME NEW w \in Workers, ImageSteps(w) PROVE FrontendTypes'
  BY <1>2, SendTaskTypes, DeleteFirmwareTypes, AddCommentTypes, DeleteCommentTypes, Zenon
     DEF ImageSteps
<1>3. ASSUME NEW w \in Workers, UserRequests(w) PROVE FrontendTypes'
  BY <1>3, UserExistsTypes, DeleteUserTypes, FindUserTypes, Zenon DEF UserRequests
<1>4. ASSUME NEW w \in Workers, UserWorks(w) PROVE FrontendTypes'
  BY <1>4, AddUserTypes, RoleExistsTypes, EditRolesTypes, Zenon DEF UserWorks
<1>5. ASSUME NEW w \in Workers, Respawn(w) PROVE FrontendTypes'
  BY <1>5, RespawnTypes
<1>6. ASSUME NEW t \in TaskTypes, BackEnd(t) PROVE FrontendTypes'
  BY <1>6, BackEndTypes
<1>7. ASSUME ToolSteps PROVE FrontendTypes'
  BY <1>7, StartToolTypes, ExitTypes, PromptTypes, WriteTypes, Zenon DEF ToolSteps
<1>8. ASSUME UNCHANGED vars PROVE FrontendTypes'
  BY <1>8 DEF vars, userVars, FrontendTypes
<1> QED
  BY <1>1, <1>2, <1>3, <1>4, <1>5, <1>6, <1>7, <1>8, NextParts, Zenon

-----------------------------------------------------------------------------
(* Users and roles, as long as what edits them does not overlap.           *)

RowsSound ==
    \A m \in Keys \X AllRoles :
        /\ member[m] <= 1
        /\ member[m] = 1 => (\E n \in Names : users[n] = m[1]) /\ m[2] \in roleNames

\* What a worker has read is still true.
EditSound(r) ==
    r.step \in {"check_roles", "edit_roles"} =>
        /\ \E n \in Names : users[n] = r.key
        /\ r.added \cap RolesOf(r.key) = {} /\ r.removed \subseteq RolesOf(r.key)
        /\ r.step = "edit_roles" => r.new = r.added \ roleNames

EditsSound == \A w \in Workers : EditSound(req[w])

ToolSound ==
    /\ cli.step # "dead"
    /\ cli.step \in {"ready", "write"} => ROLES \subseteq roleNames
    /\ cli.step = "write" => Valid(cli.action, cli.name, cli.role)

UsersSound ==
    Single(UserActivity) /\ RowsSound /\ ToolSound /\ EditsSound

TablesInv == history.userOverlap \/ UsersSound

\* Nothing else is under way.
AlongWith(w) == \A v \in Workers : v # w => req[v].step \notin UserSteps
ToolWrites == cli.step = "write"

LEMMA SoleWorker ==
    ASSUME Single(UserActivity), NEW w \in Workers, req[w].step \in UserSteps
    PROVE  AlongWith(w) /\ ~ ToolWrites
<1>1. <<w>> \in UserActivity
  BY DEF UserActivity
<1>2. ASSUME NEW v \in Workers, req[v].step \in UserSteps PROVE v = w
  <2>1. <<v>> \in UserActivity
    BY <1>2 DEF UserActivity
  <2>2. <<v>> = <<w>>
    BY <1>1, <2>1 DEF Single
  <2> QED
    BY <2>2
<1>3. ASSUME ToolWrites PROVE FALSE
  <2>1. <<"tool", "write">> \in UserActivity
    BY <1>3 DEF UserActivity, ToolWrites
  <2>2. <<"tool", "write">> = <<w>>
    BY <1>1, <2>1 DEF Single
  <2> QED
    BY <2>2
<1> QED
  BY <1>2, <1>3 DEF AlongWith

OneEditor == \A w \in Workers : req[w].step \in UserSteps => AlongWith(w) /\ ~ ToolWrites

LEMMA SoleActivity == Single(UserActivity) => OneEditor
  BY SoleWorker DEF OneEditor

LEMMA NoActivity ==
    UserActivity = {} => ~ ToolWrites /\ \A w \in Workers : req[w].step \notin UserSteps
<1> SUFFICES ASSUME UserActivity = {}
             PROVE  ~ ToolWrites /\ \A w \in Workers : req[w].step \notin UserSteps
  OBVIOUS
<1>1. ASSUME ToolWrites PROVE FALSE
  <2>1. <<"tool", "write">> \in UserActivity
    BY <1>1 DEF UserActivity, ToolWrites
  <2> QED
    BY <2>1
<1>2. ASSUME NEW w \in Workers, req[w].step \in UserSteps PROVE FALSE
  <2>1. <<w>> \in UserActivity
    BY <1>2 DEF UserActivity
  <2> QED
    BY <2>1
<1> QED
  BY <1>1, <1>2

\* Workers that do nothing about users have nothing to be shown of.
LEMMA IdleSound == (\A w \in Workers : req[w].step \notin UserSteps) => EditsSound
  BY DEF EditsSound, EditSound, UserSteps

\* What remains to be shown of a step.
SoundAfter == RowsSound' /\ ToolSound' /\ EditsSound'

LEMMA UserAfter ==
    ASSUME TablesInv, NEW h \in HistoryRecords, Watch(h), TasksTyped',
           history.userOverlap => h.userOverlap,
           UsersSound /\ ~ h.userOverlap /\ Single(UserActivity') => SoundAfter
    PROVE  TablesInv'
<1>1. ~ history'.userOverlap => ~ h.userOverlap /\ Single(UserActivity')
  BY WatchFacts
<1> QED
  BY <1>1 DEF TablesInv, UsersSound, SoundAfter

LEMMA RolesFrame ==
    ASSUME member' = member
    PROVE  \A k : RolesOf(k)' = RolesOf(k)
  BY DEF RolesOf

LEMMA TablesFrame ==
    ASSUME UNCHANGED userVars
    PROVE  /\ RowsSound => RowsSound'
           /\ \A r : EditSound(r) => EditSound(r)'
           /\ \A a, n, r : Valid(a, n, r)' <=> Valid(a, n, r)
<1>1. member' = member /\ users' = users /\ roleNames' = roleNames
  BY DEF userVars
<1>2. \A k : RolesOf(k)' = RolesOf(k)
  BY <1>1, RolesFrame
<1> QED
  BY <1>1, <1>2 DEF RowsSound, EditSound, Valid

\* Steps that leave the tables and the tool alone and check no membership.
LEMMA UserFrame ==
    ASSUME TablesInv, UNCHANGED <<userVars, cli>>, TasksTyped',
           NEW h \in HistoryRecords, Watch(h), h.userOverlap = history.userOverlap,
           \A v \in Workers : req'[v] = req[v] \/ req'[v].step \notin {"check_roles", "edit_roles"}
    PROVE  TablesInv'
<1>1. ASSUME UsersSound PROVE SoundAfter
  <2>1. RowsSound' /\ ToolSound'
    BY <1>1, TablesFrame DEF UsersSound, ToolSound, userVars
  <2>2. EditsSound'
    <3>1. member' = member /\ users' = users /\ roleNames' = roleNames
      BY DEF userVars
    <3> QED
      BY <1>1, <3>1, RolesFrame DEF UsersSound, EditsSound, EditSound
  <2> QED
    BY <2>1, <2>2 DEF SoundAfter
<1> QED
  BY <1>1, UserAfter

-----------------------------------------------------------------------------
(* The image, as long as nothing overlaps and nothing submits it anew.     *)

ListSound ==
    /\ image.stored => image.comments = history.posted \ history.uncommented
    /\ ~ image.stored => history.posted = {} /\ history.uncommented = {}
    /\ history.uncommented \subseteq history.posted

QueuesSound ==
    /\ tasks["analysis_task"] # <<>> => ~ image.stored
    /\ tasks["re_analyze_task"] = <<>>

IdsSound == \A c \in history.posted : c.id <= started

\* The list a session has read is the list that is stored.
ReadSound(r) ==
    r.step \in {"comment", "delete_comment"} =>
        /\ image.stored /\ r.comments = image.comments
        /\ r.id <= started /\ \A c \in history.posted : c.id # r.id
ReadsSound == \A w \in Workers : ReadSound(req[w])

ImageSound == Single(ImageActivity) /\ ListSound /\ QueuesSound /\ IdsSound /\ ReadsSound
ImageInv == history.overlap \/ history.rewritten \/ ImageSound

ImageBusy(w) == req[w].step \notin UserSteps \cup {"idle"}

LEMMA SoleImageActivity ==
    Single(ImageActivity) =>
        /\ \A v, w \in Workers : ImageBusy(v) /\ ImageBusy(w) => v = w
        /\ \A t \in TaskTypes : \A i, j \in DOMAIN tasks[t] : i = j
        /\ \A t \in TaskTypes, w \in Workers : ImageBusy(w) => DOMAIN tasks[t] = {}
<1> SUFFICES ASSUME Single(ImageActivity)
             PROVE  /\ \A v, w \in Workers : ImageBusy(v) /\ ImageBusy(w) => v = w
                    /\ \A t \in TaskTypes : \A i, j \in DOMAIN tasks[t] : i = j
                    /\ \A t \in TaskTypes, w \in Workers : ImageBusy(w) => DOMAIN tasks[t] = {}
  OBVIOUS
<1>1. ASSUME NEW w \in Workers, ImageBusy(w) PROVE <<w>> \in ImageActivity
  BY <1>1 DEF ImageActivity, ImageBusy
<1>2. ASSUME NEW t \in TaskTypes, NEW i \in DOMAIN tasks[t] PROVE <<t, i>> \in ImageActivity
  BY DEF ImageActivity
<1>3. ASSUME NEW v \in Workers, NEW w \in Workers, ImageBusy(v), ImageBusy(w) PROVE v = w
  <2>1. <<v>> = <<w>>
    BY <1>1, <1>3 DEF Single
  <2> QED
    BY <2>1
<1>4. ASSUME NEW t \in TaskTypes, NEW i \in DOMAIN tasks[t], NEW j \in DOMAIN tasks[t] PROVE i = j
  <2>1. <<t, i>> = <<t, j>>
    BY <1>2 DEF Single
  <2> QED
    BY <2>1
<1>5. ASSUME NEW t \in TaskTypes, NEW w \in Workers, ImageBusy(w) PROVE DOMAIN tasks[t] = {}
  <2>1. ASSUME NEW i \in DOMAIN tasks[t] PROVE FALSE
    <3>1. <<t, i>> = <<w>>
      BY <1>1, <1>2, <1>5 DEF Single
    <3> QED
      BY <3>1
  <2> QED
    BY <2>1
<1> QED
  BY <1>3, <1>4, <1>5

\* What remains to be shown of a step.
ImageSoundAfter == ListSound' /\ QueuesSound' /\ IdsSound' /\ ReadsSound'

LEMMA ImageAfter ==
    ASSUME ImageInv, NEW h \in HistoryRecords, Watch(h), TasksTyped',
           history.overlap => h.overlap, history.rewritten => h.rewritten,
           ImageSound /\ ~ h.overlap /\ ~ h.rewritten /\ Single(ImageActivity') => ImageSoundAfter
    PROVE  ImageInv'
<1>1. /\ history'.rewritten = h.rewritten
      /\ ~ history'.overlap => ~ h.overlap /\ Single(ImageActivity')
  BY WatchFacts
<1> QED
  BY <1>1 DEF ImageInv, ImageSound, ImageSoundAfter

SameLists(h) == h.posted = history.posted /\ h.uncommented = history.uncommented
SameOverlaps(h) == h.overlap = history.overlap /\ h.userOverlap = history.userOverlap

LEMMA HistoryFields ==
    ASSUME history \in HistoryRecords
    PROVE  /\ SameLists(history) /\ SameOverlaps(history)
           /\ \A b \in BOOLEAN :
                 /\ SameLists([history EXCEPT !.rewritten = b])
                 /\ SameOverlaps([history EXCEPT !.rewritten = b])
                 /\ [history EXCEPT !.rewritten = b].rewritten = b
           /\ \A b \in BOOLEAN :
                 /\ SameLists([history EXCEPT !.deleted = b])
                 /\ SameOverlaps([history EXCEPT !.deleted = b])
                 /\ [history EXCEPT !.deleted = b].rewritten = history.rewritten
           /\ \A b \in BOOLEAN :
                 /\ SameLists([history EXCEPT !.crashed = b])
                 /\ SameOverlaps([history EXCEPT !.crashed = b])
                 /\ [history EXCEPT !.crashed = b].rewritten = history.rewritten
           /\ \A b \in BOOLEAN :
                 /\ SameLists([history EXCEPT !.userOverlap = b])
                 /\ [history EXCEPT !.userOverlap = b].overlap = history.overlap
                 /\ [history EXCEPT !.userOverlap = b].userOverlap = b
                 /\ [history EXCEPT !.userOverlap = b].rewritten = history.rewritten
           /\ \A b \in BOOLEAN :
                 /\ SameLists([history EXCEPT !.uploaded = TRUE, !.rewritten = b])
                 /\ SameOverlaps([history EXCEPT !.uploaded = TRUE, !.rewritten = b])
                 /\ [history EXCEPT !.uploaded = TRUE, !.rewritten = b].rewritten = b
           /\ \A p \in SUBSET Comments :
                 /\ SameOverlaps([history EXCEPT !.posted = p])
                 /\ [history EXCEPT !.posted = p].rewritten = history.rewritten
                 /\ [history EXCEPT !.posted = p].posted = p
                 /\ [history EXCEPT !.posted = p].uncommented = history.uncommented
           /\ \A p \in SUBSET Comments :
                 /\ SameOverlaps([history EXCEPT !.uncommented = p])
                 /\ [history EXCEPT !.uncommented = p].rewritten = history.rewritten
                 /\ [history EXCEPT !.uncommented = p].posted = history.posted
                 /\ [history EXCEPT !.uncommented = p].uncommented = p
  BY DEF HistoryRecords, SameLists, SameOverlaps

\* Steps that leave the entry and its list alone.
LEMMA ImageFrame ==
    ASSUME FrontendTypes, ImageInv, image' = image, started' \in Nat, started' >= started,
           TasksTyped', NEW h \in HistoryRecords, Watch(h), SameLists(h),
           h.overlap = history.overlap, history.rewritten => h.rewritten,
           QueuesSound /\ ~ h.rewritten => QueuesSound',
           \A v \in Workers : req'[v] = req[v] \/ req'[v].step \notin {"comment", "delete_comment"}
    PROVE  ImageInv'
<1>1. ASSUME ImageSound, ~ h.rewritten PROVE ImageSoundAfter
  <2>1. /\ history' \in HistoryRecords
        /\ history'.posted = history.posted /\ history'.uncommented = history.uncommented
    BY WatchFacts DEF SameLists
  <2>2. ListSound' /\ QueuesSound'
    BY <1>1, <2>1 DEF ImageSound, ListSound
  <2>3. started \in Nat /\ \A c \in history.posted : c.id \in Nat
    BY TypesParts DEF HistoryRecords, Comments
  <2>4. IdsSound'
    BY <1>1, <2>1, <2>3 DEF ImageSound, IdsSound
  <2>5. ReadsSound'
    <3> SUFFICES ASSUME NEW v \in Workers, req'[v].step \in {"comment", "delete_comment"}
                 PROVE  /\ image'.stored /\ req'[v].comments = image'.comments
                        /\ req'[v].id <= started' /\ \A c \in history'.posted : c.id # req'[v].id
      BY DEF ReadsSound, ReadSound
    <3>1. req'[v] = req[v]
      OBVIOUS
    <3>2. /\ image.stored /\ req[v].comments = image.comments
          /\ req[v].id <= started /\ \A c \in history.posted : c.id # req[v].id
      BY <1>1, <3>1 DEF ImageSound, ReadsSound, ReadSound
    <3>3. req[v] \in RequestRecords
      BY TypesParts DEF RequestsTyped
    <3>4. req[v].id \in Nat
      BY <3>1, <3>3, ReadRequests
    <3> QED
      BY <2>1, <2>3, <3>1, <3>2, <3>4
  <2> QED
    BY <2>2, <2>4, <2>5 DEF ImageSoundAfter
<1> QED
  BY <1>1, ImageAfter

-----------------------------------------------------------------------------
FrontendInv == FrontendTypes /\ ImageInv /\ TablesInv

LEMMA TypedAfter ==
    ASSUME FrontendTypes'
    PROVE  /\ TasksTyped' /\ UsersTyped' /\ RequestsTyped' /\ started' \in Nat
           /\ image' \in ImageRecords
<1>1. (/\ image \in ImageRecords /\ TasksTyped /\ UploadsPlain /\ UsersTyped
       /\ RequestsTyped /\ cli \in ToolRecords /\ started \in 0 .. MaxRequests
       /\ history \in HistoryRecords)'
  BY TypesParts, PTL
<1> QED
  BY <1>1, FrontendConstants DEF ImageRecords

\* A step that leaves the image and the tables alone keeps everything.
LEMMA BothFrames ==
    ASSUME FrontendInv, FrontendTypes', image' = image, UNCHANGED <<userVars, cli>>,
           started' >= started, NEW h \in HistoryRecords, Watch(h), SameLists(h), SameOverlaps(h),
           history.rewritten => h.rewritten, QueuesSound /\ ~ h.rewritten => QueuesSound',
           \A v \in Workers : \/ req'[v] = req[v]
                              \/ req'[v].step \notin {"comment", "delete_comment",
                                                      "check_roles", "edit_roles"}
    PROVE  ImageInv' /\ TablesInv'
<1>1. TasksTyped' /\ started' \in Nat
  BY TypedAfter
<1>2. ImageInv'
  BY <1>1, ImageFrame DEF FrontendInv, SameOverlaps
<1>3. TablesInv'
  BY <1>1, UserFrame DEF FrontendInv, SameOverlaps
<1> QED
  BY <1>2, <1>3

LEMMA PostUploadKeeps ==
    ASSUME FrontendInv, FrontendTypes', NEW w \in Workers, NEW form, PostUpload(w, form)
    PROVE  ImageInv' /\ TablesInv'
<1>1. /\ image \in ImageRecords /\ TasksTyped /\ UploadsPlain
      /\ started \in 0 .. MaxRequests /\ history \in HistoryRecords
  BY TypesParts DEF FrontendInv
<1>2. /\ image' = image /\ req' = req /\ UNCHANGED <<userVars, cli>> /\ started' >= started
  <2>1. started' = started + 1
    BY <1>1, ReceiveFacts DEF PostUpload
  <2>2. started' >= started
    BY <1>1, <2>1, FrontendConstants
  <2> QED
    BY <2>2 DEF PostUpload
<1>3. PICK b \in BOOLEAN : b = (history.rewritten \/ image.stored)
  BY <1>1 DEF HistoryRecords, ImageRecords
<1>4. CASE tasks' = tasks
  <2>1. Watch(history)
    BY <1>4 DEF PostUpload
  <2>2. QueuesSound => QueuesSound'
    BY <1>2, <1>4 DEF QueuesSound
  <2> QED
    BY <1>1, <1>2, <2>1, <2>2, HistoryFields, BothFrames
<1>5. CASE tasks' # tasks
  <2>1. PICK h : h = [history EXCEPT !.uploaded = TRUE, !.rewritten = b] /\ Watch(h)
    BY <1>3, <1>5 DEF PostUpload
  <2>2. h \in HistoryRecords /\ SameLists(h) /\ SameOverlaps(h) /\ h.rewritten = b
    BY <1>1, <2>1, HistoryChanges, HistoryFields
  <2>3. "analysis_task" \in TaskTypes /\ {} \in SUBSET Comments
    BY DEF TaskTypes
  <2>4. \A u \in TaskTypes : u # "analysis_task" => tasks'[u] = tasks[u]
    BY <1>1, <1>5, <2>3, PushFacts DEF PostUpload
  <2>5. QueuesSound /\ ~ h.rewritten => QueuesSound'
    BY <1>2, <1>3, <2>2, <2>4 DEF QueuesSound, TaskTypes
  <2> QED
    BY <1>2, <1>3, <2>1, <2>2, <2>5, BothFrames
<1> QED
  BY <1>4, <1>5

LEMMA SubmitKeeps ==
    ASSUME FrontendInv, FrontendTypes', NEW w \in Workers, NEW t, NEW form, Submit(w, t, form)
    PROVE  ImageInv' /\ TablesInv'
<1>1. /\ req \in [Workers -> RequestRecords] /\ started \in 0 .. MaxRequests
      /\ history \in HistoryRecords
  BY TypesParts DEF FrontendInv, RequestsTyped
<1>2. /\ image' = image /\ tasks' = tasks /\ UNCHANGED <<userVars, cli>> /\ Watch(history)
      /\ started' >= started
  BY <1>1, ReceiveFacts DEF Submit
<1>3. req' = req \/ req' = [req EXCEPT ![w] =
                              [step |-> "send", type |-> t, comments |-> image.comments]]
  BY DEF Submit
<1>4. \A v \in Workers : req'[v] = req[v] \/ req'[v].step = "send"
  BY <1>1, <1>3
<1>5. QueuesSound => QueuesSound'
  BY <1>2 DEF QueuesSound
<1> QED
  BY <1>1, <1>2, <1>4, <1>5, HistoryFields, BothFrames

LEMMA SendTaskKeeps ==
    ASSUME FrontendInv, FrontendTypes', NEW w \in Workers, SendTask(w)
    PROVE  ImageInv' /\ TablesInv'
<1>1. /\ req \in [Workers -> RequestRecords] /\ TasksTyped /\ UploadsPlain
      /\ started \in 0 .. MaxRequests /\ history \in HistoryRecords
  BY TypesParts DEF FrontendInv, RequestsTyped
<1>2. /\ image' = image /\ started' = started /\ UNCHANGED <<userVars, cli>>
      /\ req' = [req EXCEPT ![w] = Idle]
  BY DEF SendTask, Answer
<1>3. req[w].type \in TaskTypes \ {"analysis_task"} /\ req[w].comments \in SUBSET Comments
  BY <1>1, ReadRequests DEF SendTask
<1>4. \A u \in TaskTypes : u # req[w].type => tasks'[u] = tasks[u]
  BY <1>1, <1>3, PushFacts DEF SendTask
<1>5. PICK b \in BOOLEAN : b = (history.rewritten \/ req[w].type = "re_analyze_task")
  BY <1>1 DEF HistoryRecords
<1>6. PICK h : h = [history EXCEPT !.rewritten = b] /\ Watch(h)
  BY <1>5 DEF SendTask
<1>7. h \in HistoryRecords /\ SameLists(h) /\ SameOverlaps(h) /\ h.rewritten = b
  BY <1>1, <1>6, HistoryChanges, HistoryFields
<1>8. QueuesSound /\ ~ h.rewritten => QueuesSound'
  BY <1>2, <1>3, <1>4, <1>5, <1>7 DEF QueuesSound, TaskTypes
<1>9. \A v \in Workers : req'[v] = req[v] \/ req'[v].step = "idle"
  BY <1>1, <1>2 DEF Idle
<1>10. /\ started' >= started
       /\ history.rewritten => h.rewritten
  BY <1>1, <1>2, <1>5, <1>7 DEF HistoryRecords
<1> QED
  BY <1>2, <1>6, <1>7, <1>8, <1>9, <1>10, BothFrames

LEMMA CheckFirmwareKeeps ==
    ASSUME FrontendInv, FrontendTypes', NEW w \in Workers, CheckFirmware(w)
    PROVE  ImageInv' /\ TablesInv'
<1>1. /\ req \in [Workers -> RequestRecords] /\ image \in ImageRecords
      /\ started \in 0 .. MaxRequests /\ history \in HistoryRecords
  BY TypesParts DEF FrontendInv, RequestsTyped
<1>2. /\ image' = image /\ tasks' = tasks /\ UNCHANGED <<userVars, cli>> /\ started' >= started
  BY <1>1, ReceiveFacts DEF CheckFirmware
<1>3. req' = req \/ req' = [req EXCEPT ![w] = [step |-> "delete"]]
  BY DEF CheckFirmware
<1>4. \A v \in Workers : req'[v] = req[v] \/ req'[v].step = "delete"
  BY <1>1, <1>3
<1>5. PICK b \in BOOLEAN : b = (history.deleted \/ image.stored)
  BY <1>1 DEF HistoryRecords, ImageRecords
<1>6. PICK h : h = [history EXCEPT !.deleted = b] /\ Watch(h)
  BY <1>5 DEF CheckFirmware
<1>7. /\ h \in HistoryRecords /\ SameLists(h) /\ SameOverlaps(h)
      /\ h.rewritten = history.rewritten
  BY <1>1, <1>6, HistoryChanges, HistoryFields
<1>8. QueuesSound => QueuesSound'
  BY <1>2 DEF QueuesSound
<1> QED
  BY <1>2, <1>4, <1>6, <1>7, <1>8, BothFrames

LEMMA RespawnKeeps ==
    ASSUME FrontendInv, FrontendTypes', NEW w \in Workers, Respawn(w)
    PROVE  ImageInv' /\ TablesInv'
<1>1. /\ req \in [Workers -> RequestRecords] /\ started \in 0 .. MaxRequests
      /\ history \in HistoryRecords
  BY TypesParts DEF FrontendInv, RequestsTyped
<1>2. /\ image' = image /\ tasks' = tasks /\ UNCHANGED <<userVars, cli>> /\ started' >= started
      /\ req' = [req EXCEPT ![w] = Idle]
  BY <1>1 DEF Respawn, Answer, imageVars
<1>3. \A v \in Workers : req'[v] = req[v] \/ req'[v].step = "idle"
  BY <1>1, <1>2 DEF Idle
<1>4. PICK h : h = [history EXCEPT !.crashed = TRUE] /\ Watch(h)
  BY DEF Respawn
<1>5. /\ h \in HistoryRecords /\ SameLists(h) /\ SameOverlaps(h)
      /\ h.rewritten = history.rewritten
  BY <1>1, <1>4, HistoryChanges, HistoryFields
<1>6. QueuesSound => QueuesSound'
  BY <1>2 DEF QueuesSound
<1> QED
  BY <1>2, <1>3, <1>4, <1>5, <1>6, BothFrames

LEMMA UserExistsKeeps ==
    ASSUME FrontendInv, FrontendTypes', NEW w \in Workers, NEW n, UserExists(w, n)
    PROVE  ImageInv' /\ TablesInv'
<1>1. /\ req \in [Workers -> RequestRecords] /\ started \in 0 .. MaxRequests
      /\ history \in HistoryRecords
  BY TypesParts DEF FrontendInv, RequestsTyped
<1>2. /\ image' = image /\ tasks' = tasks /\ UNCHANGED <<userVars, cli>> /\ Watch(history)
      /\ started' >= started
  BY <1>1, ReceiveFacts DEF UserExists, imageVars
<1>3. \/ req' = req
      \/ req' = [req EXCEPT ![w] = [step |-> "add_user", name |-> n, key |-> started']]
  BY DEF UserExists
<1>4. \A v \in Workers : req'[v] = req[v] \/ req'[v].step = "add_user"
  BY <1>1, <1>3
<1>5. QueuesSound => QueuesSound'
  BY <1>2 DEF QueuesSound
<1> QED
  BY <1>1, <1>2, <1>4, <1>5, HistoryFields, BothFrames

\* What rewrites the entry is no matter for its comments.
LEMMA RewritingKeeps ==
    ASSUME FrontendInv, FrontendTypes', UNCHANGED <<userVars, cli>>, NEW h \in HistoryRecords,
           Watch(h), h.rewritten, SameOverlaps(h),
           \A v \in Workers : req'[v] = req[v] \/ req'[v].step \notin {"check_roles", "edit_roles"}
    PROVE  ImageInv' /\ TablesInv'
<1>1. TasksTyped'
  BY TypedAfter
<1>2. TablesInv'
  BY <1>1, UserFrame DEF FrontendInv, SameOverlaps
<1>3. ImageInv'
  BY <1>1, ImageAfter DEF FrontendInv, SameOverlaps
<1> QED
  BY <1>2, <1>3

LEMMA RedoAnalysisKeeps ==
    ASSUME FrontendInv, FrontendTypes', NEW w \in Workers, NEW form, RedoAnalysis(w, form)
    PROVE  ImageInv' /\ TablesInv'
<1>1. /\ req \in [Workers -> RequestRecords] /\ started \in 0 .. MaxRequests
      /\ history \in HistoryRecords
  BY TypesParts DEF FrontendInv, RequestsTyped
<1>2. tasks' = tasks /\ UNCHANGED <<userVars, cli>> /\ req[w].step = "idle"
  BY DEF RedoAnalysis, Receive
<1>3. PICK b \in BOOLEAN : b = (history.rewritten \/ req' # req)
  BY <1>1 DEF HistoryRecords
<1>4. PICK h : h = [history EXCEPT !.rewritten = b] /\ Watch(h)
  BY <1>3 DEF RedoAnalysis
<1>5. h \in HistoryRecords /\ SameLists(h) /\ SameOverlaps(h) /\ h.rewritten = b
  BY <1>1, <1>4, HistoryChanges, HistoryFields
<1>6. CASE CheckForErrors(form)
  <2>1. image' = image /\ req' = req
    BY <1>6 DEF RedoAnalysis
  <2>2. started' = started + 1
    BY <1>1, ReceiveFacts DEF RedoAnalysis
  <2>3. started' >= started /\ (history.rewritten => h.rewritten)
    BY <1>1, <1>3, <1>5, <2>2, FrontendConstants DEF HistoryRecords
  <2>4. QueuesSound => QueuesSound'
    BY <1>2, <2>1 DEF QueuesSound
  <2> QED
    BY <1>2, <1>4, <1>5, <2>1, <2>3, <2>4, BothFrames
<1>7. CASE ~ CheckForErrors(form)
  <2>1. req' = [req EXCEPT ![w] = [step |-> "send", type |-> "re_analyze_task", comments |-> {}]]
    BY <1>7 DEF RedoAnalysis
  <2>2. req'[w].step = "send" /\ \A v \in Workers : req'[v] = req[v] \/ req'[v].step = "send"
    BY <1>1, <2>1
  <2>3. h.rewritten
    BY <1>2, <1>3, <1>5, <2>2
  <2> QED
    BY <1>2, <1>4, <1>5, <2>2, <2>3, RewritingKeeps
<1> QED
  BY <1>6, <1>7

LEMMA DeleteFirmwareKeeps ==
    ASSUME FrontendInv, FrontendTypes', NEW w \in Workers, DeleteFirmware(w)
    PROVE  ImageInv' /\ TablesInv'
<1>1. req \in [Workers -> RequestRecords] /\ history \in HistoryRecords
  BY TypesParts DEF FrontendInv, RequestsTyped
<1>2. UNCHANGED <<userVars, cli>>
  BY DEF DeleteFirmware
<1>3. PICK r : r = IF image.stored
                   THEN [step |-> "send", type |-> "file_delete_task", comments |-> {}] ELSE Idle
  OBVIOUS
<1>4. \A v \in Workers : req'[v] = req[v] \/ req'[v].step \in {"send", "idle"}
  <2>1. r.step \in {"send", "idle"}
    BY <1>3 DEF Idle
  <2>2. req' = [req EXCEPT ![w] = r]
    BY <1>3 DEF DeleteFirmware
  <2> QED
    BY <1>1, <2>1, <2>2
<1>5. PICK h : h = [history EXCEPT !.rewritten = TRUE] /\ Watch(h)
  BY DEF DeleteFirmware
<1>6. h \in HistoryRecords /\ SameOverlaps(h) /\ h.rewritten
  BY <1>1, <1>5, HistoryChanges, HistoryFields
<1> QED
  BY <1>2, <1>4, <1>5, <1>6, RewritingKeeps

\* A queue is not empty, and has no two elements.
LEMMA OneElement ==
    ASSUME NEW S, NEW s \in Seq(S), s # <<>>
    PROVE  /\ DOMAIN s # {}
           /\ (\A i, j \in DOMAIN s : i = j) => Tail(s) = <<>>
<1>1. Len(s) \in Nat /\ DOMAIN s = 1 .. Len(s)
  OBVIOUS
<1>2. Len(s) # 0
  BY EmptySeq
<1>3. DOMAIN s # {}
  <2>1. 1 \in DOMAIN s
    BY <1>1, <1>2
  <2> QED
    BY <2>1
<1>4. ASSUME \A i, j \in DOMAIN s : i = j PROVE Tail(s) = <<>>
  <2>1. Len(s) = 1
    BY <1>1, <1>2, <1>4
  <2>2. Tail(s) \in Seq(S) /\ Len(Tail(s)) = 0
    BY <1>2, <2>1, HeadTailProperties
  <2> QED
    BY <2>2, EmptySeq
<1> QED
  BY <1>3, <1>4

\* A task that is taken was the only thing under way.
LEMMA BackEndKeeps ==
    ASSUME FrontendInv, FrontendTypes', NEW t \in TaskTypes, BackEnd(t)
    PROVE  ImageInv' /\ TablesInv'
<1>1. /\ image \in ImageRecords /\ TasksTyped /\ UploadsPlain
      /\ history \in HistoryRecords /\ RequestsTyped
  BY TypesParts DEF FrontendInv
<1>2. /\ started' = started /\ req' = req /\ UNCHANGED <<userVars, cli>> /\ Watch(history)
      /\ tasks[t] # <<>> /\ tasks' = [tasks EXCEPT ![t] = Tail(@)]
  BY DEF BackEnd
<1>3. TasksTyped'
  BY TypedAfter
<1>4. TablesInv'
  BY <1>1, <1>2, <1>3, UserFrame DEF FrontendInv
<1>5. /\ \A u \in TaskTypes : u # t => tasks'[u] = tasks[u]
      /\ tasks'[t] = Tail(tasks[t])
      /\ t = "analysis_task" => Head(tasks[t]) = {}
  BY <1>1, <1>2, TakeFacts
<1>6. ASSUME ImageSound PROVE ImageSoundAfter
  <2>1. /\ \A i, j \in DOMAIN tasks[t] : i = j
        /\ \A w \in Workers : ~ ImageBusy(w)
    <3>1. tasks[t] \in Seq(SUBSET Comments)
      BY <1>1 DEF TasksTyped
    <3>2. DOMAIN tasks[t] # {}
      BY <1>2, <3>1, OneElement
    <3> QED
      BY <1>6, <3>2, SoleImageActivity DEF ImageSound
  <2>2. tasks'[t] = <<>>
    <3>1. tasks[t] \in Seq(SUBSET Comments)
      BY <1>1 DEF TasksTyped
    <3> QED
      BY <1>2, <1>5, <2>1, <3>1, OneElement
  <2>3. /\ history'.posted = history.posted /\ history'.uncommented = history.uncommented
    BY <1>1, <1>2, <1>3, WatchFacts
  <2>4. ReadsSound'
    BY <1>2, <2>1 DEF ReadsSound, ReadSound, ImageBusy, UserSteps
  <2>5. IdsSound'
    BY <1>2, <1>6, <2>3 DEF ImageSound, IdsSound
  <2>6. ListSound /\ QueuesSound
    BY <1>6 DEF ImageSound
  <2>7. t # "re_analyze_task"
    BY <1>2, <2>6 DEF QueuesSound
  <2>8. CASE t = "analysis_task"
    <3>1. image' = [stored |-> TRUE, comments |-> Head(tasks[t]), disk |-> TRUE]
      BY <2>8 DEF BackEnd
    <3>2. ~ image.stored
      BY <1>2, <2>6, <2>8 DEF QueuesSound
    <3>3. image'.stored /\ image'.comments = {} /\ history.posted = {} /\ history.uncommented = {}
      BY <1>5, <2>6, <2>8, <3>1, <3>2 DEF ListSound
    <3>4. ListSound'
      BY <2>3, <3>3 DEF ListSound
    <3>5. QueuesSound'
      BY <1>5, <2>2, <2>6, <2>8 DEF QueuesSound, TaskTypes
    <3> QED
      BY <2>4, <2>5, <3>4, <3>5 DEF ImageSoundAfter
  <2>9. CASE t # "analysis_task"
    <3>1. image' = image \/ image' = [image EXCEPT !.disk = FALSE]
      BY <2>7, <2>9 DEF BackEnd
    <3>2. image'.stored = image.stored /\ image'.comments = image.comments
      BY <1>1, <3>1 DEF ImageRecords
    <3>3. ListSound'
      BY <2>3, <2>6, <3>2 DEF ListSound
    <3>4. QueuesSound'
      BY <1>5, <2>6, <2>7, <2>9, <3>2 DEF QueuesSound, TaskTypes
    <3> QED
      BY <2>4, <2>5, <3>3, <3>4 DEF ImageSoundAfter
  <2> QED
    BY <2>8, <2>9
<1>7. ImageInv'
  BY <1>1, <1>2, <1>3, <1>6, ImageAfter DEF FrontendInv
<1> QED
  BY <1>4, <1>7

-----------------------------------------------------------------------------
(* The comments.                                                           *)

LEMMA ReadCommentsKeeps ==
    ASSUME FrontendInv, FrontendTypes', NEW w \in Workers, NEW op \in {"comment", "delete_comment"},
           NEW time \in Times, ReadComments(w, op, time)
    PROVE  ImageInv' /\ TablesInv'
<1>1. /\ image \in ImageRecords /\ started \in 0 .. MaxRequests /\ history \in HistoryRecords
      /\ req \in [Workers -> RequestRecords]
  BY TypesParts DEF FrontendInv, RequestsTyped
<1>2. /\ image' = image /\ tasks' = tasks /\ UNCHANGED <<userVars, cli>> /\ Watch(history)
      /\ started' = started + 1
  BY <1>1, ReceiveFacts DEF ReadComments
<1>3. PICK r : r = [step |-> op, time |-> time, id |-> started', comments |-> image.comments]
  OBVIOUS
<1>4. req' = req \/ (image.stored /\ req' = [req EXCEPT ![w] = r])
  BY <1>3 DEF ReadComments
<1>5. TasksTyped' /\ started' \in Nat
  BY TypedAfter
<1>6. TablesInv'
  <2>1. \A v \in Workers : req'[v] = req[v] \/ req'[v].step \notin {"check_roles", "edit_roles"}
    BY <1>1, <1>3, <1>4
  <2> QED
    BY <1>1, <1>2, <1>5, <2>1, UserFrame DEF FrontendInv
<1>7. ASSUME ImageSound PROVE ImageSoundAfter
  <2>1. history'.posted = history.posted /\ history'.uncommented = history.uncommented
    BY <1>1, <1>2, <1>5, WatchFacts
  <2>2. ListSound' /\ QueuesSound'
    BY <1>2, <1>7, <2>1 DEF ImageSound, ListSound, QueuesSound
  <2>3. /\ started \in Nat /\ \A c \in history.posted : c.id \in Nat /\ c.id <= started
    BY <1>1, <1>7, FrontendConstants DEF HistoryRecords, Comments, ImageSound, IdsSound
  <2>4. IdsSound'
    BY <1>2, <2>1, <2>3 DEF IdsSound
  <2>5. ASSUME NEW v \in Workers, req'[v].step \in {"comment", "delete_comment"}
        PROVE  /\ image'.stored /\ req'[v].comments = image'.comments
               /\ req'[v].id <= started' /\ \A c \in history'.posted : c.id # req'[v].id
    <3>1. CASE req'[v] = req[v]
      <4>1. /\ image.stored /\ req[v].comments = image.comments
            /\ req[v].id <= started /\ \A c \in history.posted : c.id # req[v].id
        BY <1>7, <2>5, <3>1 DEF ImageSound, ReadsSound, ReadSound
      <4>2. req[v].id \in Nat
        BY <1>1, <2>5, <3>1, ReadRequests
      <4> QED
        BY <1>2, <2>1, <2>3, <3>1, <4>1, <4>2
    <3>2. CASE req'[v] # req[v]
      <4>1. v = w /\ image.stored /\ req'[v] = r
        BY <1>1, <1>4, <3>2
      <4>2. r.comments = image.comments /\ r.id = started'
        BY <1>3
      <4> QED
        BY <1>2, <2>1, <2>3, <4>1, <4>2
    <3> QED
      BY <3>1, <3>2
  <2>6. ReadsSound'
    BY <2>5 DEF ReadsSound, ReadSound
  <2> QED
    BY <2>2, <2>4, <2>6 DEF ImageSoundAfter
<1>8. ImageInv'
  BY <1>1, <1>2, <1>5, <1>7, ImageAfter DEF FrontendInv
<1> QED
  BY <1>6, <1>8

\* Once the only session that edits the list has ended, none is to be shown of.
LEMMA CommentDone ==
    ASSUME FrontendTypes, ImageSound, NEW w \in Workers,
           req[w].step \in {"comment", "delete_comment"}, req' = [req EXCEPT ![w] = Idle]
    PROVE  /\ ReadsSound'
           /\ image.stored /\ req[w].comments = image.comments
           /\ req[w].id <= started /\ \A c \in history.posted : c.id # req[w].id
<1>1. req \in [Workers -> RequestRecords]
  BY TypesParts DEF RequestsTyped
<1>2. ImageBusy(w)
  BY DEF ImageBusy, UserSteps
<1>3. \A v \in Workers : v # w => ~ ImageBusy(v)
  BY <1>2, SoleImageActivity DEF ImageSound
<1>4. \A v \in Workers : req'[v].step \notin {"comment", "delete_comment"}
  BY <1>1, <1>3 DEF ImageBusy, UserSteps, Idle
<1>5. ReadsSound'
  BY <1>4 DEF ReadsSound, ReadSound
<1> QED
  BY <1>5 DEF ImageSound, ReadsSound, ReadSound

LEMMA AddCommentKeeps ==
    ASSUME FrontendInv, FrontendTypes', NEW w \in Workers, AddComment(w)
    PROVE  ImageInv' /\ TablesInv'
<1>1. /\ image \in ImageRecords /\ started \in 0 .. MaxRequests /\ history \in HistoryRecords
      /\ req \in [Workers -> RequestRecords] /\ FrontendTypes
  BY TypesParts DEF FrontendInv, RequestsTyped
<1>2. /\ tasks' = tasks /\ started' = started /\ UNCHANGED <<userVars, cli>>
      /\ req' = [req EXCEPT ![w] = Idle] /\ req[w].step = "comment"
  BY DEF AddComment, Answer
<1>3. req[w] \in RequestRecords
  BY <1>1
<1>4. /\ req[w].time \in Times /\ req[w].id \in Nat /\ req[w].comments \in SUBSET Comments
  BY <1>2, <1>3, ReadRequests
<1>5. PICK n \in Comments : n = NewComment(req[w]) /\ n.id = req[w].id
  <2>1. NewComment(req[w]) \in Comments
    BY <1>4 DEF NewComment, Comments
  <2>2. NewComment(req[w]).id = req[w].id
    BY DEF NewComment
  <2> QED
    BY <2>1, <2>2
<1>6. PICK p \in SUBSET Comments : p = history.posted \cup {n}
  BY <1>1 DEF HistoryRecords
<1>7. PICK h : /\ h = IF image.stored THEN [history EXCEPT !.posted = p] ELSE history
               /\ Watch(h)
  BY <1>5, <1>6 DEF AddComment
<1>8. /\ h \in HistoryRecords /\ SameOverlaps(h) /\ h.rewritten = history.rewritten
      /\ h.uncommented = history.uncommented
      /\ image.stored => h.posted = p
  BY <1>1, <1>7, HistoryChanges, HistoryFields DEF SameLists
<1>9. TasksTyped'
  BY TypedAfter
<1>10. TablesInv'
  <2>1. \A v \in Workers : req'[v] = req[v] \/ req'[v].step \notin {"check_roles", "edit_roles"}
    BY <1>1, <1>2 DEF Idle
  <2> QED
    BY <1>2, <1>7, <1>8, <1>9, <2>1, UserFrame DEF FrontendInv, SameOverlaps
<1>11. ASSUME ImageSound PROVE ImageSoundAfter
  <2>1. /\ ReadsSound'
        /\ image.stored /\ req[w].comments = image.comments
        /\ req[w].id <= started /\ \A c \in history.posted : c.id # req[w].id
    BY <1>1, <1>2, <1>11, CommentDone
  <2>2. history'.posted = p /\ history'.uncommented = history.uncommented
    BY <1>7, <1>8, <1>9, <2>1, WatchFacts
  <2>3. image' = [image EXCEPT !.comments = image.comments \cup {n}]
    BY <1>5, <2>1 DEF AddComment
  <2>4. image'.stored /\ image'.comments = image.comments \cup {n}
    BY <1>1, <2>1, <2>3 DEF ImageRecords
  <2>5. ListSound /\ QueuesSound /\ IdsSound
    BY <1>11 DEF ImageSound
  <2>6. n \notin history.posted
    BY <1>5, <2>1
  <2>7. ListSound'
    BY <1>6, <2>1, <2>2, <2>4, <2>5, <2>6 DEF ListSound
  <2>8. QueuesSound'
    BY <1>2, <2>1, <2>4, <2>5 DEF QueuesSound
  <2>9. IdsSound'
    BY <1>2, <1>5, <1>6, <2>1, <2>2, <2>5 DEF IdsSound
  <2> QED
    BY <2>1, <2>7, <2>8, <2>9 DEF ImageSoundAfter
<1>12. ImageInv'
  BY <1>7, <1>8, <1>9, <1>11, ImageAfter DEF FrontendInv, SameOverlaps
<1> QED
  BY <1>10, <1>12

LEMMA DeleteCommentKeeps ==
    ASSUME FrontendInv, FrontendTypes', NEW w \in Workers, DeleteComment(w)
    PROVE  ImageInv' /\ TablesInv'
<1>1. /\ image \in ImageRecords /\ started \in 0 .. MaxRequests /\ history \in HistoryRecords
      /\ req \in [Workers -> RequestRecords] /\ FrontendTypes
  BY TypesParts DEF FrontendInv, RequestsTyped
<1>2. /\ tasks' = tasks /\ started' = started /\ UNCHANGED <<userVars, cli>>
      /\ req' = [req EXCEPT ![w] = Idle] /\ req[w].step = "delete_comment"
  BY DEF DeleteComment, Answer
<1>3. req[w] \in RequestRecords
  BY <1>1
<1>4. req[w].comments \in SUBSET Comments
  BY <1>2, <1>3, ReadRequests
<1>5. PICK gone \in SUBSET Comments : gone = {c \in req[w].comments : c.time = req[w].time}
  BY <1>4
<1>6. PICK p \in SUBSET Comments : p = history.uncommented \cup gone
  BY <1>1 DEF HistoryRecords
<1>7. PICK h : h = [history EXCEPT !.uncommented = p] /\ Watch(h)
  BY <1>5, <1>6 DEF DeleteComment
<1>8. /\ h \in HistoryRecords /\ SameOverlaps(h) /\ h.rewritten = history.rewritten
      /\ h.uncommented = p /\ h.posted = history.posted
  BY <1>1, <1>7, HistoryChanges, HistoryFields
<1>9. TasksTyped'
  BY TypedAfter
<1>10. TablesInv'
  <2>1. \A v \in Workers : req'[v] = req[v] \/ req'[v].step \notin {"check_roles", "edit_roles"}
    BY <1>1, <1>2 DEF Idle
  <2> QED
    BY <1>2, <1>7, <1>8, <1>9, <2>1, UserFrame DEF FrontendInv, SameOverlaps
<1>11. ASSUME ImageSound PROVE ImageSoundAfter
  <2>1. ReadsSound' /\ image.stored /\ req[w].comments = image.comments
    BY <1>1, <1>2, <1>11, CommentDone
  <2>2. history'.posted = history.posted /\ history'.uncommented = p
    BY <1>7, <1>8, <1>9, WatchFacts
  <2>3. PICK rest : rest = {c \in req[w].comments : c.time # req[w].time}
    OBVIOUS
  <2>4. rest = image.comments \ gone /\ gone \subseteq image.comments
    BY <1>5, <2>1, <2>3
  <2>5. image' = IF rest # image.comments THEN [image EXCEPT !.comments = rest] ELSE image
    BY <2>1, <2>3 DEF DeleteComment
  <2>6. image'.stored /\ image'.comments = rest
    BY <1>1, <2>1, <2>5 DEF ImageRecords
  <2>7. ListSound /\ QueuesSound /\ IdsSound
    BY <1>11 DEF ImageSound
  <2>8. ListSound'
    BY <1>6, <2>1, <2>2, <2>4, <2>6, <2>7 DEF ListSound
  <2>9. QueuesSound' /\ IdsSound'
    BY <1>2, <2>1, <2>2, <2>6, <2>7 DEF QueuesSound, IdsSound
  <2> QED
    BY <2>1, <2>8, <2>9 DEF ImageSoundAfter
<1>12. ImageInv'
  BY <1>7, <1>8, <1>9, <1>11, ImageAfter DEF FrontendInv, SameOverlaps
<1> QED
  BY <1>10, <1>12

-----------------------------------------------------------------------------
(* Users and roles.                                                        *)

\* Steps about users leave the image alone.
LEMMA UserStepKeeps ==
    ASSUME FrontendInv, FrontendTypes', UNCHANGED imageVars, started' >= started,
           NEW h \in HistoryRecords, Watch(h), SameLists(h), h.overlap = history.overlap,
           h.rewritten = history.rewritten, history.userOverlap => h.userOverlap,
           \A v \in Workers : req'[v] = req[v] \/ req'[v].step \notin {"comment", "delete_comment"},
           UsersSound /\ ~ h.userOverlap /\ Single(UserActivity') => SoundAfter
    PROVE  ImageInv' /\ TablesInv'
<1>1. TasksTyped' /\ started' \in Nat /\ image' = image /\ tasks' = tasks
  BY TypedAfter DEF imageVars
<1>2. QueuesSound => QueuesSound'
  BY <1>1 DEF QueuesSound
<1>3. ImageInv'
  BY <1>1, <1>2, ImageFrame DEF FrontendInv
<1>4. TablesInv'
  BY <1>1, UserAfter DEF FrontendInv
<1> QED
  BY <1>3, <1>4

\* What an edit does to the rows of a user.
LEMMA EditedRows ==
    ASSUME UsersTyped, RowsSound, NEW k, NEW a, NEW b, users' = users, roleNames \subseteq roleNames',
           member' = Edited(k, a, b), a \cap RolesOf(k) = {}, a \subseteq roleNames',
           a = {} \/ \E n \in Names : users[n] = k
    PROVE  RowsSound'
<1> SUFFICES ASSUME NEW m \in Keys \X AllRoles
             PROVE  /\ member'[m] <= 1
                    /\ member'[m] = 1 => (\E n \in Names : users[n] = m[1]) /\ m[2] \in roleNames'
  BY DEF RowsSound
<1>1. m = <<m[1], m[2]>> /\ m[2] \in AllRoles
  BY Pairs
<1>2. /\ member[m] \in Nat /\ member[m] <= 1
      /\ member[m] = 1 => (\E n \in Names : users[n] = m[1]) /\ m[2] \in roleNames
  BY DEF UsersTyped, RowsSound
<1>3. member'[m] = IF m[1] # k THEN member[m]
                   ELSE IF m[2] \in a THEN member[m] + 1
                   ELSE IF m[2] \in b THEN 0 ELSE member[m]
  BY DEF Edited, UsersTyped
<1>4. CASE m[1] = k /\ m[2] \in a
  <2>1. m[2] \notin RolesOf(k)
    BY <1>4
  <2>2. ~ (member[<<k, m[2]>>] > 0)
    BY <1>1, <2>1 DEF RolesOf
  <2>3. member[m] = 0
    BY <1>1, <1>2, <1>4, <2>2
  <2> QED
    BY <1>3, <1>4, <2>3
<1>5. CASE ~ (m[1] = k /\ m[2] \in a)
  BY <1>2, <1>3, <1>5
<1> QED
  BY <1>4, <1>5

LEMMA InsertedRows ==
    ASSUME UsersTyped, RowsSound, NEW n \in Names, NEW k \in Keys, NEW roles, users[n] = 0,
           InsertUser(n, k, roles), roleNames' = roleNames, roles \subseteq roleNames
    PROVE  RowsSound'
<1> SUFFICES ASSUME NEW m \in Keys \X AllRoles
             PROVE  /\ member'[m] <= 1
                    /\ member'[m] = 1 => (\E i \in Names : users'[i] = m[1]) /\ m[2] \in roleNames'
  BY DEF RowsSound
<1>1. /\ member[m] \in Nat /\ member[m] <= 1
      /\ member[m] = 1 => (\E i \in Names : users[i] = m[1]) /\ m[2] \in roleNames
  BY DEF UsersTyped, RowsSound
<1>2. member'[m] = IF m[1] = k /\ m[2] \in roles THEN 1 ELSE member[m]
  BY DEF InsertUser, UsersTyped
<1>3. users'[n] = k /\ \A i \in Names : users[i] # 0 => users'[i] = users[i]
  BY DEF InsertUser, UsersTyped
<1>4. m[1] # 0
  BY Pairs DEF Keys
<1> QED
  BY <1>1, <1>2, <1>3, <1>4

LEMMA RemovedRows ==
    ASSUME UsersTyped, RowsSound, NEW n \in Names, RemoveUser(n), roleNames' = roleNames
    PROVE  RowsSound'
<1> SUFFICES ASSUME NEW m \in Keys \X AllRoles
             PROVE  /\ member'[m] <= 1
                    /\ member'[m] = 1 => (\E i \in Names : users'[i] = m[1]) /\ m[2] \in roleNames'
  BY DEF RowsSound
<1>1. /\ member[m] \in Nat /\ member[m] <= 1
      /\ member[m] = 1 => (\E i \in Names : users[i] = m[1]) /\ m[2] \in roleNames
  BY DEF UsersTyped, RowsSound
<1>2. member'[m] = IF m[1] = users[n] THEN 0 ELSE member[m]
  BY DEF RemoveUser, UsersTyped
<1>3. \A i \in Names : i # n => users'[i] = users[i]
  BY DEF RemoveUser, UsersTyped
<1> QED
  BY <1>1, <1>2, <1>3

\* The worker that edits is the only activity and has come to its end.
LEMMA WorkerDone ==
    ASSUME FrontendTypes, UsersSound, NEW w \in Workers, req[w].step \in UserSteps,
           req' = [req EXCEPT ![w] = Idle], cli' = cli, roleNames \subseteq roleNames'
    PROVE  EditsSound' /\ ToolSound'
<1>1. req \in [Workers -> RequestRecords]
  BY TypesParts DEF RequestsTyped
<1>2. AlongWith(w) /\ ~ ToolWrites
  BY SoleWorker DEF UsersSound
<1>3. \A v \in Workers : req'[v].step \notin UserSteps
  BY <1>1, <1>2 DEF AlongWith, Idle, UserSteps
<1>4. EditsSound'
  BY <1>3 DEF EditsSound, EditSound, UserSteps
<1>5. ToolSound'
  BY <1>2 DEF UsersSound, ToolSound, ToolWrites
<1> QED
  BY <1>4, <1>5

LEMMA AddUserKeeps ==
    ASSUME FrontendInv, FrontendTypes', NEW w \in Workers, AddUser(w)
    PROVE  ImageInv' /\ TablesInv'
<1>1. /\ UsersTyped /\ started \in 0 .. MaxRequests /\ history \in HistoryRecords
      /\ req \in [Workers -> RequestRecords] /\ FrontendTypes
  BY TypesParts DEF FrontendInv, RequestsTyped
<1>2. /\ UNCHANGED imageVars /\ roleNames' = roleNames /\ cli' = cli /\ Watch(history)
      /\ started' = started /\ req' = [req EXCEPT ![w] = Idle] /\ req[w].step = "add_user"
  BY DEF AddUser, Answer
<1>3. req[w].name \in Names /\ req[w].key \in Keys
  BY <1>1, <1>2, ReadRequests
<1>4. ASSUME UsersSound PROVE SoundAfter
  <2>1. EditsSound' /\ ToolSound'
    BY <1>1, <1>2, <1>4, WorkerDone DEF UserSteps
  <2>2. CASE users[req[w].name] # 0
    <3>1. UNCHANGED userVars
      BY <1>2, <2>2 DEF AddUser, userVars
    <3> QED
      BY <1>4, <2>1, <3>1, TablesFrame DEF UsersSound, SoundAfter
  <2>3. CASE users[req[w].name] = 0
    <3>1. InsertUser(req[w].name, req[w].key, {})
      BY <2>3 DEF AddUser
    <3>2. RowsSound'
      BY <1>1, <1>2, <1>3, <1>4, <2>3, <3>1, InsertedRows DEF UsersSound
    <3> QED
      BY <2>1, <3>2 DEF SoundAfter
  <2> QED
    BY <2>2, <2>3
<1>5. \A v \in Workers : req'[v] = req[v] \/ req'[v].step = "idle"
  BY <1>1, <1>2 DEF Idle
<1>6. started' >= started
  BY <1>1, <1>2, FrontendConstants
<1> QED
  BY <1>1, <1>2, <1>4, <1>5, <1>6, HistoryFields, UserStepKeeps

LEMMA EditRolesKeeps ==
    ASSUME FrontendInv, FrontendTypes', NEW w \in Workers, EditRoles(w)
    PROVE  ImageInv' /\ TablesInv'
<1>1. /\ UsersTyped /\ started \in 0 .. MaxRequests /\ history \in HistoryRecords
      /\ req \in [Workers -> RequestRecords] /\ FrontendTypes
  BY TypesParts DEF FrontendInv, RequestsTyped
<1>2. /\ UNCHANGED imageVars /\ users' = users /\ cli' = cli /\ Watch(history)
      /\ started' = started /\ req' = [req EXCEPT ![w] = Idle] /\ req[w].step = "edit_roles"
  BY DEF EditRoles, Answer
<1>3. ASSUME UsersSound PROVE SoundAfter
  <2>1. CASE Refused(req[w])
    <3>1. UNCHANGED userVars
      BY <1>2, <2>1 DEF EditRoles, userVars
    <3>2. EditsSound' /\ ToolSound'
      BY <1>1, <1>2, <1>3, <3>1, WorkerDone DEF UserSteps, userVars
    <3> QED
      BY <1>3, <3>1, <3>2, TablesFrame DEF UsersSound, SoundAfter
  <2>2. CASE ~ Refused(req[w])
    <3>1. /\ roleNames' = roleNames \cup req[w].new
          /\ member' = Edited(req[w].key, req[w].added, req[w].removed)
      BY <2>2 DEF EditRoles
    <3>2. EditsSound' /\ ToolSound'
      BY <1>1, <1>2, <1>3, <3>1, WorkerDone DEF UserSteps
    <3>3. /\ \E n \in Names : users[n] = req[w].key
          /\ req[w].added \cap RolesOf(req[w].key) = {}
          /\ req[w].new = req[w].added \ roleNames
      BY <1>2, <1>3 DEF UsersSound, EditsSound, EditSound
    <3>4. req[w].added \subseteq roleNames'
      BY <3>1, <3>3
    <3>5. RowsSound'
      BY <1>1, <1>2, <1>3, <3>1, <3>3, <3>4, EditedRows DEF UsersSound
    <3> QED
      BY <3>2, <3>5 DEF SoundAfter
  <2> QED
    BY <2>1, <2>2
<1>4. \A v \in Workers : req'[v] = req[v] \/ req'[v].step = "idle"
  BY <1>1, <1>2 DEF Idle
<1>5. started' >= started
  BY <1>1, <1>2, FrontendConstants
<1> QED
  BY <1>1, <1>2, <1>3, <1>4, <1>5, HistoryFields, UserStepKeeps

\* A worker that begins or goes on to edit is the only activity afterwards.
LEMMA WorkerGoesOn ==
    ASSUME Single(UserActivity'), NEW w \in Workers, req'[w].step \in UserSteps,
           ToolSound, cli' = cli, UNCHANGED userVars, EditSound(req[w])'
    PROVE  EditsSound' /\ ToolSound'
<1>1. (Single(UserActivity) => OneEditor)'
  BY SoleActivity, PTL
<1>2. AlongWith(w)' /\ ~ ToolWrites'
  BY <1>1 DEF Single, OneEditor
<1>3. EditsSound'
  BY <1>2 DEF EditsSound, EditSound, AlongWith, UserSteps
<1>4. ToolSound'
  BY <1>2 DEF ToolSound, ToolWrites, userVars
<1> QED
  BY <1>3, <1>4

LEMMA FindUserKeeps ==
    ASSUME FrontendInv, FrontendTypes', NEW w \in Workers, NEW n \in Names,
           NEW selected \in SUBSET ROLES, FindUser(w, n, selected)
    PROVE  ImageInv' /\ TablesInv'
<1>1. /\ UsersTyped /\ started \in 0 .. MaxRequests /\ history \in HistoryRecords
      /\ req \in [Workers -> RequestRecords]
  BY TypesParts DEF FrontendInv, RequestsTyped
<1>2. /\ UNCHANGED imageVars /\ UNCHANGED userVars /\ cli' = cli /\ Watch(history)
      /\ image' = image /\ tasks' = tasks
  BY DEF FindUser, imageVars
<1>3. started' >= started
  <2>1. started' = started + 1
    BY <1>1, ReceiveFacts DEF FindUser
  <2> QED
    BY <1>1, <2>1, FrontendConstants
<1>4. CASE users[n] = 0
  <2>1. req' = req
    BY <1>4 DEF FindUser
  <2>2. QueuesSound => QueuesSound'
    BY <1>2 DEF QueuesSound
  <2> QED
    BY <1>1, <1>2, <1>3, <2>1, <2>2, HistoryFields, BothFrames
<1>5. CASE users[n] # 0
  <2>1. PICK r : r = [step |-> "check_roles", key |-> users[n], new |-> {},
                      added |-> selected \ (RolesOf(users[n]) \cap ROLES),
                      removed |-> (RolesOf(users[n]) \cap ROLES) \ selected]
    OBVIOUS
  <2>2. req' = [req EXCEPT ![w] = r]
    BY <1>5, <2>1 DEF FindUser
  <2>3. req'[w] = r
    BY <1>1, <2>2
  <2>4. /\ r.step = "check_roles" /\ r.key = users[n]
        /\ r.added = selected \ (RolesOf(users[n]) \cap ROLES)
        /\ r.removed = (RolesOf(users[n]) \cap ROLES) \ selected
    BY <2>1
  <2>5. EditSound(r)
    BY <2>4 DEF EditSound
  <2>6. ASSUME UsersSound, Single(UserActivity') PROVE SoundAfter
    <3>1. EditSound(req[w])'
      BY <1>2, <2>3, <2>5, RolesFrame DEF EditSound, userVars
    <3>2. EditsSound' /\ ToolSound'
      BY <1>2, <2>3, <2>4, <2>6, <3>1, WorkerGoesOn DEF UsersSound, UserSteps
    <3> QED
      BY <1>2, <2>6, <3>2, TablesFrame DEF UsersSound, SoundAfter
  <2>7. \A v \in Workers : req'[v] = req[v] \/ req'[v].step = "check_roles"
    BY <1>1, <2>2, <2>4
  <2> QED
    BY <1>1, <1>2, <1>3, <2>6, <2>7, HistoryFields, UserStepKeeps
<1> QED
  BY <1>4, <1>5

LEMMA RoleExistsKeeps ==
    ASSUME FrontendInv, FrontendTypes', NEW w \in Workers, RoleExists(w)
    PROVE  ImageInv' /\ TablesInv'
<1>1. /\ UsersTyped /\ started \in 0 .. MaxRequests /\ history \in HistoryRecords
      /\ req \in [Workers -> RequestRecords]
  BY TypesParts DEF FrontendInv, RequestsTyped
<1>2. /\ UNCHANGED imageVars /\ UNCHANGED userVars /\ cli' = cli /\ Watch(history)
      /\ req[w].step = "check_roles"
  BY DEF RoleExists
<1>3. started' >= started
  <2>1. started' = started
    BY DEF RoleExists
  <2> QED
    BY <1>1, <2>1, FrontendConstants
<1>4. PICK r : r = Checked(req[w])
  OBVIOUS
<1>5. req' = [req EXCEPT ![w] = r]
  BY <1>1, <1>4 DEF RoleExists, Checked
<1>6. /\ r.step = "edit_roles" /\ r.new = r.added \ roleNames /\ r.key = req[w].key
      /\ r.added = req[w].added /\ r.removed = req[w].removed
  BY <1>1, <1>2, <1>4, CheckedTypes
<1>7. req'[w] = r
  BY <1>1, <1>5
<1>8. ASSUME UsersSound, Single(UserActivity') PROVE SoundAfter
  <2>1. EditSound(r)
    BY <1>2, <1>6, <1>8 DEF UsersSound, EditsSound, EditSound
  <2>2. EditSound(req[w])'
    BY <1>2, <1>7, <2>1, RolesFrame DEF EditSound, userVars
  <2>3. EditsSound' /\ ToolSound'
    BY <1>2, <1>6, <1>7, <1>8, <2>2, WorkerGoesOn DEF UsersSound, UserSteps
  <2> QED
    BY <1>2, <1>8, <2>3, TablesFrame DEF UsersSound, SoundAfter
<1>9. \A v \in Workers : req'[v] = req[v] \/ req'[v].step = "edit_roles"
  BY <1>1, <1>5, <1>6
<1> QED
  BY <1>1, <1>2, <1>3, <1>8, <1>9, HistoryFields, UserStepKeeps

\* Nothing else was begun.
LEMMA NobodyEdits ==
    ASSUME UserActivity = {}, req' = req
    PROVE  EditsSound' /\ ~ ToolWrites
  BY NoActivity DEF EditsSound, EditSound, UserSteps

LEMMA DeleteUserKeeps ==
    ASSUME FrontendInv, FrontendTypes', NEW w \in Workers, NEW n \in Names, DeleteUser(w, n)
    PROVE  ImageInv' /\ TablesInv'
<1>1. /\ UsersTyped /\ started \in 0 .. MaxRequests /\ history \in HistoryRecords
  BY TypesParts DEF FrontendInv
<1>2. /\ UNCHANGED imageVars /\ roleNames' = roleNames /\ cli' = cli /\ req' = req
  BY DEF DeleteUser
<1>3. started' >= started
  <2>1. started' = started + 1
    BY <1>1, ReceiveFacts DEF DeleteUser
  <2> QED
    BY <1>1, <2>1, FrontendConstants
<1>4. PICK b \in BOOLEAN : b = (history.userOverlap \/ UserActivity # {})
  BY <1>1 DEF HistoryRecords
<1>5. PICK h : h = [history EXCEPT !.userOverlap = b] /\ Watch(h)
  BY <1>4 DEF DeleteUser
<1>6. /\ h \in HistoryRecords /\ SameLists(h) /\ h.overlap = history.overlap
      /\ h.rewritten = history.rewritten /\ h.userOverlap = b
  BY <1>1, <1>5, HistoryChanges, HistoryFields
<1>7. history.userOverlap => h.userOverlap
  BY <1>1, <1>4, <1>6 DEF HistoryRecords
<1>8. ASSUME UsersSound, ~ h.userOverlap PROVE SoundAfter
  <2>1. UserActivity = {}
    BY <1>1, <1>4, <1>6, <1>8 DEF HistoryRecords
  <2>2. EditsSound' /\ ToolSound'
    BY <1>2, <1>8, <2>1, NobodyEdits DEF UsersSound, ToolSound, ToolWrites
  <2>3. RowsSound'
    <3>1. CASE RemoveUser(n)
      BY <1>1, <1>2, <1>8, <3>1, RemovedRows DEF UsersSound
    <3>2. CASE UNCHANGED <<users, member>>
      BY <1>2, <1>8, <3>2 DEF UsersSound, RowsSound
    <3> QED
      BY <3>1, <3>2 DEF DeleteUser
  <2> QED
    BY <2>2, <2>3 DEF SoundAfter
<1> QED
  BY <1>2, <1>3, <1>5, <1>6, <1>7, <1>8, UserStepKeeps

-----------------------------------------------------------------------------
(* The console tool.                                                       *)

LEMMA StartToolKeeps ==
    ASSUME FrontendInv, FrontendTypes', StartTool
    PROVE  ImageInv' /\ TablesInv'
<1>1. /\ UsersTyped /\ started \in 0 .. MaxRequests /\ history \in HistoryRecords
  BY TypesParts DEF FrontendInv
<1>2. /\ UNCHANGED imageVars /\ roleNames' = roleNames \cup ROLES /\ cli' = [step |-> "ready"]
      /\ req' = req /\ users' = users /\ member' = member /\ started' = started
  BY DEF StartTool, Ready
<1>3. started' >= started
  BY <1>1, <1>2, FrontendConstants
<1>4. PICK b \in BOOLEAN : b = (history.userOverlap \/ UserActivity # {})
  BY <1>1 DEF HistoryRecords
<1>5. PICK h : h = [history EXCEPT !.userOverlap = b] /\ Watch(h)
  BY <1>4 DEF StartTool
<1>6. /\ h \in HistoryRecords /\ SameLists(h) /\ h.overlap = history.overlap
      /\ h.rewritten = history.rewritten /\ h.userOverlap = b
  BY <1>1, <1>5, HistoryChanges, HistoryFields
<1>7. history.userOverlap => h.userOverlap
  BY <1>1, <1>4, <1>6 DEF HistoryRecords
<1>8. ASSUME UsersSound, ~ h.userOverlap PROVE SoundAfter
  <2>1. UserActivity = {}
    BY <1>1, <1>4, <1>6, <1>8 DEF HistoryRecords
  <2>2. EditsSound'
    BY <1>2, <2>1, NobodyEdits
  <2>3. ToolSound'
    BY <1>2 DEF ToolSound
  <2>4. RowsSound'
    BY <1>2, <1>8 DEF UsersSound, RowsSound
  <2> QED
    BY <2>2, <2>3, <2>4 DEF SoundAfter
<1> QED
  BY <1>2, <1>3, <1>5, <1>6, <1>7, <1>8, UserStepKeeps

LEMMA ExitKeeps ==
    ASSUME FrontendInv, FrontendTypes', Exit
    PROVE  ImageInv' /\ TablesInv'
<1>1. started \in 0 .. MaxRequests /\ history \in HistoryRecords
  BY TypesParts DEF FrontendInv
<1>2. /\ UNCHANGED imageVars /\ UNCHANGED userVars /\ cli' = [step |-> "off"]
      /\ req' = req /\ started' = started /\ Watch(history)
  BY DEF Exit, Off
<1>3. started' >= started
  BY <1>1, <1>2, FrontendConstants
<1>4. ASSUME UsersSound PROVE SoundAfter
  <2>1. EditsSound'
    BY <1>2, <1>4, RolesFrame DEF UsersSound, EditsSound, EditSound, userVars
  <2>2. ToolSound'
    BY <1>2 DEF ToolSound
  <2> QED
    BY <1>2, <1>4, <2>1, <2>2, TablesFrame DEF UsersSound, SoundAfter
<1> QED
  BY <1>1, <1>2, <1>3, <1>4, HistoryFields, UserStepKeeps

LEMMA PromptKeeps ==
    ASSUME FrontendInv, FrontendTypes', NEW a \in CliActions, NEW n \in Names, NEW r \in AllRoles,
           Prompt(a, n, r)
    PROVE  ImageInv' /\ TablesInv'
<1>1. started \in 0 .. MaxRequests /\ history \in HistoryRecords
  BY TypesParts DEF FrontendInv
<1>2. /\ UNCHANGED imageVars /\ UNCHANGED userVars /\ req' = req /\ Watch(history)
      /\ started' = started + 1 /\ cli = [step |-> "ready"] /\ Valid(a, n, r)
      /\ cli' = [step |-> "write", action |-> a, name |-> n, role |-> r, key |-> started']
  BY DEF Prompt, Ready
<1>3. started' >= started
  BY <1>1, <1>2, FrontendConstants
<1>4. ASSUME UsersSound PROVE SoundAfter
  <2>1. EditsSound'
    BY <1>2, <1>4, RolesFrame DEF UsersSound, EditsSound, EditSound, userVars
  <2>2. ToolSound'
    <3>1. /\ cli'.step = "write" /\ cli'.action = a /\ cli'.name = n /\ cli'.role = r
          /\ cli.step = "ready"
      BY <1>2
    <3>2. ROLES \subseteq roleNames'
      BY <1>2, <1>4, <3>1 DEF UsersSound, ToolSound, userVars
    <3>3. Valid(a, n, r)'
      BY <1>2, TablesFrame
    <3>4. Valid(cli.action, cli.name, cli.role)'
      BY <3>1, <3>3 DEF Valid
    <3> QED
      BY <3>1, <3>2, <3>4 DEF ToolSound
  <2> QED
    BY <1>2, <1>4, <2>1, <2>2, TablesFrame DEF UsersSound, SoundAfter
<1> QED
  BY <1>1, <1>2, <1>3, <1>4, HistoryFields, UserStepKeeps

LEMMA WriteKeeps ==
    ASSUME FrontendInv, FrontendTypes', Write
    PROVE  ImageInv' /\ TablesInv'
<1>1. /\ UsersTyped /\ started \in 0 .. MaxRequests /\ history \in HistoryRecords
      /\ cli \in ToolRecords /\ req \in [Workers -> RequestRecords]
  BY TypesParts DEF FrontendInv, RequestsTyped
<1>2. /\ UNCHANGED imageVars /\ req' = req /\ Watch(history) /\ started' = started
      /\ cli.step = "write"
  BY DEF Write
<1>3. started' >= started
  BY <1>1, <1>2, FrontendConstants
<1>4. /\ cli.action \in CliActions /\ cli.name \in Names /\ cli.role \in AllRoles
      /\ cli.key \in Keys
  BY <1>1, <1>2, ReadTool
<1>5. ASSUME UsersSound PROVE SoundAfter
  <2>1. RowsSound /\ ROLES \subseteq roleNames /\ Valid(cli.action, cli.name, cli.role)
    BY <1>2, <1>5 DEF UsersSound, ToolSound
  <2>2. EditsSound'
    <3>1. \A v \in Workers : req[v].step \notin UserSteps
      BY <1>2, <1>5, SoleActivity DEF UsersSound, OneEditor, ToolWrites
    <3> QED
      BY <1>2, <3>1 DEF EditsSound, EditSound, UserSteps
  <2>3. ASSUME ~ Refuses(cli), RowsSound', roleNames \subseteq roleNames' PROVE SoundAfter
    <3>1. cli' = [step |-> "ready"]
      BY <2>3 DEF Write, Ready
    <3>2. ToolSound'
      BY <2>1, <2>3, <3>1 DEF ToolSound
    <3> QED
      BY <2>2, <2>3, <3>2 DEF SoundAfter
  <2>4. ASSUME NEW k \in Keys PROVE CanDelete(k, RolesOf(k))
    <3> SUFFICES ASSUME NEW r \in RolesOf(k) PROVE member[<<k, r>>] = 1
      BY DEF CanDelete
    <3>1. <<k, r>> \in Keys \X AllRoles /\ member[<<k, r>>] > 0
      BY DEF RolesOf
    <3>2. member[<<k, r>>] \in Nat /\ member[<<k, r>>] <= 1
      BY <1>1, <2>1, <3>1 DEF UsersTyped, RowsSound
    <3> QED
      BY <3>1, <3>2
  <2>5. users[cli.name] # 0 => users[cli.name] \in Keys
    BY <1>1, <1>4, FrontendConstants DEF UsersTyped, Keys
  <2>6. CASE cli.action = "create_user"
    <3>1. users[cli.name] = 0 /\ ~ Refuses(cli)
      BY <2>1, <2>6 DEF Valid, Refuses
    <3>2. InsertUser(cli.name, cli.key, {"guest"}) /\ roleNames' = roleNames
      BY <2>6, <3>1 DEF Write
    <3>3. {"guest"} \subseteq roleNames
      BY <2>1, FrontendConstants
    <3>4. RowsSound'
      BY <1>1, <1>4, <2>1, <3>1, <3>2, <3>3, InsertedRows
    <3> QED
      BY <2>3, <3>1, <3>2, <3>4
  <2>7. CASE cli.action = "delete_user"
    <3>1. users[cli.name] # 0
      BY <2>1, <2>7 DEF Valid
    <3>2. ~ Refuses(cli)
      BY <2>4, <2>5, <2>7, <3>1 DEF Refuses, CanRemove
    <3>3. RemoveUser(cli.name) /\ roleNames' = roleNames
      BY <2>7, <3>2 DEF Write
    <3>4. RowsSound'
      BY <1>1, <1>4, <2>1, <3>3, RemovedRows
    <3> QED
      BY <2>3, <3>2, <3>3, <3>4
  <2>8. CASE cli.action = "create_role"
    <3>1. ~ Refuses(cli)
      BY <2>8 DEF Refuses
    <3>2. roleNames' = roleNames \cup {cli.role} /\ UNCHANGED <<users, member>>
      BY <2>8, <3>1 DEF Write
    <3>3. RowsSound'
      BY <2>1, <3>2 DEF RowsSound
    <3> QED
      BY <2>3, <3>1, <3>2, <3>3
  <2>9. CASE cli.action = "add_role_to_user"
    <3>1. users[cli.name] # 0 /\ cli.role \in roleNames
      BY <2>1, <2>9 DEF Valid
    <3>2. ~ Refuses(cli)
      BY <2>9, <3>1 DEF Refuses
    <3>3. PICK k : k = users[cli.name]
      OBVIOUS
    <3>4. /\ member' = Edited(k, {cli.role} \ RolesOf(k), {})
          /\ users' = users /\ roleNames' = roleNames
      BY <2>9, <3>2, <3>3 DEF Write
    <3>5. PICK a : a = {cli.role} \ RolesOf(k)
      OBVIOUS
    <3>6. /\ a \cap RolesOf(k) = {} /\ a \subseteq roleNames' /\ roleNames \subseteq roleNames'
          /\ \E n \in Names : users[n] = k
      BY <1>4, <3>1, <3>3, <3>4, <3>5
    <3>7. RowsSound'
      BY <1>1, <2>1, <3>4, <3>5, <3>6, EditedRows
    <3> QED
      BY <2>3, <3>2, <3>6, <3>7
  <2>10. CASE cli.action = "remove_role_from_user"
    <3>1. users[cli.name] # 0
      BY <2>1, <2>10 DEF Valid
    <3>2. PICK k \in Keys : k = users[cli.name]
      BY <2>5, <3>1
    <3>3. member[<<k, cli.role>>] <= 1 /\ member[<<k, cli.role>>] \in Nat
      BY <1>1, <1>4, <2>1 DEF RowsSound, UsersTyped
    <3>4. ~ Refuses(cli)
      BY <2>10, <3>1, <3>2, <3>3 DEF Refuses
    <3>5. /\ member' = Edited(k, {}, {cli.role})
          /\ users' = users /\ roleNames' = roleNames
      BY <2>10, <3>2, <3>4 DEF Write
    <3>6. RowsSound'
      BY <1>1, <2>1, <3>5, EditedRows
    <3> QED
      BY <2>3, <3>4, <3>5, <3>6
  <2> QED
    BY <1>4, <2>6, <2>7, <2>8, <2>9, <2>10 DEF CliActions
<1>6. \A v \in Workers : req'[v] = req[v]
  BY <1>2
<1> QED
  BY <1>1, <1>2, <1>3, <1>5, <1>6, HistoryFields, UserStepKeeps

-----------------------------------------------------------------------------
(* The theorem.                                                            *)

LEMMA FrontendInit == Init => FrontendInv
<1> SUFFICES ASSUME Init PROVE FrontendInv
  OBVIOUS
<1>1. FrontendTypes
  BY TypesInit
<1>2. \A w \in Workers : req[w].step = "idle"
  BY DEF Init, Idle
<1>3. ImageActivity = {}
  BY <1>2 DEF Init, ImageActivity, TaskTypes
<1>4. UserActivity = {}
  BY <1>2 DEF Init, UserActivity, UserSteps, Off
<1>5. ImageSound
  BY <1>2, <1>3 DEF Init, ImageSound, Single, ListSound, QueuesSound, IdsSound, ReadsSound,
     ReadSound, TaskTypes
<1>6. UsersSound
  <2>1. RowsSound
    BY DEF Init, RowsSound
  <2>2. ToolSound
    BY DEF Init, ToolSound, Off
  <2>3. EditsSound
    BY <1>2 DEF EditsSound, EditSound
  <2> QED
    BY <1>4, <2>1, <2>2, <2>3 DEF UsersSound, Single
<1> QED
  BY <1>1, <1>5, <1>6 DEF FrontendInv, ImageInv, TablesInv

LEMMA FrontendStep == FrontendInv /\ [Next]_vars => FrontendInv'
<1> SUFFICES ASSUME FrontendInv, [Next]_vars PROVE FrontendInv'
  OBVIOUS
<1>1. FrontendTypes'
  BY TypesStep DEF FrontendInv
<1>2. ASSUME NEW w \in Workers, ImageRequests(w) PROVE ImageInv' /\ TablesInv'
  BY <1>1, <1>2, PostUploadKeeps, SubmitKeeps, RedoAnalysisKeeps, CheckFirmwareKeeps,
     ReadCommentsKeeps, Zenon DEF ImageRequests
<1>3. ASSUME NEW w \in Workers, ImageSteps(w) PROVE ImageInv' /\ TablesInv'
  BY <1>1, <1>3, SendTaskKeeps, DeleteFirmwareKeeps, AddCommentKeeps, DeleteCommentKeeps, Zenon
     DEF ImageSteps
<1>4. ASSUME NEW w \in Workers, UserRequests(w) PROVE ImageInv' /\ TablesInv'
  BY <1>1, <1>4, UserExistsKeeps, DeleteUserKeeps, FindUserKeeps, Zenon DEF UserRequests
<1>5. ASSUME NEW w \in Workers, UserWorks(w) PROVE ImageInv' /\ TablesInv'
  BY <1>1, <1>5, AddUserKeeps, RoleExistsKeeps, EditRolesKeeps, Zenon DEF UserWorks
<1>6. ASSUME NEW w \in Workers, Respawn(w) PROVE ImageInv' /\ TablesInv'
  BY <1>1, <1>6, RespawnKeeps
<1>7. ASSUME NEW t \in TaskTypes, BackEnd(t) PROVE ImageInv' /\ TablesInv'
  BY <1>1, <1>7, BackEndKeeps
<1>8. ASSUME ToolSteps PROVE ImageInv' /\ TablesInv'
  BY <1>1, <1>8, StartToolKeeps, ExitKeeps, PromptKeeps, WriteKeeps, Zenon DEF ToolSteps
<1>9. ASSUME UNCHANGED vars PROVE ImageInv' /\ TablesInv'
  <2>1. ImageActivity' = ImageActivity /\ UserActivity' = UserActivity
    BY <1>9 DEF vars, ImageActivity, UserActivity
  <2>2. ImageSound => ImageSound'
    BY <1>9, <2>1 DEF vars, ImageSound, Single, ListSound, QueuesSound, IdsSound, ReadsSound,
       ReadSound
  <2>3. UNCHANGED userVars /\ member' = member /\ req' = req /\ cli' = cli
    BY <1>9 DEF vars, userVars
  <2>4. UsersSound => UsersSound'
    <3>1. EditsSound => EditsSound'
      BY <2>3, RolesFrame DEF EditsSound, EditSound, userVars
    <3>2. RowsSound /\ ToolSound => RowsSound' /\ ToolSound'
      BY <2>3, TablesFrame DEF ToolSound, userVars
    <3> QED
      BY <2>1, <3>1, <3>2 DEF UsersSound, Single
  <2> QED
    BY <1>9, <2>2, <2>4 DEF vars, FrontendInv, ImageInv, TablesInv
<1>10. ImageInv' /\ TablesInv'
  BY <1>2, <1>3, <1>4, <1>5, <1>6, <1>7, <1>8, <1>9, NextParts, Zenon
<1> QED
  BY <1>1, <1>10 DEF FrontendInv

LEMMA InvKeepsEdits == FrontendInv => EditsKept
<1> SUFFICES ASSUME FrontendInv PROVE EditsKept
  OBVIOUS
<1>1. /\ image \in ImageRecords /\ UsersTyped /\ cli \in ToolRecords /\ history \in HistoryRecords
  BY TypesParts DEF FrontendInv
<1>2. TypeOK
  BY <1>1, ReadTool DEF TypeOK, ImageRecords, UsersTyped
<1>3. CommentsKept
  BY DEF CommentsKept, FrontendInv, ImageInv, ImageSound, ListSound
<1>4. MembershipsSound
  <2>1. DOMAIN member = Keys \X AllRoles
    BY <1>1 DEF UsersTyped
  <2>2. UsersSound => /\ cli.step # "dead"
                      /\ \A m \in DOMAIN member :
                            /\ member[m] <= 1
                            /\ member[m] = 1 => (\E n \in Names : users[n] = m[1])
                                                /\ m[2] \in roleNames
    BY <2>1 DEF UsersSound, ToolSound, RowsSound
  <2> QED
    BY <2>2 DEF MembershipsSound, FrontendInv, TablesInv
<1> QED
  BY <1>2, <1>3, <1>4 DEF EditsKept

\* Edits are not lost as long as nothing overlaps: the comments of an image are those
\* that were posted and not deleted, a membership is one row of a user and a role that
\* exist, and manage_users.py does not die (db_interface_frontend_editing,
\* web_interface/components/user_management_routes, manage_users).
THEOREM EditsAreKept == Spec => []EditsKept
<1>1. Spec => []FrontendInv
  BY FrontendInit, FrontendStep, PTL DEF Spec
<1> QED
  BY <1>1, InvKeepsEdits, PTL

-----------------------------------------------------------------------------
(***************************************************************************)
(* The CVE database (plugins/analysis/cve_lookup).                         *)
(*                                                                         *)
(* The tables: a record each, no rows in one that is missing, and the year *)
(* of a row is that of its CVE.                                            *)
(***************************************************************************)
DbOf(rows) == [Tables -> [exists : BOOLEAN, rows : SUBSET rows]]

AllRows(d) == UNION {d[t].rows : t \in Tables}

IsDb(d) == d \in DbOf(AllRows(d))

CveTables == Tables \ {"cpe_table"}

SoundRows(rows) == \A r \in rows : r.id \in Cves /\ r.year = YearOf[r.id] /\ r.whole

\* What insert_rows takes of the rows of a feed.
NewRows(feed) == Fitting(setup_cve_feeds_table(feed))

SoundDb(d) ==
    /\ IsDb(d)
    /\ \A t \in Tables : ~d[t].exists => d[t].rows = {}
    /\ \A t \in CveTables : SoundRows(d[t].rows)

\* What DELETE leaves and what SELECT finds.
Without(rows, ids) == {r \in rows : r.id \notin ids}

OfYears(rows, years) == {r \in rows : r.year \in years}

Known(d) == Ids(d["cve_table"]) \cup Ids(d["summary_table"])

(***************************************************************************)
(* Every CVE that d knows and whose year the feeds of d have is known to e.*)
(***************************************************************************)
StillKnown(d, e) ==
    \A c \in Known(d) : YearOf[c] \in Years(d["cve_table"]) => c \in Known(e)

(***************************************************************************)
(* e is what statements that take nothing away for good make of d.         *)
(***************************************************************************)
Later(d, e) ==
    /\ StillKnown(d, e)
    /\ Years(d["cve_table"]) \subseteq Years(e["cve_table"])
    /\ d["summary_table"].rows \subseteq e["summary_table"].rows

(***************************************************************************)
(* A summary that e does not have any more is gone with all summaries of   *)
(* its CVE, or its CVE has left the feeds.                                 *)
(***************************************************************************)
CveMoves(d, e) ==
    \A r \in d["summary_table"].rows :
        \/ r \in e["summary_table"].rows
        \/ r.id \notin Ids(e["summary_table"])
        \/ r.id \notin Ids(e["cve_table"])

-----------------------------------------------------------------------------
ImportStates == {"create_cve", "insert_cve", "create_summaries", "insert_summaries"}

CpeStates == {"cpe", "drop_cpe", "create_cpe", "insert_cpe", "cve"}

FeedStates == {"temp_feeds", "fill_feeds", "update_feeds"}

SummaryStates == {"temp_sum", "fill_sum", "need_summaries", "update_summaries"}

LateStates == {"drop_sum", "drop_feeds", "done", "failed"}

JobStates == {"idle"} \cup ImportStates \cup CpeStates \cup FeedStates
                \cup SummaryStates \cup LateStates

Feeds == SUBSET [id : Cves, entry : Entries]

Jobs == [pc : JobStates, update : BOOLEAN, target : Targets \cup {"both"},
         years : StartYears \cup {{}}, feed : Feeds, clean : BOOLEAN, before : SUBSET Nat]

JobInv ==
    /\ nvd \in [Cves -> Entries]
    /\ modified \subseteq Cves
    /\ \A f \in files : f.feed \in Feeds
    /\ job \in Jobs
    /\ open \in BOOLEAN

\* The feeds of the temporary table that belong to a year of the database are
\* in the database.
FeedsTaken(d) ==
    \A r \in d["temp_feeds"].rows :
        r.year \in Years(d["cve_table"]) => r.id \in Ids(d["cve_table"])

CveTablesInv ==
    /\ SoundDb(db) /\ SoundDb(work)
    /\ ~open => work = db
    /\ job.pc = "idle" => ~open
    /\ job.pc \notin LateStates => Later(db, work)
    /\ job.pc \in SummaryStates => FeedsTaken(work)

-----------------------------------------------------------------------------
IsLookup ==
    lookup = [pc |-> lookup.pc, reading |-> lookup.reading, todo |-> lookup.todo,
              products |-> lookup.products, hits |-> lookup.hits,
              summaryHits |-> lookup.summaryHits, results |-> lookup.results,
              tagged |-> lookup.tagged, unlinked |-> lookup.unlinked, old |-> lookup.old]

IdsOf(rows) == {r.id : r \in rows}

\* What a lookup may miss.
Excused == seen.moved \cup seen.locked

FeedHits(p) == search_cve(View["cve_table"].rows, p)

SummaryHits(p) == search_cve_summary(View["summary_table"].rows, p)

LookupInv ==
    /\ IsLookup
    /\ lookup.reading \in BOOLEAN
    /\ lookup.reading <=> lookup.pc \in {"cpe", "cve", "summary"}
    /\ lookup.pc \in {"matched", "cve", "searched"} =>
           /\ seen.always \subseteq Listed(View, TheProduct)
           /\ Listed(View, TheProduct) \subseteq seen.ever
    /\ lookup.pc \in {"cve", "searched"} =>
           /\ seen.always \ Excused \subseteq
                  IdsOf(lookup.hits) \cup IdsOf(SummaryHits(TheProduct))
           /\ IdsOf(lookup.hits) \subseteq seen.ever
    /\ lookup.pc = "summary" =>
           /\ seen.always \ Excused \subseteq IdsOf(lookup.hits) \cup IdsOf(lookup.summaryHits)
           /\ IdsOf(lookup.hits) \cup IdsOf(lookup.summaryHits) \subseteq seen.ever
    /\ LookupMissesOnlyMoved

-----------------------------------------------------------------------------
UniqueFeed(feed) == \A f, g \in feed : f.id = g.id => f = g

RowsOf(d, t, c) == {r \in d[t].rows : r.id = c}

FeedsAgree(d) ==
    \A f \in job.feed :
        YearOf[f.id] \in job.before /\ NewRows({f}) # {} =>
            RowsOf(d, "cve_table", f.id) = NewRows({f})

AgreesWithFeed(d) ==
    \A f \in job.feed : YearOf[f.id] \in job.before =>
        LET feeds == NewRows({f})
            summaries == setup_cve_summary_table({f})
        IN  /\ feeds # {} => /\ RowsOf(d, "cve_table", f.id) = feeds
                             /\ Summaries # {} => RowsOf(d, "summary_table", f.id) = {}
            /\ summaries # {} => /\ RowsOf(d, "summary_table", f.id) = summaries
                                 /\ RowsOf(d, "cve_table", f.id) = {}

Filled(d, t, rows) == d[t].exists /\ d[t].rows = rows

\* A run that nothing has disturbed, about to go on at l with the tables d.
Progress(l, d) ==
    /\ l \in CpeStates \cup FeedStates \cup SummaryStates =>
           Years(d["cve_table"]) = job.before
    /\ l \in CpeStates =>
           ~d["temp_feeds"].exists /\ ~d["temp_sum"].exists /\ files = {}
    /\ l = "insert_cpe" => d["cpe_table"].exists
    /\ l \in FeedStates \cup SummaryStates => UniqueFeed(job.feed) /\ d["cve_table"].exists
    /\ l \in FeedStates \cup {"temp_sum"} => ~d["temp_sum"].exists
    /\ l = "temp_feeds" => ~d["temp_feeds"].exists
    /\ l = "fill_feeds" => Filled(d, "temp_feeds", {})
    /\ l \in {"update_feeds"} \cup SummaryStates =>
           Filled(d, "temp_feeds", NewRows(job.feed))
    /\ l \in SummaryStates => FeedsAgree(d)
    /\ l = "fill_sum" => Filled(d, "temp_sum", {})
    /\ l \in {"need_summaries", "update_summaries"} => Filled(d, "temp_sum", Summaries)
    /\ l = "update_summaries" => d["summary_table"].exists
    /\ l \in {"drop_sum", "drop_feeds"} => AgreesWithFeed(d)
    /\ l = "done" /\ cve_was_chosen(job.target) => AgreesWithFeed(d)

Clean == job.clean /\ job.update /\ job.pc # "idle"

CleanInv ==
    /\ job.pc \in ImportStates => ~job.update
    /\ Clean => ~open /\ Progress(job.pc, work)


(***************************************************************************)
(* What a step that does not remove the file keeps: no CVE is forgotten,   *)
(* and nothing changes under a query.                                      *)
(***************************************************************************)
KeepsData ==
    /\ StillKnown(db, db')
    /\ CveMoves(db, db')
    /\ Reading => db' = db

-----------------------------------------------------------------------------
(* The statements                                                          *)

LEMMA AnyRows ==
    ASSUME NEW rows, NEW d \in DbOf(rows)
    PROVE  IsDb(d)
<1>1. \A t \in Tables : d[t].rows \subseteq AllRows(d)
  BY DEF AllRows
<1> QED
  BY <1>1 DEF IsDb, DbOf

LEMMA CreateEffect ==
    ASSUME NEW d, SoundDb(d), NEW t \in Tables
    PROVE  LET e == create(d, t)
           IN  /\ SoundDb(e)
               /\ e[t].exists /\ e[t].rows = d[t].rows
               /\ \A u \in Tables \ {t} : e[u] = d[u]
<1> DEFINE all == AllRows(d)
           e == create(d, t)
<1>1. d \in DbOf(all)
  BY DEF SoundDb, IsDb
<1> HIDE DEF all
<1>2. /\ e \in DbOf(all)
      /\ e[t].exists /\ e[t].rows = d[t].rows
      /\ \A u \in Tables \ {t} : e[u] = d[u]
  BY <1>1 DEF create, DbOf
<1> HIDE DEF e
<1>3. IsDb(e)
  BY <1>2, AnyRows
<1> QED
  BY <1>2, <1>3 DEF SoundDb, CveTables, e

LEMMA DropEffect ==
    ASSUME NEW d, SoundDb(d), NEW t \in Tables
    PROVE  LET e == drop_table(d, t)
           IN  /\ SoundDb(e)
               /\ ~e[t].exists
               /\ \A u \in Tables \ {t} : e[u] = d[u]
<1> DEFINE all == AllRows(d)
           e == drop_table(d, t)
<1>1. d \in DbOf(all)
  BY DEF SoundDb, IsDb
<1> HIDE DEF all
<1>2. /\ e \in DbOf(all)
      /\ ~e[t].exists /\ e[t].rows = {}
      /\ \A u \in Tables \ {t} : e[u] = d[u]
  BY <1>1 DEF drop_table, NoTable, DbOf
<1> HIDE DEF e
<1>3. IsDb(e)
  BY <1>2, AnyRows
<1> QED
  BY <1>2, <1>3 DEF SoundDb, SoundRows, CveTables, e

LEMMA InsertEffect ==
    ASSUME NEW d, SoundDb(d), NEW t \in Tables, NEW rows, t \in CveTables => SoundRows(Fitting(rows))
    PROVE  LET e == insert_into(d, t, rows)
           IN  /\ SoundDb(e)
               /\ e[t].exists = d[t].exists
               /\ d[t].exists => e[t].rows = d[t].rows \cup Fitting(rows)
               /\ ~d[t].exists => e = d
               /\ \A u \in Tables \ {t} : e[u] = d[u]
<1> DEFINE new == Fitting(rows)
           all == AllRows(d) \cup new
           e == [d EXCEPT ![t].rows = @ \cup new]
<1>1. CASE ~d[t].exists
  BY <1>1 DEF insert_into
<1>2. CASE d[t].exists
  <2>1. d \in DbOf(all)
    BY DEF SoundDb, IsDb, DbOf
  <2>4. insert_into(d, t, rows) = e
    BY <1>2 DEF insert_into
  <2> HIDE DEF all, new
  <2>2. /\ \A u \in Tables : d[u].rows \cup new \subseteq all
        /\ \A u \in Tables : d[u] \in [exists : BOOLEAN, rows : SUBSET all]
    BY <2>1 DEF all, AllRows, DbOf
  <2>3. /\ e \in DbOf(all)
        /\ e[t].exists = d[t].exists /\ e[t].rows = d[t].rows \cup new
        /\ \A u \in Tables \ {t} : e[u] = d[u]
    BY <2>1, <2>2 DEF DbOf
  <2> HIDE DEF e
  <2>5. IsDb(e)
    BY <2>3, AnyRows
  <2>6. t \in CveTables => SoundRows(e[t].rows)
    BY <2>3 DEF SoundDb, SoundRows, new
  <2> QED
    BY <1>2, <2>3, <2>4, <2>5, <2>6 DEF SoundDb, CveTables, new
<1> QED
  BY <1>1, <1>2

LEMMA DeleteEffect ==
    ASSUME NEW d, SoundDb(d), NEW from \in Tables, NEW selection \in Tables
    PROVE  LET e == delete_outdated_feeds(d, from, selection)
           IN  /\ SoundDb(e)
               /\ e[from].exists = d[from].exists
               /\ e[from].rows = Without(d[from].rows, Ids(d[selection]))
               /\ \A u \in Tables \ {from} : e[u] = d[u]
<1> DEFINE all == AllRows(d)
           left == {r \in d[from].rows : r.id \notin Ids(d[selection])}
           e == [d EXCEPT ![from].rows = {r \in @ : r.id \notin Ids(d[selection])}]
<1>1. CASE ~(d[from].exists /\ d[selection].exists)
  <2>1. d[from].rows = {} \/ Ids(d[selection]) = {}
    BY <1>1 DEF SoundDb, Ids
  <2>2. left = d[from].rows
    BY <2>1
  <2> QED
    BY <1>1, <2>2 DEF delete_outdated_feeds, Without
<1>2. CASE d[from].exists /\ d[selection].exists
  <2>1. d \in DbOf(all)
    BY DEF SoundDb, IsDb
  <2> HIDE DEF all
  <2>2. e = [d EXCEPT ![from].rows = left]
    OBVIOUS
  <2>3. left \subseteq all
    BY <2>1 DEF DbOf
  <2>4. delete_outdated_feeds(d, from, selection) = e
    BY <1>2 DEF delete_outdated_feeds
  <2>5. \A r \in left : r \in d[from].rows
    OBVIOUS
  <2> HIDE DEF left, e
  <2>6. /\ e \in DbOf(all)
        /\ e[from].exists = d[from].exists /\ e[from].rows = left
        /\ \A u \in Tables \ {from} : e[u] = d[u]
    BY <2>1, <2>2, <2>3 DEF DbOf
  <2>7. IsDb(e)
    BY <2>6, AnyRows
  <2>8. from \in CveTables => SoundRows(e[from].rows)
    BY <2>5, <2>6 DEF SoundDb, SoundRows
  <2>9. ~e[from].exists => e[from].rows = {}
    BY <1>2, <2>6
  <2>10. SoundDb(e)
    BY <2>6, <2>7, <2>8, <2>9 DEF SoundDb, CveTables
  <2> QED
    BY <2>4, <2>6, <2>10 DEF left, Without
<1> QED
  BY <1>1, <1>2

LEMMA SoundFitting == ASSUME NEW rows, SoundRows(rows) PROVE Fitting(rows) = rows
  BY DEF SoundRows, Fitting

LEMMA ExtractEffect ==
    ASSUME NEW d, SoundDb(d), NEW from \in CveTables, NEW where \in CveTables
    PROVE  LET new == OfYears(d[from].rows, Years(d[where]))
           IN  extract_relevant_feeds(d, from, where) = new /\ SoundRows(new) /\ Fitting(new) = new
<1>1. from \in Tables /\ where \in Tables
  BY DEF CveTables
<1>2. ~(d[from].exists /\ d[where].exists) => d[from].rows = {} \/ Years(d[where]) = {}
  BY <1>1 DEF SoundDb, Years
<1> QED
  BY <1>2 DEF extract_relevant_feeds, OfYears, SoundDb, SoundRows, Fitting

(***************************************************************************)
(* The rows made of a feed.                                                *)
(***************************************************************************)
LEMMA FeedRows ==
    ASSUME NEW feed \in Feeds
    PROVE  /\ SoundRows(NewRows(feed))
           /\ SoundRows(setup_cve_summary_table(feed))
           /\ \A r \in NewRows(feed) : \E f \in feed :
                  r.id = f.id /\ r \in NewRows({f})
           /\ \A f \in feed : NewRows({f}) \subseteq NewRows(feed)
           /\ \A f \in feed : \A r \in NewRows({f}) : r.id = f.id
           /\ \A r \in setup_cve_summary_table(feed) : \E f \in feed :
                  r.id = f.id /\ r \in setup_cve_summary_table({f})
           /\ \A f \in feed : setup_cve_summary_table({f}) \subseteq setup_cve_summary_table(feed)
           /\ \A f \in feed : \A r \in setup_cve_summary_table({f}) : r.id = f.id
           /\ \A f \in feed : NewRows({f}) = {} \/ setup_cve_summary_table({f}) = {}
<1> DEFINE RowFor(f, r) ==
               [whole |-> r.whole, id |-> f.id, year |-> YearOf[f.id], score |-> f.entry.score,
                vendor |-> r.vendor, product |-> r.product, version |-> r.version,
                startIncluding |-> r.startIncluding, startExcluding |-> r.startExcluding,
                endIncluding |-> r.endIncluding, endExcluding |-> r.endExcluding]
           RowsFor(f) == {RowFor(f, r) : r \in extract_cpe_data_from_cve(f.entry.nodes)}
           FeedRowsOf(f) == {s \in RowsFor(f) : s.whole}
           SummaryOf(f) == [whole |-> TRUE, id |-> f.id, year |-> YearOf[f.id],
                            summary |-> f.entry.summary, score |-> f.entry.score]
<1>1. \A f, r : RowFor(f, r).id = f.id /\ RowFor(f, r).year = YearOf[f.id]
  OBVIOUS
<1>2. \A f : SummaryOf(f).id = f.id /\ SummaryOf(f).year = YearOf[f.id] /\ SummaryOf(f).whole
  OBVIOUS
<1>3. \A f \in feed : f.id \in Cves
  BY DEF Feeds
<1>18. \A g : setup_cve_feeds_table(g) =
                 UNION {RowsFor(f) : f \in {f \in g : f.entry.nodes # {}}}
  BY DEF setup_cve_feeds_table, extract_data_from_cve
<1>5. \A g : setup_cve_summary_table(g) =
                {SummaryOf(f) : f \in {f \in g : f.entry.nodes = {} /\ ~f.entry.rejected}}
  BY DEF setup_cve_summary_table, extract_data_from_cve
<1> HIDE DEF RowFor, SummaryOf
<1>6. \A f : \A r \in FeedRowsOf(f) : r.id = f.id /\ r.year = YearOf[f.id] /\ r.whole
  BY <1>1
<1> HIDE DEF RowsFor
<1>4. \A g : NewRows(g) = UNION {FeedRowsOf(f) : f \in {f \in g : f.entry.nodes # {}}}
  BY <1>18 DEF NewRows, Fitting
<1>7. \A f : NewRows({f}) = IF f.entry.nodes # {} THEN FeedRowsOf(f) ELSE {}
  BY <1>4
<1>8. \A f : setup_cve_summary_table({f}) =
                 IF f.entry.nodes = {} /\ ~f.entry.rejected THEN {SummaryOf(f)} ELSE {}
  BY <1>5
<1> HIDE DEF FeedRowsOf
<1>9. SoundRows(NewRows(feed))
  BY <1>3, <1>4, <1>6 DEF SoundRows
<1>10. SoundRows(setup_cve_summary_table(feed))
  BY <1>2, <1>3, <1>5 DEF SoundRows
<1>11. \A r \in NewRows(feed) : \E f \in feed :
                  r.id = f.id /\ r \in NewRows({f})
  <2> SUFFICES ASSUME NEW r \in NewRows(feed)
               PROVE  \E f \in feed : r.id = f.id /\ r \in NewRows({f})
    OBVIOUS
  <2>1. PICK f \in feed : f.entry.nodes # {} /\ r \in FeedRowsOf(f)
    BY <1>4
  <2> QED
    BY <2>1, <1>6, <1>7
<1>12. \A f \in feed : NewRows({f}) \subseteq NewRows(feed)
  BY <1>4, <1>7
<1>13. \A f \in feed : \A r \in NewRows({f}) : r.id = f.id
  BY <1>6, <1>7
<1>14. \A r \in setup_cve_summary_table(feed) : \E f \in feed :
                  r.id = f.id /\ r \in setup_cve_summary_table({f})
  BY <1>2, <1>5, <1>8
<1>15. \A f \in feed : setup_cve_summary_table({f}) \subseteq setup_cve_summary_table(feed)
  BY <1>5, <1>8
<1>16. \A f \in feed : \A r \in setup_cve_summary_table({f}) : r.id = f.id
  BY <1>2, <1>8
<1>17. \A f \in feed : NewRows({f}) = {} \/ setup_cve_summary_table({f}) = {}
  BY <1>7, <1>8
<1> QED
  BY <1>9, <1>10, <1>11, <1>12, <1>13, <1>14, <1>15, <1>16, <1>17

-----------------------------------------------------------------------------
(* What the statements take away                                           *)

LEMMA LaterTrans ==
    ASSUME NEW d, NEW e, NEW f, Later(d, e), Later(e, f)
    PROVE  Later(d, f)
  BY DEF Later, StillKnown

LEMMA LaterSame ==
    ASSUME NEW d, NEW e,
           d["summary_table"].rows \subseteq e["summary_table"].rows,
           d["cve_table"].rows \subseteq e["cve_table"].rows
    PROVE  Later(d, e)
  BY DEF Later, StillKnown, Known, Ids, Years

LEMMA CreateLater ==
    ASSUME NEW d, SoundDb(d), NEW t \in Tables
    PROVE  Later(d, create(d, t))
<1>1. \A u \in Tables : create(d, t)[u].rows = d[u].rows
  BY CreateEffect
<1> QED
  BY <1>1, LaterSame DEF Tables

LEMMA InsertLater ==
    ASSUME NEW d, SoundDb(d), NEW t \in Tables, NEW rows, t \in CveTables => SoundRows(Fitting(rows))
    PROVE  Later(d, insert_into(d, t, rows))
<1> DEFINE e == insert_into(d, t, rows)
<1>1. /\ d[t].exists => e[t].rows = d[t].rows \cup Fitting(rows)
      /\ ~d[t].exists => e = d
      /\ \A u \in Tables \ {t} : e[u] = d[u]
  BY InsertEffect
<1> HIDE DEF e
<1>2. \A u \in Tables : d[u].rows \subseteq e[u].rows
  BY <1>1
<1> QED
  BY <1>2, LaterSame DEF Tables, e

LEMMA DropLater ==
    ASSUME NEW d, SoundDb(d), NEW t \in {"cpe_table", "temp_feeds", "temp_sum"}
    PROVE  Later(d, drop_table(d, t))
<1>1. \A u \in Tables \ {t} : drop_table(d, t)[u] = d[u]
  BY DropEffect DEF Tables
<1> QED
  BY <1>1, LaterSame DEF Tables

(***************************************************************************)
(* update_cve_feeds replaces the rows of the CVEs in the temporary table.  *)
(* As the year of a row is that of its CVE, no year goes away.             *)
(***************************************************************************)
LEMMA UpdateFeedsEffect ==
    ASSUME NEW d, SoundDb(d)
    PROVE  LET e == update_cve_feeds(d)
               new == OfYears(d["temp_feeds"].rows, Years(d["cve_table"]))
           IN  /\ SoundDb(e)
               /\ e["cve_table"].exists = d["cve_table"].exists
               /\ e["cve_table"].rows =
                      Without(d["cve_table"].rows, Ids(d["temp_feeds"])) \cup new
               /\ \A u \in Tables \ {"cve_table"} : e[u] = d[u]
               /\ Years(e["cve_table"]) = Years(d["cve_table"])
               /\ Later(d, e)
               /\ FeedsTaken(e)
<1> DEFINE e == update_cve_feeds(d)
           new == OfYears(d["temp_feeds"].rows, Years(d["cve_table"]))
           d1 == delete_outdated_feeds(d, "cve_table", "temp_feeds")
           left == Without(d["cve_table"].rows, Ids(d["temp_feeds"]))
<1>1. /\ "cve_table" \in Tables /\ "temp_feeds" \in Tables
      /\ "summary_table" \in Tables
      /\ "cve_table" \in CveTables /\ "temp_feeds" \in CveTables
  BY DEF Tables, CveTables
<1>2. /\ SoundDb(d1)
      /\ d1["cve_table"].exists = d["cve_table"].exists
      /\ d1["cve_table"].rows = left
      /\ \A u \in Tables \ {"cve_table"} : d1[u] = d[u]
  BY <1>1, DeleteEffect
<1>3. /\ extract_relevant_feeds(d, "temp_feeds", "cve_table") = new
      /\ SoundRows(new) /\ Fitting(new) = new
  BY <1>1, ExtractEffect
<1> HIDE DEF new
<1>4. e = insert_into(d1, "cve_table", new)
  BY <1>3 DEF update_cve_feeds
<1> HIDE DEF e, d1
<1>5. /\ SoundDb(e)
      /\ e["cve_table"].exists = d1["cve_table"].exists
      /\ d1["cve_table"].exists => e["cve_table"].rows = d1["cve_table"].rows \cup new
      /\ ~d1["cve_table"].exists => e = d1
      /\ \A u \in Tables \ {"cve_table"} : e[u] = d1[u]
  <2>1. "cve_table" \in Tables /\ SoundDb(d1) /\ SoundRows(Fitting(new)) /\ Fitting(new) = new
    BY <1>1, <1>2, <1>3
  <2> QED
    BY <2>1, <1>4, InsertEffect
<1>6. ~d["cve_table"].exists => d["cve_table"].rows = {}
  BY <1>1 DEF SoundDb
<1>7. e["cve_table"].rows = left \cup new
  BY <1>2, <1>5, <1>6 DEF Years, OfYears, Without, new
<1>8. /\ \A r \in d["cve_table"].rows : r.year = YearOf[r.id]
      /\ \A r \in d["temp_feeds"].rows : r.year = YearOf[r.id]
  BY <1>1 DEF SoundDb, SoundRows
<1>9. \A r \in d["cve_table"].rows : \E s \in left \cup new : s.id = r.id /\ s.year = r.year
  <2> SUFFICES ASSUME NEW r \in d["cve_table"].rows, r \notin left
               PROVE  \E s \in new : s.id = r.id /\ s.year = r.year
    OBVIOUS
  <2>1. PICK s \in d["temp_feeds"].rows : s.id = r.id
    BY DEF Ids, Without
  <2>2. s.year = r.year /\ r.year \in Years(d["cve_table"])
    BY <2>1, <1>8 DEF Years
  <2> QED
    BY <2>1, <2>2 DEF OfYears, new
<1>10. Years(e["cve_table"]) = Years(d["cve_table"])
  BY <1>7, <1>9 DEF Years, Without, OfYears, new
<1>11. Ids(d["cve_table"]) \subseteq Ids(e["cve_table"])
  BY <1>7, <1>9 DEF Ids
<1>12. e["summary_table"] = d["summary_table"] /\ e["temp_feeds"] = d["temp_feeds"]
  BY <1>1, <1>2, <1>5
<1>13. Later(d, e)
  BY <1>10, <1>11, <1>12 DEF Later, StillKnown, Known
<1>14. FeedsTaken(e)
  BY <1>7, <1>10, <1>12 DEF FeedsTaken, Ids, OfYears, new
<1> QED
  BY <1>2, <1>5, <1>7, <1>10, <1>13, <1>14 DEF e, new

(***************************************************************************)
(* update_cve_summaries takes summaries away of CVEs that are in one of    *)
(* the temporary tables: in that of the feeds, then the feeds have it; or  *)
(* in that of the summaries, then the feeds lose it for a new summary.     *)
(***************************************************************************)
LEMMA UpdateSummariesEffect ==
    ASSUME NEW d, SoundDb(d)
    PROVE  LET e == update_cve_summaries(d)
               new == OfYears(d["temp_sum"].rows, Years(d["cve_table"]))
               left == Without(d["summary_table"].rows, Ids(d["temp_sum"]) \cup Ids(d["temp_feeds"]))
           IN  /\ SoundDb(e)
               /\ e["summary_table"].rows =
                      IF d["summary_table"].exists THEN left \cup new ELSE {}
               /\ e["cve_table"].rows =
                      Without(d["cve_table"].rows, Ids(d["temp_sum"]))
               /\ \A u \in Tables \ {"cve_table", "summary_table"} : e[u] = d[u]
<1> DEFINE e == update_cve_summaries(d)
           new == OfYears(d["temp_sum"].rows, Years(d["cve_table"]))
           d1 == delete_outdated_feeds(d, "summary_table", "temp_sum")
           d2 == delete_outdated_feeds(d1, "summary_table", "temp_feeds")
           d3 == delete_outdated_feeds(d2, "cve_table", "temp_sum")
<1>1. /\ "cve_table" \in Tables /\ "temp_feeds" \in Tables
      /\ "summary_table" \in Tables /\ "temp_sum" \in Tables
      /\ "cve_table" \in CveTables /\ "temp_sum" \in CveTables
  BY DEF Tables, CveTables
<1>2. /\ SoundDb(d1)
      /\ d1["summary_table"].exists = d["summary_table"].exists
      /\ d1["summary_table"].rows =
             Without(d["summary_table"].rows, Ids(d["temp_sum"]))
      /\ \A u \in Tables \ {"summary_table"} : d1[u] = d[u]
  BY <1>1, DeleteEffect
<1>3. extract_relevant_feeds(d, "temp_sum", "cve_table") = new /\ SoundRows(new) /\ Fitting(new) = new
  BY <1>1, ExtractEffect
<1> HIDE DEF new
<1>4. e = insert_into(d3, "summary_table", new)
  BY <1>3 DEF update_cve_summaries, DeleteSummaries
<1> HIDE DEF e, d1
<1>5. /\ SoundDb(d2)
      /\ d2["summary_table"].exists = d1["summary_table"].exists
      /\ d2["summary_table"].rows =
             Without(d1["summary_table"].rows, Ids(d1["temp_feeds"]))
      /\ \A u \in Tables \ {"summary_table"} : d2[u] = d1[u]
  BY <1>1, <1>2, DeleteEffect
<1> HIDE DEF d2
<1>6. /\ SoundDb(d3)
      /\ d3["cve_table"].rows =
             Without(d2["cve_table"].rows, Ids(d2["temp_sum"]))
      /\ \A u \in Tables \ {"cve_table"} : d3[u] = d2[u]
  BY <1>1, <1>5, DeleteEffect
<1> HIDE DEF d3
<1>7. /\ SoundDb(e)
      /\ d3["summary_table"].exists =>
             e["summary_table"].rows = d3["summary_table"].rows \cup new
      /\ ~d3["summary_table"].exists => e = d3
      /\ \A u \in Tables \ {"summary_table"} : e[u] = d3[u]
  <2>1. "summary_table" \in Tables /\ SoundDb(d3) /\ SoundRows(Fitting(new)) /\ Fitting(new) = new
    BY <1>1, <1>3, <1>6
  <2> QED
    BY <2>1, <1>4, InsertEffect
<1>8. \A u \in Tables \ {"summary_table", "cve_table"} : e[u] = d[u]
  BY <1>2, <1>5, <1>6, <1>7
<1>9. e["cve_table"].rows = Without(d["cve_table"].rows, Ids(d["temp_sum"]))
  BY <1>1, <1>2, <1>5, <1>6, <1>7
<1>10. d3["summary_table"].rows = Without(d["summary_table"].rows, Ids(d["temp_sum"]) \cup Ids(d["temp_feeds"]))
  BY <1>1, <1>2, <1>5, <1>6 DEF Without
<1>11. /\ d3["summary_table"].exists = d["summary_table"].exists
       /\ ~d["summary_table"].exists => d["summary_table"].rows = {}
  BY <1>1, <1>2, <1>5, <1>6 DEF SoundDb
<1> QED
  BY <1>7, <1>8, <1>9, <1>10, <1>11 DEF e, Without, new

LEMMA UpdateSummariesKeeps ==
    ASSUME NEW b, NEW d, SoundDb(d), Later(b, d), FeedsTaken(d), d["summary_table"].exists
    PROVE  StillKnown(b, update_cve_summaries(d)) /\ CveMoves(b, update_cve_summaries(d))
<1> DEFINE e == update_cve_summaries(d)
           new == OfYears(d["temp_sum"].rows, Years(d["cve_table"]))
           left == Without(d["summary_table"].rows, Ids(d["temp_sum"]) \cup Ids(d["temp_feeds"]))
<1>1. /\ e["summary_table"].rows = left \cup new
      /\ e["cve_table"].rows = Without(d["cve_table"].rows, Ids(d["temp_sum"]))
  BY UpdateSummariesEffect
<1> HIDE DEF e
<1>2. /\ \A r \in d["temp_sum"].rows : r.year = YearOf[r.id]
      /\ \A r \in d["temp_feeds"].rows : r.year = YearOf[r.id]
  BY DEF SoundDb, SoundRows, CveTables, Tables
<1>3. StillKnown(b, e)
  <2> SUFFICES ASSUME NEW c \in Known(b), YearOf[c] \in Years(b["cve_table"])
               PROVE  c \in Known(e)
    BY DEF StillKnown
  <2>1. c \in Known(d) /\ YearOf[c] \in Years(d["cve_table"])
    BY DEF Later, StillKnown
  <2>2. CASE c \in Ids(d["temp_sum"])
    <3>1. PICK r \in d["temp_sum"].rows : r.id = c
      BY <2>2 DEF Ids
    <3>2. r \in new
      BY <3>1, <2>1, <1>2 DEF OfYears
    <3> QED
      BY <3>1, <3>2, <1>1 DEF Known, Ids
  <2>3. CASE c \notin Ids(d["temp_sum"]) /\ c \in Ids(d["cve_table"])
    BY <2>3, <1>1 DEF Known, Ids, Without
  <2>4. CASE c \notin Ids(d["temp_sum"]) /\ c \in Ids(d["temp_feeds"])
    <3>1. PICK r \in d["temp_feeds"].rows : r.id = c
      BY <2>4 DEF Ids
    <3>2. c \in Ids(d["cve_table"])
      BY <3>1, <2>1, <1>2 DEF FeedsTaken
    <3> QED
      BY <3>2, <2>3, <2>4
  <2>5. CASE c \notin Ids(d["temp_sum"]) \cup Ids(d["temp_feeds"]) /\ c \in Ids(d["summary_table"])
    BY <2>5, <1>1 DEF Known, Ids, Without
  <2> QED
    BY <2>1, <2>2, <2>3, <2>4, <2>5 DEF Known
<1>4. CveMoves(b, e)
  <2> SUFFICES ASSUME NEW r \in b["summary_table"].rows, r \notin e["summary_table"].rows,
                      r.id \in Ids(e["summary_table"])
               PROVE  r.id \notin Ids(e["cve_table"])
    BY DEF CveMoves
  <2>1. r \in d["summary_table"].rows
    BY DEF Later
  <2>2. r.id \in Ids(d["temp_sum"]) \cup Ids(d["temp_feeds"])
    BY <2>1, <1>1 DEF Without
  <2>3. r.id \in Ids(d["temp_sum"])
    BY <2>2, <1>1 DEF Ids, Without, OfYears
  <2> QED
    BY <2>3, <1>1 DEF Ids, Without
<1> QED
  BY <1>3, <1>4 DEF e

LEMMA LaterMoves ==
    ASSUME NEW d, NEW e, Later(d, e)
    PROVE  StillKnown(d, e) /\ CveMoves(d, e)
  BY DEF Later, CveMoves

-----------------------------------------------------------------------------
(* The run of setup_repository.py                                          *)

LEMMA ProceedEffect ==
    ASSUME JobInv, NEW l \in JobStates, Proceed(l)
    PROVE  /\ job' \in Jobs /\ job'.pc = l
           /\ job'.clean = (job.clean /\ ~Reading)
           /\ job'.update = job.update /\ job'.target = job.target
           /\ job'.years = job.years /\ job'.feed = job.feed /\ job'.before = job.before
<1>1. job \in Jobs /\ (job.clean /\ ~Reading) \in BOOLEAN
  BY DEF JobInv
<1> QED
  BY <1>1 DEF Proceed, Jobs

LEMMA StatesDisjoint ==
    /\ "idle" \in JobStates
    /\ ImportStates \cup CpeStates \cup FeedStates \cup SummaryStates \cup LateStates \subseteq JobStates
    /\ "idle" \notin ImportStates \cup CpeStates \cup FeedStates \cup SummaryStates \cup LateStates
    /\ (ImportStates \cup CpeStates \cup FeedStates \cup SummaryStates) \cap LateStates = {}
    /\ (ImportStates \cup CpeStates \cup FeedStates) \cap SummaryStates = {}
  BY DEF JobStates, ImportStates, CpeStates, FeedStates, SummaryStates, LateStates

LEMMA SameTables ==
    ASSUME NEW d, NEW e, d["temp_feeds"] = e["temp_feeds"],
           d["cve_table"].rows = e["cve_table"].rows, FeedsTaken(d)
    PROVE  FeedsTaken(e)
  BY DEF FeedsTaken, Ids, Years

LEMMA LaterSelf == ASSUME NEW d PROVE Later(d, d) /\ StillKnown(d, d) /\ CveMoves(d, d)
  BY DEF Later, StillKnown, CveMoves

(***************************************************************************)
(* CREATE and DROP.                                                        *)
(***************************************************************************)
LEMMA DdlAction ==
    ASSUME JobInv, CveTablesInv,
           NEW e, SoundDb(e), Later(work, e), ExecuteDdl(e),
           NEW l \in JobStates \ {"idle"}, Proceed(l), UNCHANGED <<nvd, modified, files>>,
           l \notin LateStates => job.pc \notin LateStates,
           l \in SummaryStates => FeedsTaken(work) /\ FeedsTaken(e)
    PROVE  JobInv' /\ CveTablesInv' /\ KeepsData
<1>1. job' \in Jobs /\ job'.pc = l
  BY ProceedEffect
<1>2. /\ SoundDb(db) /\ SoundDb(work)
      /\ ~open => work = db
      /\ job.pc \notin LateStates => Later(db, work)
  BY DEF CveTablesInv
<1>3. CASE ~open /\ ~Reading /\ db' = e /\ work' = e /\ open' = open
  <2>1. Later(db, e)
    BY <1>2, <1>3
  <2>2. KeepsData
    BY <2>1, <1>3, LaterMoves DEF KeepsData
  <2>3. CveTablesInv'
    BY <1>1, <1>3, LaterSelf DEF CveTablesInv
  <2> QED
    BY <1>1, <1>3, <2>2, <2>3 DEF JobInv
<1>4. CASE ~open /\ UNCHANGED dbVars
  <2>1. CveTablesInv'
    BY <1>1, <1>2, <1>4 DEF CveTablesInv, dbVars
  <2> QED
    BY <1>1, <1>4, <2>1, LaterSelf DEF JobInv, KeepsData, dbVars
<1>5. CASE open /\ work' = e /\ UNCHANGED <<db, open>>
  <2>1. l \notin LateStates => Later(db, e)
    BY <1>2, LaterTrans
  <2>2. CveTablesInv'
    BY <1>1, <1>2, <1>5, <2>1 DEF CveTablesInv
  <2> QED
    BY <1>1, <1>5, <2>2, LaterSelf DEF JobInv, KeepsData
<1> QED
  BY <1>3, <1>4, <1>5 DEF ExecuteDdl

(***************************************************************************)
(* Statements and their commit.                                            *)
(***************************************************************************)
LEMMA CommitAction ==
    ASSUME JobInv, CveTablesInv,
           NEW e, SoundDb(e), StillKnown(db, e), CveMoves(db, e), ExecuteAndCommit(e),
           NEW l \in JobStates \ {"idle"}, Proceed(l), UNCHANGED <<nvd, modified, files>>,
           l \notin LateStates => Later(db, e),
           l \in SummaryStates => FeedsTaken(e)
    PROVE  JobInv' /\ CveTablesInv' /\ KeepsData
<1>1. job' \in Jobs /\ job'.pc = l
  BY ProceedEffect
<1>2. SoundDb(db)
  BY DEF CveTablesInv
<1>3. CASE ~Reading /\ db' = e /\ work' = e /\ open' = FALSE
  <2>1. CveTablesInv'
    BY <1>1, <1>3, LaterSelf DEF CveTablesInv
  <2> QED
    BY <1>1, <1>3, <2>1 DEF JobInv, KeepsData
<1>4. CASE Reading /\ work' = e /\ open' = TRUE /\ UNCHANGED db
  <2>1. CveTablesInv'
    BY <1>1, <1>2, <1>4 DEF CveTablesInv
  <2> QED
    BY <1>1, <1>4, <2>1, LaterSelf DEF JobInv, KeepsData
<1> QED
  BY <1>3, <1>4 DEF ExecuteAndCommit

LEMMA NoCommitAction ==
    ASSUME JobInv, CveTablesInv,
           NEW e, SoundDb(e), ExecuteWithoutCommit(e),
           NEW l \in JobStates \ {"idle"}, Proceed(l), UNCHANGED <<nvd, modified, files>>,
           l \notin LateStates => Later(db, e),
           l \in SummaryStates => FeedsTaken(e)
    PROVE  JobInv' /\ CveTablesInv' /\ KeepsData
<1>1. job' \in Jobs /\ job'.pc = l
  BY ProceedEffect
<1>2. SoundDb(db) /\ (~open => work = db)
  BY DEF CveTablesInv
<1>3. db' = db /\ work' = e /\ open' = (open \/ e # work)
  BY DEF ExecuteWithoutCommit
<1>4. CveTablesInv'
  BY <1>1, <1>2, <1>3 DEF CveTablesInv
<1> QED
  BY <1>1, <1>3, <1>4, LaterSelf DEF JobInv, KeepsData

LEMMA InsertAction ==
    ASSUME JobInv, CveTablesInv,
           NEW t \in Tables, NEW rows, t \in CveTables => SoundRows(Fitting(rows)),
           IF work[t].exists THEN ExecuteAndCommit(insert_into(work, t, rows))
                             ELSE ExecuteWithoutCommit(work),
           NEW l \in JobStates \ {"idle"}, Proceed(l), UNCHANGED <<nvd, modified, files>>,
           job.pc \notin LateStates,
           l \in SummaryStates => t = "temp_sum" /\ FeedsTaken(work)
    PROVE  JobInv' /\ CveTablesInv' /\ KeepsData
<1> DEFINE e == insert_into(work, t, rows)
<1>1. SoundDb(work) /\ Later(db, work)
  BY DEF CveTablesInv
<1>2. SoundDb(e) /\ \A u \in Tables \ {t} : e[u] = work[u]
  BY <1>1, InsertEffect
<1>3. Later(work, e)
  BY <1>1, InsertLater
<1> HIDE DEF e
<1>4. Later(db, e) /\ StillKnown(db, e) /\ CveMoves(db, e)
  BY <1>1, <1>3, LaterTrans, LaterMoves
<1>5. l \in SummaryStates => FeedsTaken(e)
  BY <1>2, SameTables DEF Tables
<1>6. CASE work[t].exists
  BY <1>2, <1>4, <1>5, <1>6, CommitAction DEF e
<1>7. CASE ~work[t].exists
  BY <1>1, <1>7, NoCommitAction
<1> QED
  BY <1>6, <1>7

LEMMA QuietAction ==
    ASSUME JobInv, CveTablesInv, UNCHANGED dbVars, job' \in Jobs,
           job'.pc \notin SummaryStates \cup {"idle"},
           job'.pc \notin LateStates => job.pc \notin LateStates
    PROVE  CveTablesInv' /\ KeepsData
  BY LaterSelf DEF CveTablesInv, KeepsData, dbVars

LEMMA EmptySound == SoundDb(EmptyDb)
<1>1. EmptyDb \in DbOf({})
  BY DEF EmptyDb, NoTable, DbOf
<1>2. IsDb(EmptyDb)
  BY <1>1, AnyRows
<1> QED
  BY <1>2 DEF SoundDb, SoundRows, EmptyDb, NoTable, CveTables

LEMMA FeedOfFeeds ==
    ASSUME nvd \in [Cves -> Entries], NEW cves \in SUBSET Cves
    PROVE  FeedOf(cves) \in Feeds /\ UniqueFeed(FeedOf(cves))
  BY DEF FeedOf, Feeds, UniqueFeed

LEMMA IdleJobType == IdleJob \in Jobs /\ IdleJob.pc = "idle"
  BY DEF IdleJob, Jobs, Feeds, JobStates

LEMMA EndAction ==
    ASSUME JobInv, CveTablesInv, job' = IdleJob, work' = db', open' = FALSE,
           db' = db \/ db' = EmptyDb, UNCHANGED <<nvd, modified>>,
           files' = files \/ files' = {}
    PROVE  JobInv' /\ CveTablesInv' /\ (db' = db => KeepsData)
<1>1. job' \in Jobs /\ job'.pc = "idle"
  BY IdleJobType
<1>2. SoundDb(db')
  BY EmptySound DEF CveTablesInv
<1>3. JobInv'
  BY <1>1 DEF JobInv
<1>4. CveTablesInv'
  BY <1>1, <1>2, LaterSelf, StatesDisjoint DEF CveTablesInv
<1> QED
  BY <1>3, <1>4, LaterSelf DEF KeepsData

LEMMA StartKeeps ==
    ASSUME JobInv, CveTablesInv, NEW refresh \in BOOLEAN, NEW target \in Targets,
           NEW years \in StartYears \cup {{}}, Start(refresh, target, years)
    PROVE  JobInv' /\ CveTablesInv' /\ KeepsData
<1>1. /\ job.pc = "idle" /\ UNCHANGED <<nvd, modified, files>>
      /\ UNCHANGED dbVars
  BY DEF Start, At, dbVars
<1>2. Years(db["cve_table"]) \in SUBSET Nat
  BY CveConstants DEF CveTablesInv, SoundDb, SoundRows, Years, CveTables, Tables
<1>3. job' \in Jobs /\ job'.pc \in {"cve", "cpe"}
  <2> DEFINE pc == CASE ~cpe_was_chosen(target) -> "cve" [] OTHER -> "cpe"
             clean == ~work["temp_feeds"].exists /\ ~work["temp_sum"].exists /\ files = {}
             before == Years(db["cve_table"])
  <2>1. job' = [IdleJob EXCEPT !.pc = pc, !.update = refresh, !.target = target,
                               !.years = years, !.clean = clean, !.before = before]
    BY DEF Start
  <2>2. pc \in {"cve", "cpe"} /\ clean \in BOOLEAN /\ before \in SUBSET Nat
    BY <1>2
  <2> HIDE DEF pc, clean, before
  <2>3. {"cve", "cpe"} \subseteq JobStates
    BY DEF JobStates, CpeStates
  <2> QED
    BY <2>1, <2>2, <2>3, IdleJobType DEF Jobs
<1>4. CveTablesInv' /\ KeepsData
  BY <1>1, <1>3, QuietAction, StatesDisjoint DEF CpeStates
<1> QED
  BY <1>1, <1>3, <1>4 DEF JobInv, dbVars

LEMMA CpeKeeps ==
    ASSUME JobInv, CveTablesInv, CheckCpe \/ DropCpe \/ CreateCpe \/ InsertCpe
    PROVE  JobInv' /\ CveTablesInv' /\ KeepsData
<1>1. /\ SoundDb(work)
      /\ "cpe_table" \in Tables /\ "cpe_table" \notin CveTables
  BY DEF CveTablesInv, Tables, CveTables
<1>2. {"cpe", "cve", "drop_cpe", "create_cpe", "insert_cpe", "failed", "done"}
          \subseteq JobStates \ ({"idle"} \cup SummaryStates)
  BY DEF JobStates, CpeStates, LateStates, SummaryStates
<1>3. {"cpe", "cve", "drop_cpe", "create_cpe", "insert_cpe"} \cap LateStates = {}
  BY DEF LateStates
<1>4. CASE CheckCpe
  <2>1. PICK l \in {"failed", "drop_cpe", "create_cpe"} : Proceed(l)
    BY <1>4 DEF CheckCpe
  <2>2. job.pc = "cpe" /\ UNCHANGED dbVars /\ UNCHANGED <<nvd, modified, files>>
    BY <1>4 DEF CheckCpe, At, dbVars
  <2>3. job' \in Jobs /\ job'.pc = l
    BY <2>1, <1>2, ProceedEffect
  <2>4. CveTablesInv' /\ KeepsData
    BY <2>1, <2>2, <2>3, <1>2, <1>3, QuietAction
  <2> QED
    BY <2>2, <2>3, <2>4 DEF JobInv, dbVars
<1>5. CASE DropCpe
  <2>1. LET e == drop_table(work, "cpe_table") IN SoundDb(e) /\ Later(work, e)
    BY <1>1, DropEffect, DropLater
  <2>2. /\ job.pc = "drop_cpe" /\ ExecuteDdl(drop_table(work, "cpe_table"))
        /\ Proceed("create_cpe") /\ UNCHANGED <<nvd, modified, files>>
    BY <1>5 DEF DropCpe, At
  <2> QED
    BY <2>1, <2>2, <1>2, <1>3, DdlAction
<1>6. CASE CreateCpe
  <2>1. LET e == create(work, "cpe_table") IN SoundDb(e) /\ Later(work, e)
    BY <1>1, CreateEffect, CreateLater
  <2>2. /\ job.pc = "create_cpe" /\ ExecuteDdl(create(work, "cpe_table"))
        /\ Proceed("insert_cpe") /\ UNCHANGED <<nvd, modified, files>>
    BY <1>6 DEF CreateCpe, At
  <2> QED
    BY <2>1, <2>2, <1>2, <1>3, DdlAction
<1>7. CASE InsertCpe
  <2>1. /\ job.pc = "insert_cpe" /\ UNCHANGED <<nvd, modified, files>>
        /\ IF work["cpe_table"].exists
           THEN ExecuteAndCommit(insert_into(work, "cpe_table", setup_cpe_table))
           ELSE ExecuteWithoutCommit(work)
    BY <1>7 DEF InsertCpe, At
  <2>2. PICK l \in {"cve", "done"} : Proceed(l)
    BY <1>7 DEF InsertCpe
  <2> QED
    BY <2>1, <2>2, <1>1, <1>2, <1>3, InsertAction
<1> QED
  BY <1>4, <1>5, <1>6, <1>7

LEMMA DownloadKeeps ==
    ASSUME JobInv, CveTablesInv,
           DownloadModified \/ DownloadYears \/ NoCveTable \/ DownloadFails
    PROVE  JobInv' /\ CveTablesInv' /\ KeepsData
<1>1. /\ {"temp_feeds", "create_cve", "failed"} \subseteq JobStates \ ({"idle"} \cup SummaryStates)
      /\ {"insert_cpe", "cve"} \cap LateStates = {}
  BY DEF JobStates, FeedStates, ImportStates, LateStates, SummaryStates
<1>2. UNCHANGED dbVars /\ UNCHANGED nvd /\ UNCHANGED modified
  BY DEF DownloadModified, DownloadYears, NoCveTable, DownloadFails, dbVars
<1>3. job.pc \in {"insert_cpe", "cve"}
  BY DEF DownloadModified, DownloadYears, NoCveTable, DownloadFails, At
<1>4. SUFFICES job' \in Jobs /\ job'.pc \in {"temp_feeds", "create_cve", "failed"}
                /\ \A f \in files' : f.feed \in Feeds
  BY <1>1, <1>2, <1>3, QuietAction DEF JobInv, dbVars
<1>5. \A cves \in SUBSET Cves : FeedOf(cves) \in Feeds
  BY FeedOfFeeds DEF JobInv
<1>6. CASE DownloadModified
  <2>1. \A f \in files' : f.feed \in Feeds
    <3> DEFINE new == [name |-> "modified", feed |-> FeedOf(modified)]
    <3>1. new.feed \in Feeds
      BY <1>5 DEF JobInv
    <3> HIDE DEF new
    <3>2. \A f \in files' : f \in files \/ f = new
      BY <1>6 DEF DownloadModified, new
    <3> QED
      BY <3>1, <3>2 DEF JobInv
  <2>2. PICK f \in files' : job' = [job EXCEPT !.pc = "temp_feeds", !.feed = f.feed]
    BY <1>6 DEF DownloadModified
  <2> QED
    BY <2>1, <2>2, <1>1 DEF JobInv, Jobs
<1>7. CASE DownloadYears
  <2>1. \A f \in files' : f.feed \in Feeds
    <3> DEFINE new(y) == [name |-> "year" \o ToString(y),
                          feed |-> FeedOf({c \in Cves : YearOf[c] = y})]
    <3>1. \A y : new(y).feed \in Feeds
      BY <1>5
    <3>2. \A f \in files' : f \in files \/ \E y : f = new(y)
      BY <1>7 DEF DownloadYears
    <3> HIDE DEF new
    <3> QED
      BY <3>1, <3>2 DEF JobInv
  <2>2. UNION {f.feed : f \in files'} \in Feeds
    BY <2>1 DEF Feeds
  <2>3. job' = [job EXCEPT !.pc = "create_cve", !.feed = UNION {f.feed : f \in files'}]
    BY <1>7 DEF DownloadYears
  <2> QED
    BY <2>1, <2>2, <2>3, <1>1 DEF JobInv, Jobs
<1>8. CASE NoCveTable \/ DownloadFails
  <2>1. Proceed("failed") /\ files' = files
    BY <1>8 DEF NoCveTable, DownloadFails
  <2> QED
    BY <2>1, <1>1, ProceedEffect DEF JobInv
<1> QED
  BY <1>6, <1>7, <1>8

LEMMA CreateTableKeeps ==
    ASSUME JobInv, CveTablesInv, NEW pc \in JobStates \ LateStates, NEW t \in Tables,
           NEW l \in JobStates \ {"idle"}, CreateTable(pc, t, l),
           l \in SummaryStates => pc \in SummaryStates
    PROVE  JobInv' /\ CveTablesInv' /\ KeepsData
<1> DEFINE e == create(work, t)
<1>1. /\ job.pc = pc /\ ExecuteDdl(e) /\ Proceed(l) /\ UNCHANGED <<nvd, modified, files>>
  BY DEF CreateTable, At
<1>2. SoundDb(work)
  BY DEF CveTablesInv
<1>3. /\ SoundDb(e) /\ Later(work, e)
      /\ \A u \in Tables : e[u].rows = work[u].rows
  BY <1>2, CreateEffect, CreateLater
<1> HIDE DEF e
<1>4. l \in SummaryStates => FeedsTaken(work) /\ FeedsTaken(e)
  BY <1>1, <1>3 DEF CveTablesInv, FeedsTaken, Ids, Years, Tables
<1> QED
  BY <1>1, <1>3, <1>4, DdlAction

LEMMA InsertRowsKeeps ==
    ASSUME JobInv, CveTablesInv, NEW pc \in JobStates \ LateStates, NEW t \in Tables,
           NEW rows, SoundRows(Fitting(rows)),
           NEW l \in JobStates \ {"idle"}, InsertRows(pc, t, rows, l),
           l \in SummaryStates => pc \in SummaryStates /\ t = "temp_sum"
    PROVE  JobInv' /\ CveTablesInv' /\ KeepsData
<1>1. /\ job.pc = pc /\ Proceed(l) /\ UNCHANGED <<nvd, modified, files>>
      /\ IF work[t].exists THEN ExecuteAndCommit(insert_into(work, t, rows))
                           ELSE ExecuteWithoutCommit(work)
  BY DEF InsertRows, At
<1>2. l \in SummaryStates => t = "temp_sum" /\ FeedsTaken(work)
  BY <1>1 DEF CveTablesInv
<1> QED
  BY <1>1, <1>2, InsertAction

LEMMA ImportKeeps ==
    ASSUME JobInv, CveTablesInv, ImportCve
    PROVE  JobInv' /\ CveTablesInv' /\ KeepsData
<1>1. SoundRows(Fitting(setup_cve_feeds_table(job.feed))) /\ SoundRows(Fitting(Summaries))
  BY FeedRows, SoundFitting DEF JobInv, Jobs, Summaries, NewRows
<1>2. /\ {"create_cve", "insert_cve", "create_summaries", "insert_summaries"}
             \subseteq JobStates \ LateStates
      /\ {"create_cve", "insert_cve", "create_summaries", "insert_summaries", "done"}
             \subseteq JobStates \ ({"idle"} \cup SummaryStates)
      /\ "cve_table" \in Tables /\ "summary_table" \in Tables
  BY DEF JobStates, ImportStates, LateStates, SummaryStates, Tables
<1>3. CASE CreateTable("create_cve", "cve_table", "insert_cve")
  BY <1>2, <1>3, CreateTableKeeps
<1>4. CASE InsertRows("insert_cve", "cve_table", setup_cve_feeds_table(job.feed),
                      IF Summaries = {} THEN "done" ELSE "create_summaries")
  <2> DEFINE l == IF Summaries = {} THEN "done" ELSE "create_summaries"
             rows == setup_cve_feeds_table(job.feed)
  <2>1. l \in JobStates \ ({"idle"} \cup SummaryStates)
    BY <1>2
  <2>2. InsertRows("insert_cve", "cve_table", rows, l)
    BY <1>4
  <2> HIDE DEF l, rows
  <2> QED
    BY <2>1, <2>2, <1>1, <1>2, InsertRowsKeeps DEF rows
<1>5. CASE CreateTable("create_summaries", "summary_table", "insert_summaries")
  BY <1>2, <1>5, CreateTableKeeps
<1>6. CASE InsertRows("insert_summaries", "summary_table", Summaries, "done")
  BY <1>1, <1>2, <1>6, InsertRowsKeeps
<1> QED
  BY <1>3, <1>4, <1>5, <1>6 DEF ImportCve

LEMMA UpdateFeedsKeeps ==
    ASSUME JobInv, CveTablesInv, UpdateCveFeeds
    PROVE  JobInv' /\ CveTablesInv' /\ KeepsData
<1> DEFINE e == update_cve_feeds(work)
<1>1. /\ job.pc = "update_feeds" /\ ExecuteAndCommit(e) /\ UNCHANGED <<nvd, modified, files>>
  BY DEF UpdateCveFeeds, At
<1>2. PICK l \in {"drop_feeds", "temp_sum"} : Proceed(l)
  BY DEF UpdateCveFeeds
<1>3. SoundDb(work) /\ Later(db, work)
  BY <1>1 DEF CveTablesInv, LateStates
<1>4. SoundDb(e) /\ Later(work, e) /\ FeedsTaken(e)
  BY <1>3, UpdateFeedsEffect
<1> HIDE DEF e
<1>5. Later(db, e) /\ StillKnown(db, e) /\ CveMoves(db, e)
  BY <1>3, <1>4, LaterTrans, LaterMoves
<1>6. l \in JobStates \ {"idle"}
  BY DEF JobStates, SummaryStates, LateStates
<1> QED
  BY <1>1, <1>2, <1>4, <1>5, <1>6, CommitAction

LEMMA CreateSummariesKeeps ==
    ASSUME JobInv, CveTablesInv, CreateSummaries
    PROVE  JobInv' /\ CveTablesInv' /\ KeepsData
<1> DEFINE e == create(work, "summary_table")
<1>1. /\ job.pc = "need_summaries" /\ Proceed("update_summaries")
      /\ UNCHANGED <<nvd, modified, files>>
  BY DEF CreateSummaries, At
<1>2. /\ "update_summaries" \in JobStates \ ({"idle"} \cup LateStates)
      /\ job.pc \in SummaryStates \ LateStates /\ "summary_table" \in Tables
  BY <1>1 DEF JobStates, SummaryStates, LateStates, Tables
<1>3. /\ SoundDb(work) /\ FeedsTaken(work) /\ Later(db, work)
  BY <1>2 DEF CveTablesInv
<1>4. CASE table_exists(work, "summary_table")
  <2>1. UNCHANGED dbVars
    BY <1>4 DEF CreateSummaries
  <2>2. job' \in Jobs /\ job'.pc = "update_summaries"
    BY <1>1, <1>2, ProceedEffect
  <2>3. CveTablesInv'
    BY <2>1, <2>2, <1>2, <1>3 DEF CveTablesInv, dbVars
  <2> QED
    BY <1>1, <2>1, <2>2, <2>3, LaterSelf DEF JobInv, KeepsData, dbVars
<1>5. CASE ~table_exists(work, "summary_table")
  <2>1. ExecuteDdl(e)
    BY <1>5 DEF CreateSummaries
  <2>2. /\ SoundDb(e) /\ Later(work, e)
        /\ \A u \in Tables \ {"summary_table"} : e[u] = work[u]
    BY <1>2, <1>3, CreateEffect, CreateLater
  <2> HIDE DEF e
  <2>3. FeedsTaken(e)
    BY <1>3, <2>2, SameTables DEF Tables
  <2> QED
    BY <1>1, <1>2, <1>3, <2>1, <2>2, <2>3, DdlAction
<1> QED
  BY <1>4, <1>5

LEMMA UpdateSummariesStep ==
    ASSUME JobInv, CveTablesInv, UpdateCveSummaries
    PROVE  JobInv' /\ CveTablesInv' /\ KeepsData
<1> DEFINE e == update_cve_summaries(work)
<1>1. /\ job.pc = "update_summaries" /\ Proceed("drop_sum")
      /\ UNCHANGED <<nvd, modified, files>>
      /\ IF work["summary_table"].exists THEN ExecuteAndCommit(e) ELSE ExecuteWithoutCommit(e)
  BY DEF UpdateCveSummaries, At
<1>2. /\ "drop_sum" \in JobStates \ ({"idle"} \cup SummaryStates) /\ "drop_sum" \in LateStates
      /\ job.pc \in SummaryStates \ LateStates
  BY <1>1 DEF JobStates, SummaryStates, LateStates
<1>3. /\ SoundDb(work) /\ FeedsTaken(work) /\ Later(db, work)
  BY <1>2 DEF CveTablesInv
<1>4. SoundDb(e)
  BY <1>3, UpdateSummariesEffect
<1>5. CASE work["summary_table"].exists
  <2>1. StillKnown(db, e) /\ CveMoves(db, e)
    BY <1>3, <1>5, UpdateSummariesKeeps
  <2> HIDE DEF e
  <2> QED
    BY <1>1, <1>2, <1>4, <1>5, <2>1, CommitAction
<1>6. CASE ~work["summary_table"].exists
  <2> HIDE DEF e
  <2> QED
    BY <1>1, <1>2, <1>4, <1>6, NoCommitAction
<1> QED
  BY <1>5, <1>6

LEMMA DropTableKeeps ==
    ASSUME JobInv, CveTablesInv, NEW pc \in LateStates, NEW t \in {"temp_sum", "temp_feeds"},
           NEW l \in LateStates, DropTable(pc, t, l)
    PROVE  JobInv' /\ CveTablesInv' /\ KeepsData
<1> DEFINE e == drop_table(work, t)
<1>1. ExecuteDdl(e) /\ Proceed(l) /\ UNCHANGED <<nvd, modified, files>>
  BY DEF DropTable
<1>2. SoundDb(work) /\ t \in Tables
  BY DEF CveTablesInv, Tables
<1>3. SoundDb(e) /\ Later(work, e)
  BY <1>2, DropEffect, DropLater
<1> HIDE DEF e
<1>4. l \in JobStates \ {"idle"} /\ l \notin SummaryStates
  BY StatesDisjoint
<1> QED
  BY <1>1, <1>3, <1>4, DdlAction

LEMMA UpdateKeeps ==
    ASSUME JobInv, CveTablesInv, UpdateCve
    PROVE  JobInv' /\ CveTablesInv' /\ KeepsData
<1>1. SoundRows(Fitting(setup_cve_feeds_table(job.feed))) /\ SoundRows(Fitting(Summaries))
  BY FeedRows, SoundFitting DEF JobInv, Jobs, Summaries, NewRows
<1>2. /\ {"temp_feeds", "fill_feeds", "update_feeds"}
             \subseteq JobStates \ ({"idle"} \cup SummaryStates \cup LateStates)
      /\ {"temp_sum", "fill_sum", "need_summaries"}
             \subseteq (SummaryStates \cap JobStates) \ ({"idle"} \cup LateStates)
      /\ {"drop_sum", "drop_feeds", "done"} \subseteq LateStates
      /\ "temp_feeds" \in Tables /\ "temp_sum" \in Tables
  BY DEF JobStates, FeedStates, SummaryStates, LateStates, Tables
<1>3. CASE CreateTable("temp_feeds", "temp_feeds", "fill_feeds")
  BY <1>2, <1>3, CreateTableKeeps
<1>4. CASE InsertRows("fill_feeds", "temp_feeds", setup_cve_feeds_table(job.feed), "update_feeds")
  BY <1>1, <1>2, <1>4, InsertRowsKeeps
<1>5. CASE CreateTable("temp_sum", "temp_sum", "fill_sum")
  BY <1>2, <1>5, CreateTableKeeps
<1>6. CASE InsertRows("fill_sum", "temp_sum", Summaries, "need_summaries")
  BY <1>1, <1>2, <1>6, InsertRowsKeeps
<1>7. CASE DropTable("drop_sum", "temp_sum", "drop_feeds")
  BY <1>2, <1>7, DropTableKeeps
<1>8. CASE DropTable("drop_feeds", "temp_feeds", "done")
  BY <1>2, <1>8, DropTableKeeps
<1> QED
  BY <1>3, <1>4, <1>5, <1>6, <1>7, <1>8, UpdateFeedsKeeps, CreateSummariesKeeps,
     UpdateSummariesStep DEF UpdateCve

(***************************************************************************)
(* No step of the script forgets a CVE or changes what a query reads,      *)
(* except that a failed import removes the file.                           *)
(***************************************************************************)
LEMMA SetupKeeps ==
    ASSUME JobInv, CveTablesInv, Setup
    PROVE  JobInv' /\ CveTablesInv' /\ (~Unlink => KeepsData)
<1>1. CASE \E target \in Targets : \/ Start(TRUE, target, {})
                                   \/ \E years \in StartYears : Start(FALSE, target, years)
  BY <1>1, StartKeeps
<1>2. CASE Finish
  BY <1>2, EndAction DEF Finish
<1>3. CASE Crash
  BY <1>3, EndAction DEF Crash
<1>4. CASE ExitFailed
  BY <1>4, EndAction DEF ExitFailed
<1> QED
  BY <1>1, <1>2, <1>3, <1>4, CpeKeeps, DownloadKeeps, ImportKeeps, UpdateKeeps DEF Setup

LEMMA OtherKeeps ==
    ASSUME JobInv, CveTablesInv,
           Lookup \/ (\E c \in Cves : \E e \in Published[c] : Publish(c, e)) \/ UNCHANGED cveVars
    PROVE  JobInv' /\ CveTablesInv' /\ KeepsData
<1>1. UNCHANGED <<db, work, open, files, job>>
  BY DEF Lookup, BeginAnalysis, BeginLookup, QueryLockedOut, MatchCpe, SearchCve, SearchedCve,
         SearchCveSummary, SearchedSummary, KeepResult, CreateSummary, Publish, cveVars
<1>2. nvd' \in [Cves -> Entries] /\ modified' \subseteq Cves
  <2>1. CASE UNCHANGED <<nvd, modified>>
    BY <2>1 DEF JobInv
  <2>2. ASSUME NEW c \in Cves, NEW e \in Published[c], Publish(c, e)
        PROVE  nvd' \in [Cves -> Entries] /\ modified' \subseteq Cves
    BY <2>2, CveConstants DEF Publish, JobInv
  <2>3. Lookup \/ UNCHANGED cveVars => UNCHANGED <<nvd, modified>>
    BY DEF Lookup, BeginAnalysis, BeginLookup, QueryLockedOut, MatchCpe, SearchCve, SearchedCve,
           SearchCveSummary, SearchedSummary, KeepResult, CreateSummary, cveVars
  <2> QED
    BY <2>1, <2>2, <2>3
<1>3. JobInv'
  BY <1>1, <1>2 DEF JobInv
<1>4. CveTablesInv'
  BY <1>1 DEF CveTablesInv
<1> QED
  BY <1>1, <1>3, <1>4, LaterSelf DEF KeepsData

-----------------------------------------------------------------------------
(* The lookup                                                              *)

SameQuery ==
    /\ lookup'.pc = lookup.pc /\ lookup'.products = lookup.products
    /\ lookup'.hits = lookup.hits /\ lookup'.summaryHits = lookup.summaryHits

LEMMA WatchChosen ==
    ASSUME WatchLookup, Chosen
    PROVE  /\ seen'.always = seen.always \cap Listed(View', TheProduct)
           /\ seen'.ever = seen.ever \cup Listed(View', TheProduct)
           /\ seen'.moved = seen.moved \cup
                  IF lookup.pc = "searched"
                  THEN (Ids(View["summary_table"]) \ Ids(View'["summary_table"]))
                           \cap Ids(View'["cve_table"])
                  ELSE {}
           /\ seen'.locked = seen.locked \cup HitsLockedOut
<1> DEFINE moved == IF lookup.pc = "searched"
                    THEN (Ids(View["summary_table"]) \ Ids(View'["summary_table"]))
                             \cap Ids(View'["cve_table"])
                    ELSE {}
           new == [always |-> seen.always \cap Listed(View', TheProduct),
                   ever |-> seen.ever \cup Listed(View', TheProduct),
                   moved |-> seen.moved \cup moved,
                   locked |-> seen.locked \cup HitsLockedOut]
<1>1. lookup.pc # "found"
  BY DEF Chosen
<1>2. seen' = new
  BY <1>1 DEF WatchLookup
<1> QED
  BY <1>2

LEMMA WatchBegins ==
    ASSUME WatchLookup, ~Chosen, Chosen'
    PROVE  /\ seen'.always = Listed(View', TheProduct')
           /\ seen'.ever = Listed(View', TheProduct')
<1>1. lookup'.pc # "found"
  BY DEF Chosen
<1>2. seen' = [always |-> Listed(View', TheProduct'),
               ever |-> Listed(View', TheProduct'), moved |-> {},
               locked |-> {}]
  BY <1>1 DEF WatchLookup
<1> QED
  BY <1>2

LEMMA WatchFound ==
    ASSUME WatchLookup, lookup.pc = "found", lookup'.pc = "found"
    PROVE  seen' = seen
<1>1. ~Chosen /\ ~Chosen'
  BY DEF Chosen
<1> QED
  BY <1>1 DEF WatchLookup

LEMMA ListedHits ==
    ASSUME NEW d, NEW p
    PROVE  Listed(d, p) = IdsOf(search_cve(d["cve_table"].rows, p))
                              \cup IdsOf(search_cve_summary(d["summary_table"].rows, p))
  BY DEF Listed, IdsOf

(***************************************************************************)
(* A summary with a hit that is gone has left its CVE to the feeds, or the *)
(* CVE has a hit by another summary.                                       *)
(***************************************************************************)
LEMMA MissesOnlyMoved ==
    ASSUME NEW d, NEW e, NEW p, CveMoves(d, e),
           NEW c \in IdsOf(search_cve_summary(d["summary_table"].rows, p)),
           c \in Listed(e, p),
           c \notin (Ids(d["summary_table"]) \ Ids(e["summary_table"])) \cap Ids(e["cve_table"])
    PROVE  c \in IdsOf(search_cve_summary(e["summary_table"].rows, p))
<1>1. PICK r \in d["summary_table"].rows :
          r.id = c /\ product_is_mentioned_in_summary(p, r.summary)
  BY DEF IdsOf, search_cve_summary
<1>2. CASE r \in e["summary_table"].rows
  BY <1>1, <1>2 DEF IdsOf, search_cve_summary
<1>3. CASE c \notin Ids(e["cve_table"])
  <2>1. IdsOf(search_cve(e["cve_table"].rows, p)) \subseteq Ids(e["cve_table"])
    BY DEF IdsOf, Ids, search_cve
  <2> QED
    BY <1>3, <2>1, ListedHits
<1>4. CASE c \notin Ids(e["summary_table"])
  <2>1. c \in Ids(d["summary_table"])
    BY <1>1 DEF Ids
  <2> QED
    BY <2>1, <1>3, <1>4
<1> QED
  BY <1>1, <1>2, <1>3, <1>4 DEF CveMoves

LEMMA CandidateIds ==
    ASSUME NEW f, NEW s
    PROVE  IdsOf(Candidates(f, s)) = IdsOf(f) \cup IdsOf(s)
  BY DEF IdsOf, Candidates

LEMMA NotChosen ==
    ASSUME IsLookup, lookup.reading = FALSE,
           lookup.pc \in {"idle", "next", "analyzed", "raised"}
    PROVE  LookupInv
  BY DEF LookupInv, LookupMissesOnlyMoved

(***************************************************************************)
(* A step beside a lookup.                                                 *)
(***************************************************************************)
LEMMA BesideLookup ==
    ASSUME LookupInv, WatchLookup, SameQuery, IsLookup', lookup'.reading = lookup.reading,
           Connected => CveMoves(View, View') /\ (Reading => View' = View)
    PROVE  LookupInv'
<1>1. PICK p : p = TheProduct /\ TheProduct' = p
  BY DEF TheProduct, SameQuery
<1>2. /\ lookup'.pc = lookup.pc /\ lookup'.hits = lookup.hits
      /\ lookup'.summaryHits = lookup.summaryHits
  BY DEF SameQuery
<1>3. lookup'.reading \in BOOLEAN /\ (lookup'.reading <=> lookup'.pc \in {"cpe", "cve", "summary"})
  BY <1>2 DEF LookupInv
<1>8. HitsLockedOut = {}
  BY <1>2 DEF HitsLockedOut
<1>4. CASE lookup.pc \in {"matched", "cve", "searched"}
  <2>1. Chosen /\ Connected
    BY <1>4 DEF Chosen, Connected
  <2>2. /\ seen'.always = seen.always \cap Listed(View', p)
        /\ seen'.ever = seen.ever \cup Listed(View', p)
    BY <1>1, <2>1, WatchChosen
  <2>3. CASE lookup.pc = "matched"
    BY <1>1, <1>2, <1>3, <2>2, <2>3 DEF LookupInv, LookupMissesOnlyMoved, Excused
  <2>4. CASE lookup.pc = "cve"
    <3>1. View' = View
      BY <2>1, <2>4 DEF LookupInv, Reading
    <3>2. Excused' = Excused
      BY <1>8, <2>1, <2>4, WatchChosen DEF Excused
    <3>3. SummaryHits(p)' = SummaryHits(p)
      BY <3>1 DEF SummaryHits
    <3>4. /\ seen.always \ Excused \subseteq
                 IdsOf(lookup.hits) \cup IdsOf(SummaryHits(p))
          /\ IdsOf(lookup.hits) \subseteq seen.ever
      BY <1>1, <2>4 DEF LookupInv
    <3> QED
      BY <1>1, <1>2, <1>3, <2>2, <2>4, <3>2, <3>3, <3>4 DEF LookupInv, LookupMissesOnlyMoved, Excused
  <2>5. CASE lookup.pc = "searched"
    <3>1. seen'.moved = seen.moved \cup
              ((Ids(View["summary_table"]) \ Ids(View'["summary_table"]))
                   \cap Ids(View'["cve_table"]))
          /\ seen'.locked = seen.locked
      BY <1>8, <2>1, <2>5, WatchChosen
    <3>2. /\ seen.always \ Excused \subseteq
                 IdsOf(lookup.hits) \cup IdsOf(SummaryHits(p))
          /\ IdsOf(lookup.hits) \subseteq seen.ever
      BY <1>1, <2>5 DEF LookupInv
    <3>3. ASSUME NEW c \in seen'.always \ Excused', c \notin IdsOf(lookup.hits)
          PROVE  c \in IdsOf(SummaryHits(p)')
      <4>1. c \in IdsOf(search_cve_summary(View["summary_table"].rows, p))
        BY <2>2, <3>1, <3>2, <3>3 DEF SummaryHits, Excused
      <4>2. c \in Listed(View', p)
        BY <2>2
      <4>3. CveMoves(View, View')
        BY <2>1
      <4>4. c \in IdsOf(search_cve_summary(View'["summary_table"].rows, p))
        BY <3>1, <3>3, <4>1, <4>2, <4>3, MissesOnlyMoved DEF Excused
      <4> QED
        BY <4>4 DEF SummaryHits
    <3> QED
      BY <1>1, <1>2, <1>3, <2>2, <2>5, <3>2, <3>3 DEF LookupInv, LookupMissesOnlyMoved, Excused
  <2> QED
    BY <1>4, <2>3, <2>4, <2>5
<1>5. CASE lookup.pc = "summary"
  <2>1. Chosen
    BY <1>5 DEF Chosen
  <2>2. /\ seen'.always \subseteq seen.always /\ seen.ever \subseteq seen'.ever
        /\ Excused' = Excused
    BY <1>5, <1>8, <2>1, WatchChosen DEF Excused
  <2>3. /\ seen.always \ Excused \subseteq IdsOf(lookup.hits) \cup IdsOf(lookup.summaryHits)
        /\ IdsOf(lookup.hits) \cup IdsOf(lookup.summaryHits) \subseteq seen.ever
    BY <1>5 DEF LookupInv
  <2> QED
    BY <1>2, <1>3, <1>5, <2>2, <2>3 DEF LookupInv, LookupMissesOnlyMoved, Excused
<1>6. CASE lookup.pc = "found"
  <2>1. seen' = seen
    BY <1>2, <1>6, WatchFound
  <2> QED
    BY <1>2, <1>3, <1>6, <2>1 DEF LookupInv, LookupMissesOnlyMoved, Excused
<1>7. CASE lookup.pc \notin {"matched", "cve", "searched", "summary", "found"}
  BY <1>2, <1>3, <1>7 DEF LookupInv, LookupMissesOnlyMoved, Excused
<1> QED
  BY <1>4, <1>5, <1>6, <1>7

LEMMA SetupBesideLookup ==
    ASSUME JobInv, CveTablesInv, LookupInv, Setup, WatchLookup
    PROVE  LookupInv'
<1>1. CASE ExitFailed /\ Unlink
  <2>1. CASE Connected /\ ~lookup.unlinked
    <3>1. lookup' = [lookup EXCEPT !.unlinked = TRUE, !.old = db]
      BY <1>1, <2>1 DEF ExitFailed
    <3>2. IsLookup
      BY DEF LookupInv
    <3>3. /\ SameQuery /\ IsLookup' /\ lookup'.reading = lookup.reading
          /\ lookup'.unlinked /\ lookup'.old = db
      BY <3>1, <3>2 DEF SameQuery, IsLookup
    <3>4. View' = View
      BY <2>1, <3>3 DEF View
    <3> QED
      BY <3>3, <3>4, BesideLookup, LaterSelf
  <2>2. CASE ~(Connected /\ ~lookup.unlinked)
    <3>1. lookup' = lookup
      BY <1>1, <2>2 DEF ExitFailed
    <3>2. Connected => View' = View
      BY <2>2, <3>1 DEF View
    <3> QED
      BY <3>1, <3>2, BesideLookup, LaterSelf DEF SameQuery, IsLookup, LookupInv
  <2> QED
    BY <2>1, <2>2
<1>2. CASE ~(ExitFailed /\ Unlink)
  <2>1. lookup' = lookup
    BY <1>2 DEF Setup, Start, CheckCpe, DropCpe, CreateCpe, InsertCpe, DownloadModified,
          DownloadYears, NoCveTable, DownloadFails, ImportCve, UpdateCve, CreateTable,
          InsertRows, UpdateCveFeeds, CreateSummaries, UpdateCveSummaries, DropTable,
          Finish, ExitFailed, Crash
  <2>2. ~Unlink => KeepsData
    BY SetupKeeps
  <2>3. Unlink => db' = db
    BY <1>2 DEF Setup, Start, CheckCpe, DropCpe, CreateCpe, InsertCpe, DownloadModified,
          DownloadYears, NoCveTable, DownloadFails, ImportCve, UpdateCve, CreateTable,
          InsertRows, UpdateCveFeeds, CreateSummaries, UpdateCveSummaries, DropTable,
          Finish, Crash, Unlink, At
  <2>4. CveMoves(View, View') /\ (Reading => View' = View)
    BY <2>1, <2>2, <2>3, LaterSelf DEF View, KeepsData
  <2> QED
    BY <2>1, <2>4, BesideLookup DEF SameQuery, IsLookup, LookupInv
<1> QED
  BY <1>1, <1>2

LEMMA IdleLookupFacts ==
    /\ IdleLookup.pc = "idle" /\ IdleLookup.reading = FALSE
    /\ IdleLookup = [pc |-> "idle", reading |-> FALSE, todo |-> << >>, products |-> {},
                     hits |-> {}, summaryHits |-> {}, results |-> {}, tagged |-> FALSE,
                     unlinked |-> FALSE, old |-> [t \in Tables |-> NoTable]]
  BY DEF IdleLookup

\* The steps of a lookup outside the time between the two queries.
LEMMA OutsideKeeps ==
    ASSUME LookupInv, WatchLookup,
           (\E c \in ComponentLists : BeginAnalysis(c)) \/ BeginLookup \/ CreateSummary \/ KeepResult
    PROVE  LookupInv'
<1>1. IsLookup
  BY DEF LookupInv
<1>2. ASSUME NEW c \in ComponentLists, BeginAnalysis(c) PROVE LookupInv'
  <2>1. lookup' = [IdleLookup EXCEPT !.pc = "next", !.todo = c]
    BY <1>2 DEF BeginAnalysis
  <2>2. IsLookup' /\ lookup'.reading = FALSE /\ lookup'.pc = "next"
    BY <2>1, IdleLookupFacts DEF IsLookup
  <2> QED
    BY <2>2 DEF LookupInv, LookupMissesOnlyMoved
<1>3. CASE BeginLookup
  <2>1. lookup' = [lookup EXCEPT !.pc = "cpe", !.reading = TRUE, !.unlinked = FALSE,
                                 !.hits = {}, !.products = {}]
    BY <1>3 DEF BeginLookup
  <2>2. IsLookup' /\ lookup'.reading = TRUE /\ lookup'.pc = "cpe"
    BY <1>1, <2>1 DEF IsLookup
  <2> QED
    BY <2>2 DEF LookupInv, LookupMissesOnlyMoved
<1>4. CASE CreateSummary
  <2>1. lookup' = [lookup EXCEPT !.pc = "analyzed", !.results = create_summary(@),
                                 !.tagged = add_tags(lookup.results)]
        /\ lookup.pc = "next"
    BY <1>4 DEF CreateSummary
  <2>2. IsLookup' /\ lookup'.reading = lookup.reading /\ lookup'.pc = "analyzed"
    BY <1>1, <2>1 DEF IsLookup
  <2> QED
    BY <2>1, <2>2 DEF LookupInv, LookupMissesOnlyMoved
<1>5. CASE KeepResult
  <2> DEFINE results == IF lookup.hits = {} THEN lookup.results
                        ELSE lookup.results \cup {[component |-> Head(lookup.todo),
                                                   hits |-> lookup.hits]}
  <2>1. lookup' = [NextComponent EXCEPT
                      !.results = IF lookup.hits = {} THEN @
                                  ELSE @ \cup {[component |-> Head(lookup.todo),
                                                hits |-> lookup.hits]},
                      !.hits = {}, !.products = {}]
    BY <1>5 DEF KeepResult
  <2>2. IsLookup' /\ lookup'.reading = FALSE /\ lookup'.pc = "next"
    BY <1>1, <2>1 DEF IsLookup, NextComponent
  <2> QED
    BY <2>2 DEF LookupInv, LookupMissesOnlyMoved
<1> QED
  BY <1>2, <1>3, <1>4, <1>5

LEMMA MatchKeeps ==
    ASSUME LookupInv, WatchLookup, MatchCpe
    PROVE  LookupInv'
<1>1. IsLookup /\ lookup.pc = "cpe"
  BY DEF LookupInv, MatchCpe
<1>2. CASE lookup' = [IdleLookup EXCEPT !.pc = "raised"]
  <2>1. IsLookup' /\ lookup'.reading = FALSE /\ lookup'.pc = "raised"
    BY <1>2, IdleLookupFacts DEF IsLookup
  <2> QED
    BY <2>1 DEF LookupInv, LookupMissesOnlyMoved
<1>3. CASE lookup' = NextComponent
  <2>1. IsLookup' /\ lookup'.reading = FALSE /\ lookup'.pc = "next"
    BY <1>1, <1>3 DEF IsLookup, NextComponent
  <2> QED
    BY <2>1 DEF LookupInv, LookupMissesOnlyMoved
<1>4. ASSUME NEW p, lookup' = [lookup EXCEPT !.pc = "matched", !.reading = FALSE,
                                             !.products = {p}]
      PROVE  LookupInv'
  <2>1. IsLookup' /\ lookup'.reading = FALSE /\ lookup'.pc = "matched"
    BY <1>1, <1>4 DEF IsLookup
  <2>2. ~Chosen /\ Chosen'
    BY <1>1, <2>1 DEF Chosen
  <2>3. seen'.always = Listed(View', TheProduct') /\ seen'.ever = Listed(View', TheProduct')
    BY <2>2, WatchBegins
  <2> QED
    BY <2>1, <2>3 DEF LookupInv, LookupMissesOnlyMoved
<1> QED
  BY <1>2, <1>3, <1>4 DEF MatchCpe

(***************************************************************************)
(* The two queries: the first one has all hits in the feeds of the moment, *)
(* the others are in the summaries of the moment.                          *)
(***************************************************************************)
LEMMA QueriesKeep ==
    ASSUME LookupInv, WatchLookup, SearchCve \/ SearchedCve \/ SearchCveSummary \/ SearchedSummary
    PROVE  LookupInv'
<1>1. IsLookup /\ lookup.pc \in {"matched", "cve", "searched", "summary"} /\ Chosen
  BY DEF LookupInv, SearchCve, SearchedCve, SearchCveSummary, SearchedSummary, Chosen
<1>2. /\ lookup'.products = lookup.products /\ lookup'.unlinked = lookup.unlinked
      /\ lookup'.old = lookup.old /\ db' = db
  BY <1>1 DEF SearchCve, SearchedCve, SearchCveSummary, SearchedSummary, IsLookup
<1>3. PICK p : p = TheProduct /\ TheProduct' = p
  BY <1>2 DEF TheProduct
<1>4. View' = View
  BY <1>2 DEF View
<1>12. HitsLockedOut = {}
  BY <1>1 DEF SearchCve, SearchedCve, SearchCveSummary, SearchedSummary, IsLookup, HitsLockedOut
<1>5. /\ seen'.always \subseteq seen.always /\ seen'.always \subseteq Listed(View, p)
      /\ seen'.ever = seen.ever \cup Listed(View, p)
      /\ Excused' = Excused
  BY <1>1, <1>3, <1>4, <1>12, WatchChosen DEF Excused
<1>6. /\ FeedHits(p) = search_cve(View["cve_table"].rows, p)
      /\ SummaryHits(p) = search_cve_summary(View["summary_table"].rows, p)
      /\ FeedHits(p)' = FeedHits(p) /\ SummaryHits(p)' = SummaryHits(p)
  BY <1>4 DEF FeedHits, SummaryHits
<1>7. Listed(View, p) = IdsOf(FeedHits(p)) \cup IdsOf(SummaryHits(p))
  BY <1>6, ListedHits
<1>8. CASE SearchCve
  <2>1. /\ lookup.pc = "matched"
        /\ lookup' = [lookup EXCEPT !.pc = "cve", !.reading = TRUE, !.hits = FeedHits(p)]
    BY <1>3, <1>6, <1>8 DEF SearchCve
  <2>2. /\ IsLookup' /\ lookup'.pc = "cve" /\ lookup'.reading = TRUE
        /\ lookup'.hits = FeedHits(p)
    BY <1>1, <2>1 DEF IsLookup
  <2>3. Listed(View, p) \subseteq seen.ever
    BY <1>3, <2>1 DEF LookupInv
  <2> QED
    BY <1>3, <1>4, <1>5, <1>6, <1>7, <2>2, <2>3 DEF LookupInv, LookupMissesOnlyMoved, Excused
<1>9. CASE SearchedCve
  <2>1. lookup.pc = "cve" /\ lookup' = [lookup EXCEPT !.pc = "searched", !.reading = FALSE]
    BY <1>9 DEF SearchedCve
  <2>2. /\ IsLookup' /\ lookup'.pc = "searched" /\ lookup'.reading = FALSE
        /\ lookup'.hits = lookup.hits
    BY <1>1, <2>1 DEF IsLookup
  <2>3. /\ seen.always \ Excused \subseteq IdsOf(lookup.hits) \cup IdsOf(SummaryHits(p))
        /\ IdsOf(lookup.hits) \subseteq seen.ever
        /\ Listed(View, p) \subseteq seen.ever
    BY <1>3, <2>1 DEF LookupInv
  <2> QED
    BY <1>3, <1>4, <1>5, <1>6, <2>2, <2>3 DEF LookupInv, LookupMissesOnlyMoved, Excused
<1>10. CASE SearchCveSummary
  <2>1. /\ lookup.pc = "searched"
        /\ lookup' = [lookup EXCEPT !.pc = "summary", !.reading = TRUE,
                                    !.summaryHits = SummaryHits(p)]
    BY <1>3, <1>6, <1>10 DEF SearchCveSummary
  <2>2. /\ IsLookup' /\ lookup'.pc = "summary" /\ lookup'.reading = TRUE
        /\ lookup'.hits = lookup.hits /\ lookup'.summaryHits = SummaryHits(p)
    BY <1>1, <2>1 DEF IsLookup
  <2>3. /\ seen.always \ Excused \subseteq IdsOf(lookup.hits) \cup IdsOf(SummaryHits(p))
        /\ IdsOf(lookup.hits) \subseteq seen.ever
    BY <1>3, <2>1 DEF LookupInv
  <2> QED
    BY <1>5, <1>7, <2>2, <2>3 DEF LookupInv, LookupMissesOnlyMoved, Excused
<1>11. CASE SearchedSummary
  <2>1. /\ lookup.pc = "summary"
        /\ lookup' = [lookup EXCEPT !.pc = "found", !.reading = FALSE,
                                    !.hits = Candidates(@, lookup.summaryHits),
                                    !.summaryHits = {}]
    BY <1>11 DEF SearchedSummary
  <2>2. /\ IsLookup' /\ lookup'.pc = "found" /\ lookup'.reading = FALSE
        /\ lookup'.hits = Candidates(lookup.hits, lookup.summaryHits)
    BY <1>1, <2>1 DEF IsLookup
  <2>3. IdsOf(lookup'.hits) = IdsOf(lookup.hits) \cup IdsOf(lookup.summaryHits)
    BY <2>2, CandidateIds
  <2>4. /\ seen.always \ Excused \subseteq IdsOf(lookup.hits) \cup IdsOf(lookup.summaryHits)
        /\ IdsOf(lookup.hits) \cup IdsOf(lookup.summaryHits) \subseteq seen.ever
    BY <2>1 DEF LookupInv
  <2>5. LookupMissesOnlyMoved'
    BY <1>5, <2>3, <2>4 DEF LookupMissesOnlyMoved, Excused, IdsOf
  <2> QED
    BY <2>2, <2>5 DEF LookupInv
<1> QED
  BY <1>8, <1>9, <1>10, <1>11

(***************************************************************************)
(* A query that is locked out: what it would have found is excused.        *)
(***************************************************************************)
LEMMA LockedOutKeeps ==
    ASSUME LookupInv, WatchLookup, QueryLockedOut
    PROVE  LookupInv'
<1>1. IsLookup
  BY DEF LookupInv
<1>2. CASE lookup.pc = "next" /\ lookup' = NextComponent
  <2>1. IsLookup' /\ lookup'.reading = FALSE /\ lookup'.pc = "next"
    BY <1>1, <1>2 DEF IsLookup, NextComponent
  <2> QED
    BY <2>1 DEF LookupInv, LookupMissesOnlyMoved
<1>3. ASSUME lookup.pc \in {"matched", "searched"},
             \/ /\ lookup.pc = "matched"
                /\ lookup' = [lookup EXCEPT !.pc = "searched", !.hits = {}]
             \/ /\ lookup.pc = "searched"
                /\ lookup' = [lookup EXCEPT !.pc = "found"]
      PROVE  LookupInv'
  <2>1. /\ IsLookup' /\ lookup'.reading = lookup.reading
        /\ lookup'.products = lookup.products /\ lookup'.unlinked = lookup.unlinked
        /\ lookup'.old = lookup.old
        /\ \/ lookup.pc = "matched" /\ lookup'.pc = "searched" /\ lookup'.hits = {}
           \/ lookup.pc = "searched" /\ lookup'.pc = "found" /\ lookup'.hits = lookup.hits
    BY <1>1, <1>3 DEF IsLookup
  <2>2. PICK p : p = TheProduct /\ TheProduct' = p
    BY <2>1 DEF TheProduct
  <2>3. db' = db
    BY DEF QueryLockedOut
  <2>4. View' = View
    BY <2>1, <2>3 DEF View
  <2>5. Chosen /\ lookup.reading = FALSE
    BY <1>3 DEF Chosen, LookupInv
  <2>6. /\ seen'.always = seen.always \cap Listed(View, p)
        /\ seen'.ever = seen.ever \cup Listed(View, p)
        /\ seen'.moved = seen.moved
        /\ seen'.locked = seen.locked \cup HitsLockedOut
    BY <2>2, <2>4, <2>5, WatchChosen
  <2>7. /\ SummaryHits(p) = search_cve_summary(View["summary_table"].rows, p)
        /\ SummaryHits(p)' = SummaryHits(p)
    BY <2>4 DEF SummaryHits
  <2>8. Listed(View, p) = IdsOf(search_cve(View["cve_table"].rows, p)) \cup IdsOf(SummaryHits(p))
    BY <2>7, ListedHits
  <2>9. CASE lookup.pc = "matched"
    <3>1. HitsLockedOut = IdsOf(search_cve(View["cve_table"].rows, p))
      BY <2>1, <2>2, <2>9 DEF HitsLockedOut, IdsOf
    <3>2. lookup'.pc = "searched" /\ lookup'.hits = {} /\ lookup'.reading = FALSE
      BY <2>1, <2>5, <2>9
    <3>3. IdsOf(lookup'.hits) = {}
      BY <3>2 DEF IdsOf
    <3>4. seen'.always \ Excused' \subseteq IdsOf(SummaryHits(p)')
      BY <2>6, <2>7, <2>8, <3>1 DEF Excused
    <3>5. seen'.always \subseteq Listed(View', TheProduct') /\ Listed(View', TheProduct') \subseteq seen'.ever
      BY <2>2, <2>4, <2>6
    <3> QED
      BY <2>1, <2>2, <3>2, <3>3, <3>4, <3>5 DEF LookupInv, LookupMissesOnlyMoved
  <2>10. CASE lookup.pc = "searched"
    <3>1. HitsLockedOut = IdsOf(SummaryHits(p))
      BY <2>1, <2>2, <2>7, <2>10 DEF HitsLockedOut, IdsOf
    <3>2. lookup'.pc = "found" /\ lookup'.hits = lookup.hits /\ lookup'.reading = FALSE
      BY <2>1, <2>5, <2>10
    <3>3. /\ seen.always \ Excused \subseteq IdsOf(lookup.hits) \cup IdsOf(SummaryHits(p))
          /\ IdsOf(lookup.hits) \subseteq seen.ever
      BY <2>2, <2>10 DEF LookupInv
    <3>4. /\ seen'.always \ Excused' \subseteq IdsOf(lookup'.hits)
          /\ IdsOf(lookup'.hits) \subseteq seen'.ever
      BY <2>6, <3>1, <3>2, <3>3 DEF Excused
    <3>5. LookupMissesOnlyMoved'
      BY <3>4 DEF LookupMissesOnlyMoved, IdsOf, Excused
    <3> QED
      BY <2>1, <3>2, <3>5 DEF LookupInv
  <2> QED
    BY <1>3, <2>9, <2>10
<1> QED
  BY <1>2, <1>3 DEF QueryLockedOut

LEMMA LookupKeeps ==
    ASSUME JobInv, CveTablesInv, LookupInv, CveNext
    PROVE  LookupInv'
<1>1. WatchLookup
  BY DEF CveNext
<1>2. ASSUME NEW c \in Cves, NEW e \in Published[c], Publish(c, e) PROVE LookupInv'
  <2>1. UNCHANGED <<lookup, db>>
    BY <1>2 DEF Publish
  <2>2. View' = View
    BY <2>1 DEF View
  <2> QED
    BY <1>1, <2>1, <2>2, BesideLookup, LaterSelf DEF SameQuery, IsLookup, LookupInv
<1>3. CASE Setup
  BY <1>1, <1>3, SetupBesideLookup
<1>4. CASE Lookup
  BY <1>1, <1>4, OutsideKeeps, MatchKeeps, QueriesKeep, LockedOutKeeps DEF Lookup
<1> QED
  BY <1>2, <1>3, <1>4 DEF CveNext

-----------------------------------------------------------------------------
DataInv == JobInv /\ CveTablesInv /\ LookupInv

LEMMA InitData == CveInit => DataInv
<1> SUFFICES ASSUME CveInit PROVE DataInv
  OBVIOUS
<1>1. /\ nvd \in [Cves -> Entries] /\ modified = {} /\ files = {}
      /\ open = FALSE /\ job = IdleJob /\ lookup = IdleLookup /\ work = db
  BY CveConstants DEF CveInit
<1>2. JobInv
  BY <1>1, IdleJobType DEF JobInv
<1>3. SoundDb(ImportedDb)
  <2> DEFINE feed == FeedOf(Cves)
             cves == NewRows(feed)
             summaries == Fitting(setup_cve_summary_table(feed))
             cpes == Fitting(setup_cpe_table)
             all == cves \cup summaries \cup cpes
             sums == IF setup_cve_summary_table(feed) = {} THEN NoTable ELSE [exists |-> TRUE, rows |-> summaries]
             d == [EmptyDb EXCEPT !["cpe_table"] = [exists |-> TRUE, rows |-> cpes],
                                  !["cve_table"] = [exists |-> TRUE, rows |-> cves],
                                  !["summary_table"] = sums]
  <2>1. feed \in Feeds
    BY <1>1, FeedOfFeeds
  <2>2. SoundRows(cves) /\ SoundRows(summaries)
    BY <2>1, FeedRows, SoundFitting
  <2>3. ImportedDb = d
    BY DEF ImportedDb, NewRows
  <2> HIDE DEF feed, cves, summaries, cpes
  <2>4. EmptyDb \in DbOf(all)
    BY DEF EmptyDb, NoTable, DbOf
  <2>5. /\ sums \in [exists : BOOLEAN, rows : SUBSET all]
        /\ ~sums.exists => sums.rows = {}
        /\ SoundRows(sums.rows)
    BY <2>2 DEF NoTable, SoundRows
  <2> HIDE DEF sums
  <2>6. /\ d \in DbOf(all)
        /\ d["cpe_table"] = [exists |-> TRUE, rows |-> cpes]
        /\ d["cve_table"] = [exists |-> TRUE, rows |-> cves]
        /\ d["summary_table"] = sums
        /\ d["temp_feeds"] = EmptyDb["temp_feeds"] /\ d["temp_sum"] = EmptyDb["temp_sum"]
    BY <2>4, <2>5 DEF DbOf, Tables
  <2> HIDE DEF d
  <2>7. IsDb(d)
    BY <2>6, AnyRows
  <2>8. /\ EmptyDb["temp_feeds"].rows = {} /\ EmptyDb["temp_sum"].rows = {}
    BY DEF EmptyDb, NoTable, Tables
  <2>9. /\ \A t \in Tables : ~d[t].exists => d[t].rows = {}
        /\ \A t \in CveTables : SoundRows(d[t].rows)
    <3>1. /\ d["cpe_table"].exists /\ d["cve_table"].exists
          /\ d["cve_table"].rows = cves /\ d["summary_table"].rows = sums.rows
          /\ d["summary_table"].exists = sums.exists
          /\ d["temp_feeds"].rows = {} /\ d["temp_sum"].rows = {}
      BY <2>6, <2>8
    <3>2. SoundRows({})
      BY DEF SoundRows
    <3> QED
      BY <2>2, <2>5, <3>1, <3>2 DEF Tables, CveTables
  <2> QED
    BY <2>3, <2>7, <2>9 DEF SoundDb
<1>4. CveTablesInv
  <2>1. SoundDb(db)
    BY <1>3, EmptySound DEF CveInit
  <2> QED
    BY <1>1, <2>1, LaterSelf, IdleJobType, StatesDisjoint DEF CveTablesInv
<1>5. LookupInv
  BY <1>1, IdleLookupFacts DEF LookupInv, LookupMissesOnlyMoved, IsLookup
<1> QED
  BY <1>2, <1>4, <1>5 DEF DataInv

LEMMA NextData == DataInv /\ [CveNext]_cveVars => DataInv' /\ (~Unlink => KeepsData)
<1> SUFFICES ASSUME DataInv, [CveNext]_cveVars PROVE DataInv' /\ (~Unlink => KeepsData)
  OBVIOUS
<1>1. JobInv' /\ CveTablesInv' /\ (~Unlink => KeepsData)
  BY SetupKeeps, OtherKeeps DEF DataInv, CveNext
<1>2. CASE CveNext
  BY <1>1, <1>2, LookupKeeps DEF DataInv
<1>3. CASE UNCHANGED cveVars
  <2>1. LookupInv'
    BY <1>3 DEF cveVars, DataInv, LookupInv, IsLookup, LookupMissesOnlyMoved, Listed, TheProduct,
                View, SummaryHits, Excused
  <2> QED
    BY <1>1, <2>1 DEF DataInv
<1> QED
  BY <1>1, <1>2, <1>3

(***************************************************************************)
(* A lookup reports every CVE that the tables held for the product all the *)
(* time, with two exceptions: one that an update moved from the summaries  *)
(* to the feeds between the two queries, and one that a query would have   *)
(* found that was locked out and yields no rows (database_interface.py:    *)
(* 102-104).  It reports no CVE that they never held for the product       *)
(* (look_up_vulnerabilities; update_cve_summaries; get_cursor).            *)
(***************************************************************************)
THEOREM LookupsAreComplete == CveSpec => []LookupMissesOnlyMoved
<1>1. DataInv => LookupMissesOnlyMoved
  BY DEF DataInv, LookupInv
<1> QED
  BY <1>1, InitData, NextData, PTL DEF CveSpec

(***************************************************************************)
(* No step of an update or import, no kill, failed download or statement   *)
(* that was locked out makes a known CVE of a known year unknown; only a   *)
(* failed import, which removes the file, does (update_cve_feeds and       *)
(* update_cve_summaries delete before they insert).                        *)
(***************************************************************************)
THEOREM CvesStayKnown == CveSpec => KnownStaysKnown
<1>1. ASSUME DataInv, [CveNext]_cveVars
      PROVE  [~Unlink =>
                 \A c \in Ids(db["cve_table"]) \cup Ids(db["summary_table"]) :
                     YearOf[c] \in Years(db["cve_table"]) =>
                         c \in Ids(db'["cve_table"]) \cup Ids(db'["summary_table"])]_cveVars
  <2>1. ~Unlink => StillKnown(db, db')
    BY <1>1, NextData DEF KeepsData
  <2> QED
    BY <2>1 DEF StillKnown, Known
<1>2. CveSpec => []DataInv
  BY InitData, NextData, PTL DEF CveSpec
<1> QED
  BY <1>1, <1>2, PTL DEF CveSpec, KnownStaysKnown

-----------------------------------------------------------------------------
(* An undisturbed update                                                   *)

LEMMA SameProgress ==
    ASSUME NEW l, job'.pc = l, files' = files, job'.target = job.target, job'.feed = job.feed,
           job'.before = job.before, Progress(l, work')
    PROVE  Progress(job.pc, work)'
<1>1. Summaries' = Summaries
  BY DEF Summaries
<1>2. FeedsAgree(work)' <=> FeedsAgree(work')
  BY DEF FeedsAgree, RowsOf
<1>3. AgreesWithFeed(work)' <=> AgreesWithFeed(work')
  BY <1>1 DEF AgreesWithFeed, RowsOf
<1> QED
  BY <1>1, <1>2, <1>3 DEF Progress, Filled

LEMMA ProceedClean ==
    ASSUME JobInv, CleanInv, NEW l \in JobStates, Proceed(l), files' = files, job.pc # "idle",
           l \in ImportStates => ~job.update,
           Clean /\ ~Reading /\ ~open /\ Progress(job.pc, work) => ~open' /\ Progress(l, work')
    PROVE  CleanInv'
<1>1. /\ job'.pc = l /\ job'.clean = (job.clean /\ ~Reading)
      /\ job'.update = job.update /\ job'.target = job.target
      /\ job'.feed = job.feed /\ job'.before = job.before
  BY ProceedEffect
<1>2. job.clean \in BOOLEAN
  BY DEF JobInv, Jobs
<1>3. Clean' => Clean /\ ~Reading
  BY <1>1, <1>2 DEF Clean
<1>4. Progress(l, work') => Progress(job.pc, work)'
  BY <1>1, SameProgress
<1> QED
  BY <1>1, <1>3, <1>4 DEF CleanInv

LEMMA CleanDdl ==
    ASSUME NEW e, ExecuteDdl(e), ~Reading, ~open
    PROVE  work' = e /\ ~open'
  BY DEF ExecuteDdl

LEMMA CleanCommit ==
    ASSUME NEW e, ExecuteAndCommit(e), ~Reading
    PROVE  work' = e /\ ~open'
  BY DEF ExecuteAndCommit

(***************************************************************************)
(* The rows made of the feed of the run.                                   *)
(***************************************************************************)
LEMMA JobRows ==
    ASSUME JobInv
    PROVE  LET feed == job.feed IN
       /\ SoundRows(NewRows(feed))
       /\ SoundRows(setup_cve_summary_table(feed))
       /\ \A r \in NewRows(feed) : \E g \in feed :
              r.id = g.id /\ r \in NewRows({g})
       /\ \A g \in feed : NewRows({g}) \subseteq NewRows(feed)
       /\ \A g \in feed : \A r \in NewRows({g}) : r.id = g.id
       /\ \A r \in setup_cve_summary_table(feed) : \E g \in feed :
              r.id = g.id /\ r \in setup_cve_summary_table({g})
       /\ \A g \in feed :
              setup_cve_summary_table({g}) \subseteq setup_cve_summary_table(feed)
       /\ \A g \in feed : \A r \in setup_cve_summary_table({g}) : r.id = g.id
       /\ \A g \in feed :
              NewRows({g}) = {} \/ setup_cve_summary_table({g}) = {}
<1>1. job.feed \in Feeds
  BY DEF JobInv, Jobs
<1> QED
  BY <1>1, FeedRows

(***************************************************************************)
(* After update_cve_feeds, and after update_cve_summaries.                 *)
(***************************************************************************)
LEMMA FeedsAgreeAfterUpdate ==
    ASSUME JobInv, NEW d, SoundDb(d), UniqueFeed(job.feed), Years(d["cve_table"]) = job.before,
           d["temp_feeds"].rows = NewRows(job.feed)
    PROVE  FeedsAgree(update_cve_feeds(d))
<1> DEFINE e == update_cve_feeds(d)
           new == d["temp_feeds"].rows
<1>1. e["cve_table"].rows = Without(d["cve_table"].rows, Ids(d["temp_feeds"]))
                                \cup OfYears(new, job.before)
  BY UpdateFeedsEffect
<1> HIDE DEF e
<1> SUFFICES ASSUME NEW f \in job.feed, YearOf[f.id] \in job.before,
                    NewRows({f}) # {}
             PROVE  RowsOf(e, "cve_table", f.id) = NewRows({f})
  BY DEF FeedsAgree, e
<1>2. /\ SoundRows(new)
      /\ \A r \in new : \E g \in job.feed : r.id = g.id /\ r \in NewRows({g})
      /\ NewRows({f}) \subseteq new
      /\ \A r \in NewRows({f}) : r.id = f.id
  BY JobRows
<1>3. f.id \in Ids(d["temp_feeds"])
  BY <1>2 DEF Ids
<1>4. ASSUME NEW r \in RowsOf(e, "cve_table", f.id) PROVE r \in NewRows({f})
  <2>1. r \in new /\ r.id = f.id
    BY <1>1, <1>3 DEF RowsOf, Without, OfYears
  <2>2. PICK g \in job.feed : r.id = g.id /\ r \in NewRows({g})
    BY <1>2, <2>1
  <2>3. g = f
    BY <2>1, <2>2 DEF UniqueFeed
  <2> QED
    BY <2>2, <2>3
<1>5. ASSUME NEW r \in NewRows({f}) PROVE r \in RowsOf(e, "cve_table", f.id)
  <2>1. r \in new /\ r.id = f.id /\ r.year \in job.before
    BY <1>2 DEF SoundRows
  <2> QED
    BY <1>1, <2>1 DEF RowsOf, OfYears
<1> QED
  BY <1>4, <1>5

LEMMA AgreesAfterSummaries ==
    ASSUME JobInv, NEW d, SoundDb(d), UniqueFeed(job.feed), Years(d["cve_table"]) = job.before,
           d["temp_feeds"].rows = NewRows(job.feed),
           d["temp_sum"].rows = Summaries, d["summary_table"].exists, FeedsAgree(d)
    PROVE  AgreesWithFeed(update_cve_summaries(d))
<1> DEFINE e == update_cve_summaries(d)
           left == Without(d["summary_table"].rows,
                           Ids(d["temp_sum"]) \cup Ids(d["temp_feeds"]))
<1>1. /\ e["summary_table"].rows = left \cup OfYears(Summaries, job.before)
      /\ e["cve_table"].rows = Without(d["cve_table"].rows, Ids(d["temp_sum"]))
  BY UpdateSummariesEffect
<1> HIDE DEF e
<1> SUFFICES ASSUME NEW f \in job.feed, YearOf[f.id] \in job.before
             PROVE  /\ NewRows({f}) # {} =>
                           /\ RowsOf(e, "cve_table", f.id) = NewRows({f})
                           /\ RowsOf(e, "summary_table", f.id) = {}
                    /\ setup_cve_summary_table({f}) # {} =>
                           /\ RowsOf(e, "summary_table", f.id) = setup_cve_summary_table({f})
                           /\ RowsOf(e, "cve_table", f.id) = {}
  BY DEF AgreesWithFeed, e
<1>2. /\ SoundRows(Summaries)
      /\ \A r \in Summaries : \E g \in job.feed : r.id = g.id /\ r \in setup_cve_summary_table({g})
      /\ setup_cve_summary_table({f}) \subseteq Summaries
      /\ \A r \in setup_cve_summary_table({f}) : r.id = f.id
      /\ NewRows({f}) \subseteq d["temp_feeds"].rows
      /\ \A r \in NewRows({f}) : r.id = f.id
      /\ NewRows({f}) = {} \/ setup_cve_summary_table({f}) = {}
  BY JobRows DEF Summaries
<1>3. \A r \in Summaries : r.id = f.id => r \in setup_cve_summary_table({f})
  BY <1>2 DEF UniqueFeed
<1>4. CASE NewRows({f}) # {}
  <2>1. f.id \in Ids(d["temp_feeds"])
    BY <1>2, <1>4 DEF Ids
  <2>2. f.id \notin Ids(d["temp_sum"])
    BY <1>2, <1>3, <1>4 DEF Ids
  <2>3. RowsOf(d, "cve_table", f.id) = NewRows({f})
    BY <1>4 DEF FeedsAgree
  <2>4. RowsOf(e, "cve_table", f.id) = RowsOf(d, "cve_table", f.id)
    BY <1>1, <2>2 DEF RowsOf, Without
  <2>5. RowsOf(e, "summary_table", f.id) = {}
    BY <1>1, <1>2, <1>3, <1>4, <2>1 DEF RowsOf, Without, OfYears
  <2> QED
    BY <1>2, <1>4, <2>3, <2>4, <2>5
<1>5. CASE setup_cve_summary_table({f}) # {}
  <2>1. f.id \in Ids(d["temp_sum"])
    BY <1>2, <1>5 DEF Ids
  <2>2. RowsOf(e, "cve_table", f.id) = {}
    BY <1>1, <2>1 DEF RowsOf, Without
  <2>3. \A r \in setup_cve_summary_table({f}) : r \in OfYears(Summaries, job.before)
    BY <1>2 DEF SoundRows, OfYears
  <2>4. \A r \in RowsOf(e, "summary_table", f.id) : r \in Summaries /\ r.id = f.id
    BY <1>1, <2>1 DEF RowsOf, Without, OfYears
  <2>5. RowsOf(e, "summary_table", f.id) = setup_cve_summary_table({f})
    BY <1>1, <1>2, <1>3, <2>3, <2>4 DEF RowsOf
  <2> QED
    BY <1>2, <1>5, <2>2, <2>5
<1> QED
  BY <1>4, <1>5

LEMMA NoSummaryAgrees ==
    ASSUME JobInv, NEW d, FeedsAgree(d), Summaries = {}
    PROVE  AgreesWithFeed(d)
<1>1. \A f \in job.feed : setup_cve_summary_table({f}) = {}
  BY FeedRows DEF JobInv, Jobs, Summaries
<1> QED
  BY <1>1 DEF AgreesWithFeed, FeedsAgree

LEMMA SameAgreement ==
    ASSUME NEW d, NEW e, d["cve_table"].rows = e["cve_table"].rows
    PROVE  /\ FeedsAgree(d) => FeedsAgree(e)
           /\ AgreesWithFeed(d) /\ d["summary_table"].rows = e["summary_table"].rows =>
                  AgreesWithFeed(e)
  BY DEF FeedsAgree, AgreesWithFeed, RowsOf

-----------------------------------------------------------------------------
LEMMA StartClean ==
    ASSUME JobInv, CveTablesInv, NEW refresh \in BOOLEAN, NEW target \in Targets,
           NEW years \in StartYears \cup {{}}, Start(refresh, target, years)
    PROVE  CleanInv'
<1> DEFINE pc == CASE ~cpe_was_chosen(target) -> "cve" [] OTHER -> "cpe"
           clean == ~work["temp_feeds"].exists /\ ~work["temp_sum"].exists /\ files = {}
           before == Years(db["cve_table"])
<1>1. job' = [IdleJob EXCEPT !.pc = pc, !.update = refresh, !.target = target,
                             !.years = years, !.clean = clean, !.before = before]
  BY DEF Start
<1>2. pc \in {"cve", "cpe"}
  OBVIOUS
<1>3. UNCHANGED <<db, work, open, files>> /\ ~open /\ work = db
  BY DEF Start, At, CveTablesInv
<1> HIDE DEF pc
<1>4. job'.pc = pc /\ job'.clean = clean /\ job'.before = before
  BY <1>1 DEF IdleJob
<1>5. /\ {"cve", "cpe"} \subseteq CpeStates
      /\ {"cve", "cpe"} \cap (ImportStates \cup FeedStates \cup SummaryStates) = {}
  BY DEF CpeStates, ImportStates, FeedStates, SummaryStates
<1>6. clean => Progress(pc, work)'
  BY <1>2, <1>3, <1>4, <1>5 DEF Progress
<1> QED
  BY <1>2, <1>3, <1>4, <1>5, <1>6 DEF CleanInv, Clean

LEMMA CpeClean ==
    ASSUME JobInv, CveTablesInv, CleanInv, CheckCpe \/ DropCpe \/ CreateCpe \/ InsertCpe
    PROVE  CleanInv'
<1>1. SoundDb(work) /\ "cpe_table" \in Tables /\ "cpe_table" \notin CveTables
  BY DEF CveTablesInv, Tables, CveTables
<1>2. /\ {"cpe", "cve", "drop_cpe", "create_cpe", "insert_cpe", "failed", "done"} \subseteq JobStates
      /\ {"cpe", "cve", "drop_cpe", "create_cpe", "insert_cpe"} \subseteq CpeStates
      /\ {"cpe", "cve", "drop_cpe", "create_cpe", "insert_cpe", "failed", "done"}
             \cap (ImportStates \cup FeedStates \cup SummaryStates) = {}
      /\ "failed" \notin CpeStates /\ "done" \notin CpeStates
  BY DEF JobStates, CpeStates, LateStates, ImportStates, FeedStates, SummaryStates
<1>3. /\ job.pc \in CpeStates /\ job.pc # "idle" /\ files' = files
      /\ job.pc \notin ImportStates
  BY <1>2 DEF CheckCpe, DropCpe, CreateCpe, InsertCpe, At
<1>4. ASSUME Progress(job.pc, work), NEW e,
             e["cve_table"] = work["cve_table"], e["temp_feeds"] = work["temp_feeds"],
             e["temp_sum"] = work["temp_sum"]
      PROVE  /\ Years(e["cve_table"]) = job.before
             /\ ~e["temp_feeds"].exists /\ ~e["temp_sum"].exists /\ files = {}
  BY <1>3, <1>4 DEF Progress
<1>5. CASE CheckCpe
  <2>1. PICK l \in {"failed", "drop_cpe", "create_cpe"} : Proceed(l)
    BY <1>5 DEF CheckCpe
  <2>2. work' = work /\ open' = open
    BY <1>5 DEF CheckCpe
  <2>3. Progress(job.pc, work) => Progress(l, work)
    BY <2>1, <1>2, <1>4 DEF Progress
  <2> QED
    BY <2>1, <2>2, <2>3, <1>2, <1>3, ProceedClean
<1>6. CASE DropCpe
  <2> DEFINE e == drop_table(work, "cpe_table")
  <2>1. ExecuteDdl(e) /\ Proceed("create_cpe")
    BY <1>6 DEF DropCpe
  <2>2. \A u \in Tables \ {"cpe_table"} : e[u] = work[u]
    BY <1>1, DropEffect
  <2> HIDE DEF e
  <2>3. Progress(job.pc, work) => Progress("create_cpe", e)
    BY <2>2, <1>2, <1>4 DEF Progress, Tables
  <2> QED
    BY <2>1, <2>3, <1>2, <1>3, ProceedClean, CleanDdl
<1>7. CASE CreateCpe
  <2> DEFINE e == create(work, "cpe_table")
  <2>1. ExecuteDdl(e) /\ Proceed("insert_cpe")
    BY <1>7 DEF CreateCpe
  <2>2. e["cpe_table"].exists /\ \A u \in Tables \ {"cpe_table"} : e[u] = work[u]
    BY <1>1, CreateEffect
  <2> HIDE DEF e
  <2>3. Progress(job.pc, work) => Progress("insert_cpe", e)
    BY <2>2, <1>2, <1>4 DEF Progress, Tables
  <2> QED
    BY <2>1, <2>3, <1>2, <1>3, ProceedClean, CleanDdl
<1>8. CASE InsertCpe
  <2> DEFINE e == insert_into(work, "cpe_table", setup_cpe_table)
             l == IF cve_was_chosen(job.target) THEN "cve" ELSE "done"
  <2>1. /\ Proceed(l) /\ job.pc = "insert_cpe"
        /\ work["cpe_table"].exists => ExecuteAndCommit(e)
    BY <1>8 DEF InsertCpe, At
  <2>2. \A u \in Tables \ {"cpe_table"} : e[u] = work[u]
    BY <1>1, InsertEffect
  <2> HIDE DEF e
  <2>3. Progress(job.pc, work) => work["cpe_table"].exists /\ Progress(l, e)
    <3>1. CASE cve_was_chosen(job.target)
      BY <2>1, <2>2, <3>1, <1>2, <1>4 DEF Progress, Tables
    <3>2. CASE ~cve_was_chosen(job.target)
      BY <2>1, <3>2, <1>2 DEF Progress
    <3> QED
      BY <3>1, <3>2
  <2>4. l \in JobStates /\ l \notin ImportStates
    BY <1>2
  <2> HIDE DEF l
  <2> QED
    BY <2>1, <2>3, <2>4, <1>3, ProceedClean, CleanCommit
<1> QED
  BY <1>5, <1>6, <1>7, <1>8

LEMMA DownloadClean ==
    ASSUME JobInv, CveTablesInv, CleanInv,
           DownloadModified \/ DownloadYears \/ NoCveTable \/ DownloadFails
    PROVE  CleanInv'
<1>1. CASE DownloadModified
  <2> DEFINE new == [name |-> "modified", feed |-> FeedOf(modified)]
  <2>1. /\ job.pc = "cve" /\ job.update /\ work["cve_table"].exists /\ UNCHANGED <<work, open>>
        /\ files' = {f \in files : f.name # "modified"} \cup {new}
    BY <1>1 DEF DownloadModified, At, table_exists
  <2>2. PICK f \in files' : job' = [job EXCEPT !.pc = "temp_feeds", !.feed = f.feed]
    BY <1>1 DEF DownloadModified
  <2>3. new.feed = FeedOf(modified)
    OBVIOUS
  <2> HIDE DEF new
  <2>4. /\ job'.pc = "temp_feeds" /\ job'.feed = f.feed /\ job'.clean = job.clean
        /\ job'.update = job.update /\ job'.before = job.before
    BY <2>2 DEF JobInv, Jobs
  <2>5. Clean' => Clean /\ ~open /\ Progress("cve", work)
    BY <2>1, <2>4 DEF Clean, CleanInv
  <2>6. ASSUME Progress("cve", work) PROVE Progress("temp_feeds", work)'
    <3>1. /\ Years(work["cve_table"]) = job.before
          /\ ~work["temp_feeds"].exists /\ ~work["temp_sum"].exists /\ files = {}
      BY <2>6 DEF Progress, CpeStates
    <3>2. f = new
      BY <2>1, <3>1
    <3>3. UniqueFeed(job'.feed)
      BY <2>3, <2>4, <3>2, FeedOfFeeds DEF JobInv
    <3>4. "temp_feeds" \in FeedStates /\ "temp_feeds" \notin CpeStates \cup SummaryStates
      BY DEF FeedStates, CpeStates, SummaryStates
    <3> QED
      BY <2>1, <2>4, <3>1, <3>3, <3>4 DEF Progress
  <2> QED
    BY <2>1, <2>4, <2>5, <2>6 DEF CleanInv, ImportStates
<1>2. CASE DownloadYears
  <2>1. ~job.update
    BY <1>2 DEF DownloadYears
  <2>2. job' = [job EXCEPT !.pc = "create_cve", !.feed = UNION {f.feed : f \in files'}]
    BY <1>2 DEF DownloadYears
  <2>3. ~job'.update
    BY <2>1, <2>2 DEF JobInv, Jobs
  <2> QED
    BY <2>3 DEF CleanInv, Clean
<1>3. CASE NoCveTable \/ DownloadFails
  <2>1. Proceed("failed") /\ files' = files /\ work' = work /\ open' = open /\ job.pc # "idle"
    BY <1>3 DEF NoCveTable, DownloadFails, At
  <2>2. Progress("failed", work)
    BY DEF Progress, CpeStates, FeedStates, SummaryStates
  <2>3. "failed" \in JobStates /\ "failed" \notin ImportStates
    BY DEF JobStates, LateStates, ImportStates
  <2> QED
    BY <2>1, <2>2, <2>3, ProceedClean
<1> QED
  BY <1>1, <1>2, <1>3

LEMMA ImportClean ==
    ASSUME JobInv, CleanInv, ImportCve
    PROVE  CleanInv'
<1>1. job.pc \in ImportStates
  BY DEF ImportCve, CreateTable, InsertRows, At, ImportStates
<1>2. PICK l \in ImportStates \cup {"done"} : Proceed(l)
  BY DEF ImportCve, CreateTable, InsertRows, ImportStates
<1>3. ~job'.update
  BY <1>1, <1>2, ProceedEffect DEF CleanInv, JobStates, LateStates
<1> QED
  BY <1>3 DEF CleanInv, Clean

LEMMA UpdateClean ==
    ASSUME JobInv, CveTablesInv, CleanInv, UpdateCve
    PROVE  CleanInv'
<1>1. /\ SoundDb(work)
      /\ {"cve_table", "summary_table", "temp_feeds", "temp_sum"} \subseteq CveTables
      /\ {"cve_table", "summary_table", "temp_feeds", "temp_sum"} \subseteq Tables
  BY DEF CveTablesInv, Tables, CveTables
<1>2. /\ {"temp_feeds", "fill_feeds", "update_feeds"} \subseteq FeedStates
      /\ {"temp_sum", "fill_sum", "need_summaries", "update_summaries"} \subseteq SummaryStates
      /\ {"drop_sum", "drop_feeds", "done"} \cap
             (CpeStates \cup FeedStates \cup SummaryStates \cup ImportStates) = {}
      /\ (FeedStates \cup SummaryStates) \cap (CpeStates \cup ImportStates) = {}
      /\ FeedStates \cap SummaryStates = {}
      /\ "drop_sum" \in JobStates /\ "drop_feeds" \in JobStates /\ "done" \in JobStates
      /\ FeedStates \cup SummaryStates \subseteq JobStates
  BY DEF FeedStates, SummaryStates, CpeStates, ImportStates, JobStates, LateStates
<1>3. files' = files /\ job.pc # "idle"
  BY DEF UpdateCve, CreateTable, InsertRows, UpdateCveFeeds, CreateSummaries,
         UpdateCveSummaries, DropTable, At
<1>4. SoundRows(NewRows(job.feed)) /\ SoundRows(Summaries) /\ Fitting(Summaries) = Summaries
  BY JobRows, SoundFitting DEF Summaries
<1>5. CASE CreateTable("temp_feeds", "temp_feeds", "fill_feeds")
  <2> DEFINE e == create(work, "temp_feeds")
  <2>1. job.pc = "temp_feeds" /\ ExecuteDdl(e) /\ Proceed("fill_feeds")
    BY <1>5 DEF CreateTable, At
  <2>2. /\ e["temp_feeds"].exists /\ e["temp_feeds"].rows = work["temp_feeds"].rows
        /\ \A u \in Tables \ {"temp_feeds"} : e[u] = work[u]
        /\ ~work["temp_feeds"].exists => work["temp_feeds"].rows = {}
    BY <1>1, CreateEffect DEF SoundDb
  <2> HIDE DEF e
  <2>3. Progress("temp_feeds", work) => Progress("fill_feeds", e)
    BY <2>2, <1>1, <1>2 DEF Progress, Filled
  <2> QED
    BY <2>1, <2>3, <1>2, <1>3, ProceedClean, CleanDdl
<1>6. CASE InsertRows("fill_feeds", "temp_feeds", setup_cve_feeds_table(job.feed), "update_feeds")
  <2> DEFINE rows == NewRows(job.feed)
             e == insert_into(work, "temp_feeds", setup_cve_feeds_table(job.feed))
  <2>1. /\ job.pc = "fill_feeds" /\ Proceed("update_feeds")
        /\ work["temp_feeds"].exists => ExecuteAndCommit(e)
    BY <1>6 DEF InsertRows, At
  <2>2. /\ e["temp_feeds"].exists = work["temp_feeds"].exists
        /\ work["temp_feeds"].exists => e["temp_feeds"].rows = work["temp_feeds"].rows \cup rows
        /\ \A u \in Tables \ {"temp_feeds"} : e[u] = work[u]
    <3>1. "temp_feeds" \in Tables /\ SoundDb(work)
      BY <1>1
    <3>2. rows = Fitting(setup_cve_feeds_table(job.feed)) /\ SoundRows(rows)
      BY <1>4 DEF NewRows
    <3> QED
      BY <3>1, <3>2, InsertEffect
  <2> HIDE DEF e
  <2>3. Progress("fill_feeds", work) => work["temp_feeds"].exists /\ Progress("update_feeds", e)
    BY <2>2, <1>1, <1>2 DEF Progress, Filled
  <2> QED
    BY <2>1, <2>3, <1>2, <1>3, ProceedClean, CleanCommit
<1>7. CASE UpdateCveFeeds
  <2> DEFINE e == update_cve_feeds(work)
             l == IF Summaries = {} THEN "drop_feeds" ELSE "temp_sum"
  <2>1. job.pc = "update_feeds" /\ Proceed(l) /\ ExecuteAndCommit(e)
    BY <1>7 DEF UpdateCveFeeds, At
  <2>2. /\ e["cve_table"].exists = work["cve_table"].exists
        /\ \A u \in Tables \ {"cve_table"} : e[u] = work[u]
        /\ Years(e["cve_table"]) = Years(work["cve_table"])
    BY <1>1, UpdateFeedsEffect
  <2>3. Progress("update_feeds", work) => FeedsAgree(e)
    BY <1>1, <1>2, FeedsAgreeAfterUpdate DEF Progress, Filled
  <2> HIDE DEF e
  <2>4. ASSUME Progress("update_feeds", work) PROVE Progress(l, e)
    <3>1. CASE Summaries = {}
      <4>1. AgreesWithFeed(e)
        BY <2>3, <2>4, <3>1, NoSummaryAgrees
      <4> QED
        BY <3>1, <4>1, <1>2 DEF Progress
    <3>2. CASE Summaries # {}
      BY <2>2, <2>3, <2>4, <3>2, <1>1, <1>2 DEF Progress, Filled
    <3> QED
      BY <3>1, <3>2
  <2>5. l \in JobStates /\ l \notin ImportStates
    BY <1>2
  <2> HIDE DEF l
  <2> QED
    BY <2>1, <2>4, <2>5, <1>3, ProceedClean, CleanCommit
<1>8. CASE CreateTable("temp_sum", "temp_sum", "fill_sum")
  <2> DEFINE e == create(work, "temp_sum")
  <2>1. job.pc = "temp_sum" /\ ExecuteDdl(e) /\ Proceed("fill_sum")
    BY <1>8 DEF CreateTable, At
  <2>2. /\ e["temp_sum"].exists /\ e["temp_sum"].rows = work["temp_sum"].rows
        /\ \A u \in Tables \ {"temp_sum"} : e[u] = work[u]
        /\ ~work["temp_sum"].exists => work["temp_sum"].rows = {}
    BY <1>1, CreateEffect DEF SoundDb
  <2> HIDE DEF e
  <2>3. FeedsAgree(work) => FeedsAgree(e)
    BY <2>2, <1>1, SameAgreement
  <2>4. Progress("temp_sum", work) => Progress("fill_sum", e)
    BY <2>2, <2>3, <1>1, <1>2 DEF Progress, Filled
  <2> QED
    BY <2>1, <2>4, <1>2, <1>3, ProceedClean, CleanDdl
<1>9. CASE InsertRows("fill_sum", "temp_sum", Summaries, "need_summaries")
  <2> DEFINE e == insert_into(work, "temp_sum", Summaries)
  <2>1. /\ job.pc = "fill_sum" /\ Proceed("need_summaries")
        /\ work["temp_sum"].exists => ExecuteAndCommit(e)
    BY <1>9 DEF InsertRows, At
  <2>2. /\ e["temp_sum"].exists = work["temp_sum"].exists
        /\ work["temp_sum"].exists => e["temp_sum"].rows = work["temp_sum"].rows \cup Summaries
        /\ \A u \in Tables \ {"temp_sum"} : e[u] = work[u]
    <3>1. "temp_sum" \in Tables /\ SoundDb(work)
      BY <1>1
    <3>2. SoundRows(Fitting(Summaries)) /\ Fitting(Summaries) = Summaries
      BY <1>4
    <3> QED
      BY <3>1, <3>2, InsertEffect
  <2> HIDE DEF e
  <2>3. FeedsAgree(work) => FeedsAgree(e)
    BY <2>2, <1>1, SameAgreement
  <2>4. Progress("fill_sum", work) => work["temp_sum"].exists /\ Progress("need_summaries", e)
    BY <2>2, <2>3, <1>1, <1>2 DEF Progress, Filled
  <2> QED
    BY <2>1, <2>4, <1>2, <1>3, ProceedClean, CleanCommit
<1>10. CASE CreateSummaries
  <2> DEFINE e == create(work, "summary_table")
  <2>1. /\ job.pc = "need_summaries" /\ Proceed("update_summaries")
        /\ \/ work["summary_table"].exists /\ UNCHANGED <<work, open>>
           \/ ExecuteDdl(e)
    BY <1>10 DEF CreateSummaries, At, table_exists, dbVars
  <2>2. /\ e["summary_table"].exists
        /\ \A u \in Tables \ {"summary_table"} : e[u] = work[u]
    BY <1>1, CreateEffect
  <2> HIDE DEF e
  <2>3. FeedsAgree(work) => FeedsAgree(e)
    BY <2>2, <1>1, SameAgreement
  <2>4. /\ Progress("need_summaries", work) => Progress("update_summaries", e)
        /\ Progress("need_summaries", work) /\ work["summary_table"].exists =>
               Progress("update_summaries", work)
    BY <2>2, <2>3, <1>1, <1>2 DEF Progress, Filled
  <2> QED
    BY <2>1, <2>4, <1>2, <1>3, ProceedClean, CleanDdl
<1>11. CASE UpdateCveSummaries
  <2> DEFINE e == update_cve_summaries(work)
  <2>1. /\ job.pc = "update_summaries" /\ Proceed("drop_sum")
        /\ work["summary_table"].exists => ExecuteAndCommit(e)
    BY <1>11 DEF UpdateCveSummaries, At
  <2>2. Progress("update_summaries", work) => work["summary_table"].exists /\ AgreesWithFeed(e)
    BY <1>1, <1>2, AgreesAfterSummaries DEF Progress, Filled
  <2> HIDE DEF e
  <2>3. AgreesWithFeed(e) => Progress("drop_sum", e)
    BY <1>2 DEF Progress
  <2> QED
    BY <2>1, <2>2, <2>3, <1>2, <1>3, ProceedClean, CleanCommit
<1>12. ASSUME NEW pc \in {"drop_sum", "drop_feeds"}, NEW t \in {"temp_sum", "temp_feeds"},
              NEW l \in {"drop_feeds", "done"}, DropTable(pc, t, l)
       PROVE  CleanInv'
  <2> DEFINE e == drop_table(work, t)
  <2>1. job.pc = pc /\ ExecuteDdl(e) /\ Proceed(l)
    BY <1>12 DEF DropTable, At
  <2>2. \A u \in Tables \ {t} : e[u] = work[u]
    BY <1>1, DropEffect
  <2> HIDE DEF e
  <2>3. AgreesWithFeed(work) => AgreesWithFeed(e)
    BY <2>2, <1>1, SameAgreement
  <2>4. Progress(pc, work) => Progress(l, e)
    BY <2>3, <1>2 DEF Progress
  <2> QED
    BY <2>1, <2>4, <1>2, <1>3, ProceedClean, CleanDdl
<1> QED
  BY <1>5, <1>6, <1>7, <1>8, <1>9, <1>10, <1>11, <1>12 DEF UpdateCve

-----------------------------------------------------------------------------
CveIInv == DataInv /\ CleanInv

LEMMA NextClean == CveIInv /\ [CveNext]_cveVars => CleanInv'
<1> SUFFICES ASSUME CveIInv, [CveNext]_cveVars PROVE CleanInv'
  OBVIOUS
<1>1. JobInv /\ CveTablesInv /\ CleanInv
  BY DEF CveIInv, DataInv
<1>2. CASE Lookup \/ (\E c \in Cves : \E e \in Published[c] : Publish(c, e)) \/ UNCHANGED cveVars
  <2>1. UNCHANGED <<work, open, files, job>>
    BY <1>2 DEF Lookup, BeginAnalysis, BeginLookup, QueryLockedOut, MatchCpe, SearchCve, SearchedCve,
                SearchCveSummary, SearchedSummary, KeepResult, CreateSummary, Publish, cveVars
  <2>2. PICK l : l = job.pc
    OBVIOUS
  <2>3. Progress(job.pc, work) => Progress(job.pc, work)'
    BY <2>1, <2>2, SameProgress
  <2> QED
    BY <1>1, <2>1, <2>3 DEF CleanInv, Clean
<1>3. CASE \E target \in Targets : \/ Start(TRUE, target, {})
                                   \/ \E years \in StartYears : Start(FALSE, target, years)
  BY <1>1, <1>3, StartClean
<1>4. CASE Finish \/ ExitFailed \/ Crash
  <2>1. job'.pc = "idle"
    BY <1>4, IdleJobType DEF Finish, ExitFailed, Crash
  <2> QED
    BY <2>1, StatesDisjoint DEF CleanInv, Clean
<1> QED
  BY <1>1, <1>2, <1>3, <1>4, CpeClean, DownloadClean, ImportClean, UpdateClean DEF CveNext, Setup

(***************************************************************************)
(* What an update of the CVEs that nothing disturbed leaves in the tables  *)
(* about a CVE of the feed is what the feed says, in one of the two        *)
(* tables, without the rows that insert_rows leaves out and but for the    *)
(* two exceptions the property names (update_cve_repository).              *)
(***************************************************************************)
THEOREM UpdatesAgree == CveSpec => []UpdateAgreesWithFeed
<1>1. CveInit => CveIInv
  <2> SUFFICES ASSUME CveInit PROVE CleanInv
    BY InitData DEF CveIInv
  <2>1. job.pc = "idle"
    BY IdleJobType DEF CveInit
  <2> QED
    BY <2>1, StatesDisjoint DEF CleanInv, Clean
<1>2. CveIInv /\ [CveNext]_cveVars => CveIInv'
  BY NextData, NextClean DEF CveIInv
<1>3. CveIInv => UpdateAgreesWithFeed
  <2> SUFFICES ASSUME CveIInv, job.pc = "done", job.update, cve_was_chosen(job.target), job.clean
               PROVE  AgreesWithFeed(db)
    BY DEF UpdateAgreesWithFeed, AgreesWithFeed, RowsOf, NewRows, At
  <2>1. ~open /\ AgreesWithFeed(work)
    BY DEF CveIInv, CleanInv, Clean, Progress
  <2> QED
    BY <2>1 DEF CveIInv, DataInv, CveTablesInv
<1> QED
  BY <1>1, <1>2, <1>3, PTL DEF CveSpec
=============================================================================
