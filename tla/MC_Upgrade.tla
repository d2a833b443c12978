----------------------------- MODULE MC_Upgrade -----------------------------
(***************************************************************************)
(* An installation is brought to this version, and one is started and      *)
(* stopped: two systems that share nothing, a behaviour is one of the one  *)
(* or of the other.                                                        *)
(*                                                                         *)
(* Upgrade: two firmware images, a container and a file in every           *)
(* arrangement, and analyses that need every conversion there is; in some, *)
(* one analysis has a value that nobody knows how to convert.              *)
(* Startup: all components or those of one host.                           *)
(***************************************************************************)
EXTENDS Upgrade, Startup, TLC

CONSTANTS fw1, fw2, box, file

VARIABLE system      \* "upgrade" or "startup"

allVars == <<system, upgradeVars, startupVars>>

\* The system that a behaviour is not about stays as it is.
MCInit ==
    /\ system \in {"upgrade", "startup"}
    /\ UpgradeInit
    /\ StartupInit
    /\ system = "upgrade" => /\ installed = Components
                             /\ opts = [testing |-> FALSE, no_radare |-> FALSE]
                             /\ postgres
    /\ system = "startup" => /\ mongo = CHOOSE m \in MongoContents : TRUE
                             /\ userDb.user.columns = "new"

MCNext ==
    \/ system = "upgrade" /\ UpgradeNext /\ UNCHANGED <<system, startupVars>>
    \/ system = "startup" /\ StartupNext /\ UNCHANGED <<system, upgradeVars>>

\* The starter is scheduled, and its timers expire.
MCSpec ==
    /\ MCInit /\ [][MCNext]_allVars
    /\ WF_allVars(system = "startup" /\ StarterStep /\ UNCHANGED <<system, upgradeVars>>)

Value(type, in, key, utf8) == [type |-> type, in |-> in, key |-> key, utf8 |-> utf8]
Analysis(plugin, flag, inGridFs, complete, values) ==
    [plugin |-> plugin, flag |-> flag, inGridFs |-> inGridFs, complete |-> complete,
     values |-> values]

Graph == Value("bytes", "dict", "entropy_analysis_graph", FALSE)
Nul   == Value("nul", "list", "strings", TRUE)
Bytes == Value("bytes", "dict", "password", FALSE)
Other == Value("bytes", "dict", "other", FALSE)

GoodAnalyses ==
    (fw1 :> {Analysis("unpacker", "stored", TRUE, TRUE, {Graph})})
    @@ (fw2 :> {Analysis("cpu_architecture", "missing", FALSE, FALSE, {Nul})})
    @@ (box :> {Analysis("users_and_passwords", "inline", FALSE, TRUE, {Bytes}),
                Analysis("qemu_exec", "stored", FALSE, TRUE, {Other})})
    @@ (file :> {})

\* The same data with a value that nobody knows how to convert.
BadAnalyses == [GoodAnalyses EXCEPT ![file] = {Analysis("new", "inline", FALSE, TRUE, {Other})}]

Mongo(firmwares, fileObjects, included, analyses) ==
    [firmwares |-> firmwares, fileObjects |-> fileObjects, included |-> included,
     analyses |-> analyses, comparisons |-> {{fw1, fw2}, {fw1, box}}]

MCMongoContents ==
    {Mongo({fw1, fw2}, {box, file},
           (fw1 :> a) @@ (fw2 :> b) @@ (box :> c) @@ (file :> {}), analyses) :
        a, b \in SUBSET {box, file}, c \in SUBSET {file}, analyses \in {GoodAnalyses, BadAnalyses}}
=============================================================================
