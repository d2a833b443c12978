------------------------ MODULE MC_AnalysisScheduler ------------------------
(***************************************************************************)
(* A firmware image fw that includes a file or two, and plugins with the   *)
(* dependencies of file_type, software_components <- kernel_config (and of *)
(* cpu_architecture, for an upload).  The tasks and the state of the       *)
(* database differ from run to run.                                        *)
(***************************************************************************)
EXTENDS AnalysisScheduler, TLC

CONSTANTS fw, file, file2, t1, t2, t3, t4, file_type, software, kernel,
          architecture, gone

MCObjects == {fw, file}
UploadObjects == {fw, file, file2}
MCParents == [u \in Objects |-> IF u = fw THEN {} ELSE {fw}]

MCPlugins == {file_type, software, kernel}
MCDependencies ==
    (file_type :> {}) @@ (software :> {}) @@ (kernel :> {file_type, software})

\* A chain: what needs a plugin that waits for another one that may fail.
UploadPlugins == MCPlugins \cup {architecture}
UploadDependencies == (architecture :> {file_type, kernel}) @@ MCDependencies

\* VERSION and SYSTEM_VERSION of the loaded plugins.
MCVersion == [p \in Plugins |-> 2]
SoftwareSystemVersion == [p \in Plugins |-> IF p = software THEN 2 ELSE 0]

NothingStored == [u \in Objects |-> [p \in Plugins |-> Absent]]
OldResult == [result |-> "ok", version |-> 1, system |-> 0, date |-> 1]
CurrentResult == [OldResult EXCEPT !.version = 2]
\* The file types are known, and there are results of an earlier version of
\* software, with an earlier system version.
SoftwareOutdated ==
    [u \in Objects |-> [p \in Plugins |->
        CASE p = file_type -> CurrentResult
          [] p = software -> OldResult
          [] OTHER -> Absent]]

Task(uid, entry, plugins, forced, after) ==
    [uid |-> uid, entry |-> entry, plugins |-> plugins, forced |-> forced,
     after |-> after]

\* The upload of a firmware image: the image, then the files it includes.
Upload(plugins) ==
    (t1 :> Task(fw, "start", plugins, FALSE, {})) @@
    (t2 :> Task(file, "start", plugins, FALSE, {t1})) @@
    (t3 :> Task(file2, "start", plugins, FALSE, {t1}))
UploadArchitecture == Upload(<<architecture>>)

\* An update of the image, which names a plugin nobody loaded, and of its file,
\* and a forced update of the file alone.
Updates ==
    (t1 :> Task(fw, "update", <<kernel, software, file_type>>, FALSE, {})) @@
    (t2 :> Task(file, "child", << >>, FALSE, {t1})) @@
    (t3 :> Task(file, "single", <<kernel>>, TRUE, {})) @@
    (t4 :> Task(fw, "update", <<gone, software, file_type>>, FALSE, {t1, t2, t3}))
FaultyNames == Plugins \cup {gone}

FileFiltered == {<<file, software>>}
============================================================================
