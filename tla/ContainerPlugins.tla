-------------------------- MODULE ContainerPlugins --------------------------
(***************************************************************************)
(* The plugins that run containers on a file: software_components,         *)
(* known_vulnerabilities, file_system_metadata and qemu_exec, one after    *)
(* the other in the processes their workers start, each with a temporary   *)
(* directory that its containers mount.  qemu_exec runs one container for  *)
(* every executable and architecture, in threads that share a dictionary.  *)
(*                                                                         *)
(* The worker kills a process that exceeds its TIMEOUT: what it started    *)
(* and created stays.  A container that cannot be stopped stays as well.   *)
(* Docker, yara, ghidra and the programs that are run are external: their  *)
(* outcomes are chosen.                                                    *)
(***************************************************************************)
EXTENDS PluginRules, TLC

CONSTANTS
    Inputs,          \* the files: [mime, included, onDisk, fresh, unpackedFrom,
                     \*   parents, yara, sha256, executables]
    UidOf,           \* the content of the executable at a path
    FullTypeOf,      \* the names of architectures in the type of a path
    Outputs,         \* what a container of qemu_exec may print
    Resolved,        \* the sets of versions ghidra may resolve
    Metadata,        \* the lists of files a file system or archive may hold
    OsList,          \* the components that are operating systems
    HeartbleedVersions,
    NetgearSha256,
    MaxKills,        \* bound: processes that exceed their TIMEOUT
    MaxLeft,         \* bound: a stop fails only while fewer containers are left
    MaxRaised        \* bound: jobs of qemu_exec that raise

max_workers == 8

Plugins == {"software_components", "known_vulnerabilities", "file_system_metadata", "qemu_exec"}

Dependencies(p) == IF p = "known_vulnerabilities" THEN {"software_components"} ELSE {}

VARIABLES
    input,           \* the file
    pa,              \* its processed_analysis
    proc,            \* the process: [plugin, pc]
    jobs,            \* the jobs of qemu_exec in the order of their submission
    results,         \* results_dict, in the process of the manager
    dirs,            \* the temporary directories, named after their plugin
    containers,      \* the containers: [plugin, job, left]; nobody cares for one
                     \*   that is left
    kills            \* the processes killed so far

pluginVars == <<input, pa, proc, jobs, results, dirs, containers, kills>>

Idle == [plugin |-> None, pc |-> "idle"]

Enter(p, result) ==
    /\ pa' = (p :> result) @@ pa
    /\ proc' = Idle

\* The worker enters no result of a process that raised; the scheduler marks
\* the analysis as failed.
Raise(p) == Enter(p, Failed)

\* run_docker_container: the container that mounts the directory of plugin p.
Container(p, j) == [plugin |-> p, job |-> j, left |-> FALSE]

Abandoned(c) == [c EXCEPT !.left = TRUE]

PluginsInit ==
    /\ input \in Inputs
    /\ pa = << >>
    /\ proc = Idle
    /\ jobs = << >>
    /\ results = << >>
    /\ dirs = {} /\ containers = {}
    /\ kills = 0

Ready(p) ==
    /\ proc = Idle
    /\ p \notin DOMAIN pa
    /\ \A d \in Dependencies(p) : d \in DOMAIN pa /\ pa[d].t # "failed"

\* TemporaryDirectory and the start of the container.
RunContainer(p) ==
    /\ dirs' = dirs \cup {p}
    /\ containers' = containers \cup {Container(p, 0)}
    /\ proc' = [plugin |-> p, pc |-> "container"]

\* The container is stopped and removed.  An error of docker is suppressed: if it
\* cannot be stopped, or its start failed after it was created, it stays.
StopContainer(c) ==
    \/ containers' = containers \ {c}
    \/ /\ Cardinality({d \in containers : d.left}) < MaxLeft
       /\ containers' = (containers \ {c}) \cup {Abandoned(c)}

\* The end of the container, then that of the directory.
CleanUp(p) ==
    /\ StopContainer(Container(p, 0))
    /\ dirs' = dirs \ {p}

Running(p) == proc = [plugin |-> p, pc |-> "container"]

-----------------------------------------------------------------------------
(* software_components                                                     *)

\* One container stands for those of all components with format strings,
\* which run one after the other.
NeedsGhidra(output) ==
    LET a == yara_process_object(output)
    IN  a.t = "yara" /\ \E r \in DOMAIN a.matches : key_strings(a.matches[r]) # {}

StartSoftwareComponents ==
    /\ Ready("software_components")
    /\ LET output == input.yara["software_components"] IN
       IF NeedsGhidra(output)
       THEN RunContainer("software_components") /\ UNCHANGED pa
       ELSE /\ Enter("software_components", software_components(output, {}, OsList))
            /\ UNCHANGED <<dirs, containers>>
    /\ UNCHANGED <<input, jobs, results, kills>>

\* extract_data_from_ghidra suppresses errors of docker but not the ReadTimeout
\* run_docker_container raises.
SoftwareComponentsEnds ==
    /\ Running("software_components")
    /\ \/ \E resolved \in Resolved \cup {{}} :
             Enter("software_components",
                   software_components(input.yara["software_components"],
                                       filter_implausible_results(resolved), OsList))
       \/ Raise("software_components")
    /\ CleanUp("software_components")
    /\ UNCHANGED <<input, jobs, results, kills>>

-----------------------------------------------------------------------------
(* known_vulnerabilities                                                   *)

Dict(f) == [t |-> "dict", v |-> f]
List(s) == [t |-> "list", v |-> s]
Atom(a) == [t |-> "atom", v |-> a]

\* The results of the plugins as the rule book sees them.
ProcessedAnalysis ==
    LET sc == pa["software_components"]
        Meta(r) == Dict("version" :> List(SetToSeq({Atom(v) : v \in sc.versions[r]})))
    IN  Dict(("file_hashes" :> Dict("sha256" :> Atom(input.sha256))) @@
             ("software_components" :>
                IF sc.t = "components"
                THEN Dict([r \in DOMAIN sc.versions |-> Dict("meta" :> Meta(r))])
                ELSE Dict(<< >>)))

SingleRule(path, relation, comparison) ==
    [t |-> "single", value_path |-> path, relation |-> relation, comparison |-> comparison]

vulnerabilities ==
    {[name |-> "Heartbleed", score |-> "high",
      rule |-> SingleRule(<< <<"software_components", "OpenSSL", "meta", "version">> >>,
                          "intersection",
                          List(SetToSeq({Atom(v) : v \in HeartbleedVersions})))],
     [name |-> "Netgear_CGI", score |-> "medium",
      rule |-> SingleRule(<< <<"file_hashes", "sha256">> >>, "equals", Atom(NetgearSha256))]}

check_vulnerabilities ==
    {[name |-> v.name, score |-> v.score] :
        v \in {v \in vulnerabilities : evaluate(ProcessedAnalysis, v.rule) = Verdict(TRUE)}}

post_process_yara_results(matches) ==
    {[name |-> r, score |-> matches[r].meta["score"]] : r \in DOMAIN matches}

add_vulnerability_tags(found) ==
    {[name |-> v.name, value |-> v.name, propagate |-> v.score = "high"] :
        v \in {v \in found : v.score # "none"}}

\* A name that is found twice is entered once, with what the later one says.
known_vulnerabilities(matches, netusb) ==
    LET later == check_vulnerabilities \cup netusb
        found == later \cup {v \in post_process_yara_results(matches) :
                                \A w \in later : w.name # v.name}
    IN  [t |-> "vulnerabilities", found |-> found,
         summary |-> {v.name : v \in found}, tags |-> add_vulnerability_tags(found)]

YaraMatches == yara_process_object(input.yara["known_vulnerabilities"])

NetUsbFound ==
    LET sc == pa["software_components"]
    IN  sc.t = "components" /\ "NetUSB" \in DOMAIN sc.versions

\* Without a summary, when yara failed, _post_process_yara_results raises.
StartKnownVulnerabilities ==
    /\ Ready("known_vulnerabilities")
    /\ \/ /\ YaraMatches.t = "failed"
          /\ Raise("known_vulnerabilities")
          /\ UNCHANGED <<dirs, containers>>
       \/ /\ YaraMatches.t # "failed" /\ NetUsbFound
          /\ RunContainer("known_vulnerabilities")
          /\ UNCHANGED pa
       \/ /\ YaraMatches.t # "failed" /\ ~NetUsbFound
          /\ Enter("known_vulnerabilities", known_vulnerabilities(YaraMatches.matches, {}))
          /\ UNCHANGED <<dirs, containers>>
    /\ UNCHANGED <<input, jobs, results, kills>>

check_netusb_vulnerability ==
    {{}} \cup {{[name |-> "CVE-2021-45608", score |-> s]} : s \in {"high", "none"}}

KnownVulnerabilitiesEnds ==
    /\ Running("known_vulnerabilities")
    /\ \/ \E netusb \in check_netusb_vulnerability :
             Enter("known_vulnerabilities", known_vulnerabilities(YaraMatches.matches, netusb))
       \/ Raise("known_vulnerabilities")
    /\ CleanUp("known_vulnerabilities")
    /\ UNCHANGED <<input, jobs, results, kills>>

-----------------------------------------------------------------------------
(* file_system_metadata                                                    *)

has_correct_type(mime) == mime \in {"file system", "archive"}

\* A file that was just unpacked knows the type of the file it comes from; one
\* that is read from the database asks for the types of all its parents.
parent_has_file_system_metadata ==
    IF input.fresh THEN has_correct_type(input.unpackedFrom)
    ELSE \E p \in input.parents : p.analyzed /\ has_correct_type(p.mime)

file_system_metadata(entries, failed) ==
    LET files == enter_results(entries)
    IN  [t |-> IF failed THEN "failed" ELSE "metadata", files |-> files,
         contained_in_file_system |-> parent_has_file_system_metadata,
         tags |-> IF tag_should_be_set(files)
                  THEN add_analysis_tag({}, "SUID/GUID + root", "SUID/GUID + root", FALSE)
                  ELSE {}]

\* An archive that cannot be read gives the entries before the error.
extract_metadata_from_tar ==
    \E entries \in Metadata :
        Enter("file_system_metadata", file_system_metadata(entries, FALSE))

StartFileSystemMetadata ==
    /\ Ready("file_system_metadata")
    /\ \/ /\ input.mime = "file system"
          /\ RunContainer("file_system_metadata")
          /\ UNCHANGED pa
       \/ /\ input.mime = "archive"
          /\ extract_metadata_from_tar
          /\ UNCHANGED <<dirs, containers>>
       \/ /\ input.mime \notin {"file system", "archive"}
          /\ Enter("file_system_metadata", file_system_metadata(<< >>, FALSE))
          /\ UNCHANGED <<dirs, containers>>
    /\ UNCHANGED <<input, jobs, results, kills>>

FileSystemMetadataEnds ==
    /\ Running("file_system_metadata")
    /\ \/ \E entries \in Metadata :
             Enter("file_system_metadata", file_system_metadata(entries, FALSE))
       \/ Enter("file_system_metadata", file_system_metadata(<< >>, TRUE))
       \/ Raise("file_system_metadata")
    /\ CleanUp("file_system_metadata")
    /\ UNCHANGED <<input, jobs, results, kills>>

-----------------------------------------------------------------------------
(* qemu_exec                                                               *)

arch_to_bin_dict ==
    << <<"aarch64", <<"aarch64">> >>,
       <<"ARM", <<"aarch64", "arm", "armeb">> >>,
       <<"MIPS32", <<"mipsel", "mips", "mipsn32", "mipsn32el">> >>,
       <<"MIPS64", <<"mips64", "mips64el">> >>,
       <<"MIPS", <<"mipsel", "mips", "mips64", "mips64el", "mipsn32", "mipsn32el">> >>,
       <<"80386", <<"i386">> >>,
       <<"80486", <<"x86_64", "i386">> >>,
       <<"x86", <<"x86_64", "i386">> >>,
       <<"PowerPC", <<"ppc", "ppc64", "ppc64le">> >>,
       <<"PPC", <<"ppc", "ppc64", "ppc64le">> >>,
       <<"Renesas SH", <<"sh4", "sh4eb">> >> >>

find_arch_suffixes(full_type) ==
    LET known == SelectSeq(arch_to_bin_dict, LAMBDA a : a[1] \in full_type)
    IN  IF known = << >> THEN << >> ELSE Head(known)[2]

QemuResult(files, summary, tags) ==
    [t |-> "qemu", parent_flag |-> FALSE, files |-> files, summary |-> summary, tags |-> tags]

NoFiles == QemuResult(<< >>, {}, {})

\* A program is looked at in its container; a container is unpacked again.
StartQemuExec ==
    /\ Ready("qemu_exec")
    /\ \/ /\ input.mime = "program"
          /\ Enter("qemu_exec", [NoFiles EXCEPT !.parent_flag = TRUE])
          /\ UNCHANGED <<dirs, containers>>
       \/ /\ input.mime # "program" /\ ~input.included
          /\ Enter("qemu_exec", NoFiles)
          /\ UNCHANGED <<dirs, containers>>
       \/ /\ input.mime # "program" /\ input.included /\ ~input.onDisk
          /\ Raise("qemu_exec")
          /\ UNCHANGED <<dirs, containers>>
       \/ /\ input.mime # "program" /\ input.included /\ input.onDisk
          /\ RunContainer("qemu_exec")
          /\ UNCHANGED pa
    /\ UNCHANGED <<input, jobs, results, kills>>

Job(path, arch) ==
    [path |-> path, arch |-> arch, pc |-> "queued", result |-> NoResult, copy |-> << >>]

\* The jobs are submitted before a result is entered, so the test for a file
\* that was already analysed finds none.
run_analysis_jobs(file_list) ==
    LET JobsOf(path) == [i \in DOMAIN find_arch_suffixes(FullTypeOf[path]) |->
                            Job(path, find_arch_suffixes(FullTypeOf[path])[i])]
    IN  FoldLeft(LAMBDA js, path : js \o JobsOf(path), << >>, file_list)

\* The extractor ends: it may fail, be cut off, or give the executables.
ExtractorEnds ==
    /\ Running("qemu_exec")
    /\ \/ /\ Raise("qemu_exec")
          /\ CleanUp("qemu_exec")
          /\ UNCHANGED <<jobs, results>>
       \/ /\ Enter("qemu_exec", NoFiles)
          /\ CleanUp("qemu_exec")
          /\ UNCHANGED <<jobs, results>>
       \/ /\ input.executables # {}
          /\ jobs' = run_analysis_jobs(SetToSeq(input.executables))
          /\ results' = << >>
          /\ proc' = [plugin |-> "qemu_exec", pc |-> "jobs"]
          /\ StopContainer(Container("qemu_exec", 0))
          /\ UNCHANGED <<pa, dirs>>
    /\ UNCHANGED <<input, kills>>

InThread(j) == jobs[j].pc \in {"container", "read", "write"}

JobStarts(j) ==
    /\ jobs[j].pc = "queued"
    /\ \A i \in 1..(j - 1) : jobs[i].pc # "queued"
    /\ Cardinality({i \in DOMAIN jobs : InThread(i)}) < max_workers
    /\ jobs' = [jobs EXCEPT ![j].pc = "container"]
    /\ containers' = containers \cup {Container("qemu_exec", j)}
    /\ UNCHANGED <<input, pa, proc, results, dirs, kills>>

\* get_docker_output and check_qemu_executability.  What the container printed
\* may not decode: run_docker_container raises, and nobody in the job catches it.
JobContainerEnds(j) ==
    /\ jobs[j].pc = "container"
    /\ \/ \E printed \in Outputs \cup {ErrorResult} :
              LET result == check_qemu_executability(printed) IN
              jobs' = [jobs EXCEPT ![j].pc = IF IsEmpty(result) THEN "done" ELSE "read",
                                   ![j].result = result]
       \/ /\ Cardinality({i \in DOMAIN jobs : jobs[i].pc = "raised"}) < MaxRaised
          /\ jobs' = [jobs EXCEPT ![j].pc = "raised"]
    /\ StopContainer(Container("qemu_exec", j))
    /\ UNCHANGED <<input, pa, proc, results, dirs, kills>>

JobReads(j) ==
    /\ jobs[j].pc = "read"
    /\ LET uid == UidOf[jobs[j].path]
           others == IF uid \in DOMAIN results THEN results[uid].results ELSE << >>
       IN  jobs' = [jobs EXCEPT ![j].pc = "write",
                                ![j].copy = (jobs[j].arch :> jobs[j].result) @@ others]
    /\ UNCHANGED <<input, pa, proc, results, dirs, containers, kills>>

JobWrites(j) ==
    /\ jobs[j].pc = "write"
    /\ results' = (UidOf[jobs[j].path] :>
                      [path |-> jobs[j].path, results |-> jobs[j].copy]) @@ results
    /\ jobs' = [jobs EXCEPT ![j].pc = "done", ![j].copy = << >>]
    /\ UNCHANGED <<input, pa, proc, dirs, containers, kills>>

\* Mutant: the flag of one executable is not reset for the next.
Cumulative_enter_qemu_results ==
    [u \in DOMAIN results |->
        [path |-> results[u].path, results |-> results[u].results,
         executable |-> \E v \in DOMAIN results : valid_execution_in_results(results[v].results)]]

enter_qemu_results ==
    [u \in DOMAIN results |->
        [path |-> results[u].path, results |-> results[u].results,
         executable |-> valid_execution_in_results(results[u].results)]]

JobsFinished == \A j \in DOMAIN jobs : jobs[j].pc = "done"

\* Every future is waited for before the results are entered and the directory
\* is removed.
QemuExecEnds ==
    /\ proc = [plugin |-> "qemu_exec", pc |-> "jobs"]
    /\ JobsFinished
    /\ LET files == enter_qemu_results
           executable == \E u \in DOMAIN files : files[u].executable
       IN  Enter("qemu_exec",
                 QemuResult(files, IF executable THEN {"executable"} ELSE {},
                            IF executable
                            THEN add_analysis_tag({}, "qemu_exec", "QEMU executable", TRUE)
                            ELSE {}))
    /\ dirs' = dirs \ {"qemu_exec"}
    /\ UNCHANGED <<input, jobs, results, containers, kills>>

\* The first future that is waited for and raises ends the wait: the directory is
\* removed.  The executor is not shut down, so the other jobs go on.
QemuExecRaises ==
    /\ proc = [plugin |-> "qemu_exec", pc |-> "jobs"]
    /\ \E j \in DOMAIN jobs : /\ jobs[j].pc = "raised"
                              /\ \A i \in 1 .. (j - 1) : jobs[i].pc = "done"
    /\ proc' = [proc EXCEPT !.pc = "raised"]
    /\ dirs' = dirs \ {"qemu_exec"}
    /\ UNCHANGED <<input, pa, jobs, results, containers, kills>>

\* The process that raised ends after its threads.
RaisedProcessEnds ==
    /\ proc = [plugin |-> "qemu_exec", pc |-> "raised"]
    /\ \A j \in DOMAIN jobs : jobs[j].pc \in {"done", "raised"}
    /\ Raise("qemu_exec")
    /\ jobs' = << >> /\ results' = << >>
    /\ UNCHANGED <<input, dirs, containers, kills>>

-----------------------------------------------------------------------------
\* The process exceeds its TIMEOUT and is terminated with its threads: nobody
\* stops its containers or removes its directory.
Timeout ==
    /\ proc # Idle
    /\ kills < MaxKills
    /\ kills' = kills + 1
    /\ Raise(proc.plugin)
    /\ IF proc.plugin = "qemu_exec" THEN jobs' = << >> /\ results' = << >>
       ELSE UNCHANGED <<jobs, results>>
    /\ containers' = {IF c.plugin = proc.plugin THEN Abandoned(c) ELSE c : c \in containers}
    /\ UNCHANGED <<input, dirs>>

Finished == DOMAIN pa = Plugins \/ \A p \in Plugins : ~Ready(p)

Done == proc = Idle /\ Finished /\ UNCHANGED pluginVars

PluginsNext ==
    \/ StartSoftwareComponents \/ SoftwareComponentsEnds
    \/ StartKnownVulnerabilities \/ KnownVulnerabilitiesEnds
    \/ StartFileSystemMetadata \/ FileSystemMetadataEnds
    \/ StartQemuExec \/ ExtractorEnds \/ QemuExecEnds \/ QemuExecRaises \/ RaisedProcessEnds
    \/ \E j \in DOMAIN jobs :
          JobStarts(j) \/ JobContainerEnds(j) \/ JobReads(j) \/ JobWrites(j)
    \/ Timeout
    \/ Done
-----------------------------------------------------------------------------
(* Properties                                                              *)

\* A directory is not removed while a container mounts it, and when the processes
\* ended by themselves neither a container nor a directory is left, with these
\* exceptions: a container whose stop failed, whose removal is then skipped
\* (docker.py:58-60), and the containers of the jobs beside one of qemu_exec that
\* raised (qemu_exec.py:118-119,151).
MountOutlivesContainers ==
    /\ \A c \in containers :
          c.plugin \in dirs \/ c.left \/ proc = [plugin |-> c.plugin, pc |-> "raised"]
    /\ proc = Idle => \A c \in containers : c.left
    /\ proc = Idle /\ kills = 0 => dirs = {}

ResultsOf(uid) ==
    {<<jobs[j].arch, jobs[j].result>> :
        j \in {i \in DOMAIN jobs : UidOf[jobs[i].path] = uid /\ ~IsEmpty(jobs[i].result)}}

\* However the threads of qemu_exec overwrite each other, an executable that
\* some container had a result for is reported, every result that is reported
\* is one of its own, and it is called executable only if one of its runs
\* printed something without an error.  A job that raises fails the analysis:
\* then no executable is reported at all.
EveryExecutableReported ==
    "qemu_exec" \in DOMAIN pa /\ pa["qemu_exec"].t = "qemu" /\ pa["qemu_exec"].files # << >>
        => LET files == pa["qemu_exec"].files
               uids == {UidOf[jobs[j].path] : j \in DOMAIN jobs}
           IN  /\ DOMAIN files = {u \in uids : ResultsOf(u) # {}}
               /\ \A u \in DOMAIN files :
                      /\ files[u].results # << >>
                      /\ \A a \in DOMAIN files[u].results :
                             <<a, files[u].results[a]>> \in ResultsOf(u)
                      /\ files[u].executable
                             => \E r \in ResultsOf(u) : \E p \in DOMAIN r[2].out :
                                    p # Strace /\ output_without_error_exists(r[2].out[p])

\* What known_vulnerabilities reports about a component follows from the
\* versions that software_components found, and only what is of a high score
\* is propagated to the firmware.
VulnerabilitiesFollowComponents ==
    {"known_vulnerabilities", "software_components"} \subseteq DOMAIN pa
        /\ pa["known_vulnerabilities"].t = "vulnerabilities"
        => LET sc == pa["software_components"]
               kv == pa["known_vulnerabilities"]
               OpenSSL == IF sc.t = "components" /\ "OpenSSL" \in DOMAIN sc.versions
                          THEN sc.versions["OpenSSL"] ELSE {}
           IN  /\ "Heartbleed" \in kv.summary <=> OpenSSL \cap HeartbleedVersions # {}
               /\ "Netgear_CGI" \in kv.summary <=> input.sha256 = NetgearSha256
               /\ \A tag \in kv.tags : tag.propagate
                      => \E v \in kv.found : v.name = tag.name /\ v.score = "high"

\* What the plugins with containers leave behind, on the host and in the results.
ContainersAndReports ==
    MountOutlivesContainers /\ EveryExecutableReported /\ VulnerabilitiesFollowComponents
=============================================================================
