# Verification of FACT

TLA+ models of FACT (Firmware Analysis and Comparison Tool): how an uploaded
firmware image is unpacked, analysed, stored, compared, shown and deleted by a
set of processes that share queues, a database, Redis and a disk; what its plugins
compute; how it is started, stopped and upgraded. Source paths below are relative
to `src/src/`.

## 1. The system

The backend (`start_fact_backend.py`) is one main process that starts all others
with `multiprocessing`. They talk through queues (an object is pickled, so the
receiver has a copy) and through values and dictionaries of a manager. The
frontend is a uWSGI server with several processes and threads. Both use one
PostgreSQL database, and talk to each other through Redis.

| Component | State | Operations | Talks to |
|---|---|---|---|
| analysis task scheduler (`scheduler/task_scheduler.py`) | none; writes `fo.scheduled_analysis` | schedule a request, unschedule the dependents of a failed plugin | called by the analysis scheduler |
| analysis scheduler (`scheduler/analysis.py`) | `process_queue`; the tasks (file objects) on their way | three entry points, the schedule process, the result collector | plugins, database, status |
| plugin workers (`analysis/PluginBase.py`) | `in_queue`, `out_queue`, ring of durations | `add_job`, worker loop with a child process and a timeout | analysis scheduler, main process |
| analysis status (`scheduler/analysis_status.py`) | `currently_running`, `recently_finished`, one lock | add, add update, remove, clear | called by both schedulers |
| unpacking scheduler (`scheduler/unpacking_scheduler.py`, `unpacker/`) | `in_queue`, throttle | worker loop, load monitor | extractor container, analysis scheduler |
| comparison scheduler (`scheduler/comparison_scheduler.py`, `compare/`) | `in_queue`, set of comparisons done | one worker, comparison plugins | database |
| storage (`storage/db_interface_backend.py`, `db_interface_admin.py`, `fsorganizer.py`, `unpacking_locks.py`) | objects, analyses and inclusions in PostgreSQL; binaries on disk; locks | store, update, delete, lock, release | every process |
| intercom (`intercom/`, `storage/redis_interface.py`) | Redis lists and values, chunks | task queues, request/response, deletion of files | frontend to backend |
| supervision (`start_fact_backend.py`, `helperFunctions/process.py`) | the process lists | look for exceptions, start again, shut down | every process of the backend |
| start scripts (`start_fact*.py`) | processes, status entries | start, signal, stop | the components |
| web interface, REST (`web_interface/`), users (`manage_users.py`) | sessions, tables of users and comments | routes, searches, pages | database, intercom |
| statistics (`statistic/`, `storage/db_interface_stats.py`) | the table of statistics | count, sum, store | database |
| analysis plugins (`plugins/analysis/`) | CVE database; containers and temporary directories | `process_object` | worker that runs them |
| migration (`migrate_*.py`, `init_postgres.py`) | old and new databases | create, copy, alter | MongoDB, PostgreSQL, SQLite |

**What is hard here.** At least five kinds of processes hand one task around, and
tasks of the same file run at the same time. An analysis may raise, time out or be
killed. Some processes come back after an exception but lose their task (the
workers), others do not come back (the schedule process, the collector, the
listeners of the intercom). One operation is several sessions of the database, and
a deletion may fall between them. Requests and answers pass through Redis in pieces
and may come after the timeout. Reads of the web interface are many statements, and
others commit between them. The scripts that update or migrate data are killed and
started again. Cycles of dependencies are possible. The list is under `hazards` in
`PROJECT.json`, each at its line, with the properties that would notice.

## 2. Modules

### The core: scheduling and analysis

| Module | Models |
|---|---|
| `TaskOrder` | the pure part of the task scheduler: closure, layers, possible plans |
| `TaskScheduler`, `_proofs` | one call of `schedule_analysis_tasks`, its loops as steps |
| `AnalysisService` | abstract: what a task may expect from the scheduler |
| `AnalysisScheduler`, `_proofs` | analysis scheduler, plugin queues and workers, the database entries; implements `AnalysisService`; the proofs begin with those about `TaskOrder` |
| `AnalysisStatus` | the dictionaries of the progress and their methods |
| `UnpackingScheduler`, `_proofs` | unpack queue, workers, throttle, and who calls the status when; the proofs are of both |
| `PluginWorker` | one plugin: queue, workers, child processes, timeout, ring of durations |
| `Backend`, `_proofs` | the main process: restart of workers, signals, shutdown; composed with `PluginWorker` |

`TaskOrder`, `TaskScheduler`: `fo.scheduled_analysis` is consumed from its end
(`pop()`), so the plugin at the last index runs first. `AddDependencies` is the loop of
`_add_dependencies_recursively`, `Layered` that of `_smart_shuffle`, `Shuffles` is
`shuffled`. The result depends on `random.sample`, hence `Plans` is the set of all
possible lists. In `TaskScheduler` each round of a loop is an action, and
`ComputesAPlan` shows that the steps end in a member of `Plans`, which
`AnalysisScheduler` uses as one step.

`AnalysisScheduler`: a *task* is one file object on its way. Its fields (`scheduled`,
`processed`, `exception`) are functions of the task, as one process or queue
holds it at a time. `Request` says how it comes in.

| Code | Actions |
|---|---|
| `start_analysis_of_object` | `StartAnalysisOfObject` |
| `update_analysis_of_object_and_children` | `BeginUpdate`, `UpdateAnalysisOfChild` (a turn of the loop), `UpdateAnalysisOfRoot` |
| `update_analysis_of_single_object` | `UpdateAnalysisOfSingleObject` |
| an exception in these | `EntryCrash` |
| `_process_next_analysis_task` | `TakeTask`, `AbandonTask` (`DbInterfaceError`), `SkipUnknownPlugin` |
| `_start_or_skip_analysis` | `SkipUpToDate`, `SkipFiltered` then `StoreSkipped`, `StartPlugin` (with `add_job`) |
| an exception in these | `RunnerCrash` |
| `worker`, `worker_processing_with_timeout` | `BeginAnalysis`, `Analyze`, `FinishAnalysis`, `FailAnalysis` (exception or timeout), `KillAnalysis` (the child is killed from outside: `result.pop()` raises, and the worker ends with the task) |
| `_result_collector` | `Collect` (with `reschedule_failed_analysis_task`) then `StoreResult` or `StoreResultRaises` (the `ValueError` that `add_analysis` raises again), `CollectWithoutResult`, `CollectorCrash` |
| `delete_firmware` by an admin | `DeleteFirmware` |

The steps are cut where another process can interfere: between the reads of the
decision, the write of the result, and the queues. Results are reduced to their kind
and the fields that decisions read (version, system version, date). A file's MIME type
is reduced to whether a filter excludes the file.

`AnalysisStatus`, `UnpackingScheduler`: each method of the status is one action, because it
holds the lock throughout, except `add_update_to_current_analyses`, which takes the
lock twice (`BeginAddUpdate`, `EndAddUpdate`; `FailAddUpdate` is the `KeyError` that leaves
the lock locked). `UnpackingScheduler` has the calls the backend makes; the analysis is
reduced to a bag of file objects. An extractor may fail for a file (`ExtractionFails`: nothing comes out) or
raise (`UnpackFails`). An object that is read from the database, as an update does, has all the images its entry
has paths in as roots (`KnownRoots`).

`PluginWorker`, `Backend`: here an analysis is a child process that appends its result, ends,
fails or is killed (`ChildMoves`), a worker that joins it or runs into the timeout, and the
three accesses to the ring of durations under two locks (`StatsStep`). `Backend` adds the
loop of the main process, which changes the list it iterates (`CheckWorker`), the faults
of the other processes and the order of the shutdown (`BeginShutdown` to `StopRest`).

### Storage, intercom, comparison

| Module | Models |
|---|---|
| `FileTree` | virtual file paths, the records of inclusions, what a deletion takes: pure operators |
| `Storage`, `_proofs` | upload, analysis and deletion, one step per session, lock or access to the disk |
| `Intercom`, `_proofs` | Redis: queues, answers with timeout, chunks, listeners that die |
| `Comparison`, `_proofs` | basket, request, scheduler, storage of results, deletion meanwhile; the results of the plugins, with the tables file_coverage makes of similar files |

`FileTree`: what can be unpacked from a file is a set of names with the files they stand for, and the
unpacker yields them in any order, which decides the virtual file paths and who is the first to
reach a file. Unpacking may break (`UnpackFails`). A file that holds itself is locked and stored
like any other. What a deletion takes with it is the least set that leaves no orphans.
`Storage` follows one file object from `Upload` through `Unpack`, `CheckObject`,
`InsertObject` / `UpdateFirmware` / `UpdateFile` (`add_object`, three sessions), `ReleaseLock`,
`CheckAnalysis` and `StoreAnalysis` (`add_analysis`, two sessions). A deletion is `RemovePaths`
(one session per file), `DeleteObject`, `SendDeletion`, then, in the backend's listener,
`CheckEntry`, `CheckLock`, `RemoveFile`. `Intercom` splits each call into the calls to Redis:
`ClientSplits` and `Push`, `Poll`, `ClientPops`, `Receive` or `TimeOut`, and for the
listener `GetNextTask`, `ListenerPops`, `Process`, `ListenerSplits`, `SetResponse`; keys of chunks
are a small set that is checked and set in two steps. A `RedisError` that a listener catches before it has
popped anything leaves everything as it was, so it is no step. `Comparison` has both ways to
request a comparison (`StartCompare`, `RestComparePut`), the worker (`GetTask` to
`UpdateComparison`), and the results of the plugins as operators on the contents. An object is loaded in three
sessions, the object, its list of files and its summary (`LoadObject`, `ListFiles`, `GetSummary`), between
which it may be deleted. A request may come while the backend is down: Redis keeps it.

### The web interface

| Module | Models |
|---|---|
| `Frontend` | requests that change something: submit, redo, delete, comments, users and roles; the console tool |
| `Pages` | routes and REST resources that read: a list of statements each, with writers between them (proofs in `Intercom_proofs`) |
| `DependencyGraph` | the nodes and edges of the graph of linked libraries |
| `QueryConversion` | from a search to rows of a join: conditions, lists, inversion, pages |
| `TreeView` | the layers of the file tree |
| `Statistics` | the aggregations and what `statistic/update.py` stores of them |
| `Browse` | paging, unfolding, updating statistics while the database changes (proofs in `Comparison_proofs`) |

A request of `Frontend` or `Pages` is a record with the step it is at; a worker may end
between any two (`Respawn`), and a step is one session. In `Pages` a file may be in several images
(`Contents`): it is stored once, with a record of each container and each image (`StoreFile`), and a deletion
takes it when its last container goes (`Cascade`). Which image an entry names first, where a page asks for its root
(`name_root`), is open. The recursive query for included files is a step per level. `QueryConversion` has the query as a
value with the database as a function from UIDs to entries.

### Plugins

| Module | Models |
|---|---|
| `CveLookup` | the matching of products, versions and summaries of CVEs |
| `CveDatabase` | import and update of the CVE tables statement by statement, and lookups meanwhile |
| `PluginRules` | YARA plugins, software_components, the rule book, permissions, results of qemu_exec |
| `ContainerPlugins` | plugins with containers and threads, killed by the timeout; composed of `PluginRules` |
| `FileContents` | crypto_material, users_and_passwords, kernel_config, init_systems, binary search |
| `BinaryPlugins` | device_tree, cpu_architecture, hardware_analysis, elf_analysis, exploit_mitigations, cwe_checker, information_leaks, ip_and_uri_finder, interesting_uris, tlsh, source_code_analysis |

The last two and `PluginRules` are operators: a plugin is a function from what external tools
yield (a match, a parsed header, the answer of a container) to what ends up in
`processed_analysis`. Their results are compared with reference definitions by assumptions that
TLC evaluates (section 4). In `CveDatabase` a statement of the script may be locked out by a query, and a query
by the script: it yields no rows then (`QueryLockedOut`). In `ContainerPlugins` the stop of a container may fail,
and it is
not removed then (`StopContainer`); a job of `qemu_exec` may raise, which removes the directory while the
other jobs go on (`QemuExecRaises`, `RaisedProcessEnds`).

### Installation and operation

| Module | Models |
|---|---|
| `Startup` | `start_fact.py`, its three children, process groups, signals, status entries |
| `Upgrade` | creation of roles and tables, migration from MongoDB, the new column of the user table; killed and started again |
| `BesideBackend_proofs` | the proofs of `Startup`, `Upgrade`, `Frontend` and `CveDatabase` |

The `MC_*` modules give model values and inputs, and put together systems that share a run
(`MC_Frontend`: `Frontend` or `Pages`; `MC_Plugins`: `CveDatabase` or `ContainerPlugins`;
`MC_Upgrade`: `Upgrade` or `Startup`): a behaviour is one of the one or of the other.
Next to a definition, an operator marked *Mutant* is the definition with a plausible bug;
`PROJECT.json` names for every property the mutant under which its run fails.

## 3. Runs

| Run | Instance | Properties |
|---|---|---|
| `task_scheduler` | 3 plugins, 1 unknown name, every dependency graph and request | `SoundOrder`, `OnlyBlockedPluginsDropped`, `ComputesAPlan` |
| `analysis_upload` | image with two files, a chain of 4 plugins (architecture needs kernel, which needs software and `file_type`), a filter, 2 workers each; `file_type` and `kernel` may fail, `architecture` may be killed or survive its termination, the database refuses a value of `kernel` | `DependenciesRespected`, `ResultsStoredUnlessDependencyFailed`, `EveryTaskEnds`, refinement `ImplementsService` |
| `analysis_update` | 4 tasks: updates of an image and its file for a new version and a new system version of `software`, unknown plugin names, results that cannot be stored, the image deleted | `InOnePlace`, `UpToDateWhenCompleted` |
| `status` | two images that share a file, one where it is found twice, once in a file whose extractor may fail, and one whose unpacking raises; an update of the latter and of the shared file; 1 worker, throttle at 1 | `CountersAgree`, `SomethingLeft`, `FinishedMeansAnalyzed`, `EveryImageFinishes` |
| `backend` | one plugin with 2 workers and 2 jobs, a ring of one duration, 2 kills, 2 faults of other processes, shutdown at any time | `PluginInOrder`, `NothingSurvivesExit`, `EveryJobEnds`, `ShutdownCompletes` |
| `storage` | 2 images that share 2 files, 2 uploads, a deletion at any time and a second one after the uploads; no archive is left packed (`DepthSuffices`) | `EntriesIntact`, `StorageAgrees`, `DeletionExact` |
| `intercom` | 2 requests, messages in 2 chunks, 4 keys of chunks, 1 exception in a listener | `ChunksKept`, `FullAnswerNotLost`, `EveryRequestEnds` |
| `comparison` | 2 images and a file, 2 requests in either way, also while the backend is down, 1 deletion, the backend stopped and started at any time | `ComparisonsSound`, `RequestsAreServed` |
| `frontend` | 2 request threads and up to 4 requests that change something; or 1 page and 2 changes of the database during it, with two images that may share a file | `EditsKept`, `StoredIsServed`, `AnswersAgree`, `ImageComesBack` |
| `browse` | all small databases; pages of 2 rows, 1 change meanwhile | `PagesShowEveryMatch`, `ConditionsCombine`, `TreeShowsEveryFile`, `StatisticsAddUp` |
| `upgrade` | 2 images, a container, a file; scripts killed twice; or an installation on one or several hosts | `DataSurvives`, `NothingLeftBehind`, `StarterEnds` |
| `plugins` | 3 CVEs, 2 publications, 2 runs of the update, 1 fault and 1 lookup; or containers and threads, killed once, 1 stop that fails and 1 job that raises | `UpdateAgreesWithFeed`, `LookupMissesOnlyMoved`, `KnownStaysKnown`, `ContainersAndReports` |

What the runs show, in the terms of the code:

- **Scheduling.** The shuffle puts dependencies behind what depends on them, drops only
  what waits on a cycle, and ends (`task_scheduler`). Through five kinds of processes a
  task is neither doubled nor lost while the schedule process and the collector live
  (`InOnePlace`); a plugin runs on the results of its dependencies unless one of
  them failed; every task of an upload ends, unless one of the faults that `EveryTaskEnds` names loses it:
  an analysis killed from outside, one that survives its termination, and the end of
  the schedule process (`file_type` failed and a filter asks for the type, a dependency has no entry, a name nobody
  loaded) or of the collector (a value the database refuses, such a name). A completed update leaves results that
  are up to date in version and date. `UpToDateWhenCompleted` excepts failed results, names without plugin,
  files whose entry is gone, and `system_version` where there was an entry before, as an
  update does not write it.
- **Progress.** The counters of an image equal the lengths of its lists; an image is
  "finished" only when each of its files was analysed, as whichever copy, unless an update
  came into it or the depth limit cut a copy off. An update comes into an image also from a file of it, or from
  an image that shares a file with it: the updated object counts for all images it is in. Every image gets there
  which no update came into, also when unpacking another one raises or an extractor fails, until an update leaves
  the lock of the status locked.
- **Processes.** A job that is killed or times out is answered; the main loop, which
  skips the neighbour of a failed worker in a turn, finds that one in the next; after the
  shutdown no worker, child or queue is left, in the order the code has.
- **Storage.** At every moment an entry has a parent and its binary, unless the file
  was on its way into the database while the listener looked whether it may be deleted. When all is
  quiet and no deletion overlapped an upload, `included_files`, `fw_files` and virtual file
  paths agree with the images, the disk with the entries, and no lock is left. A
  deletion takes exactly the files only this image has.
- **Comparison.** A stored result is of objects that are there and divides their files. Once the backend stays
  up, each request is served, also one from before a restart, unless it failed, was in the scheduler's own queue at
  a shutdown, or an object of it was deleted.
- **Intercom.** The chunks of one message are not mixed up as long as no two
  writers take a key in the same instant; an answer with content is received or
  timed out, never dropped; each request ends.
- **Web.** Of overlapping edits one may be lost only where a column is read and
  written back; a page shows all that is stored during the whole request, with the four exceptions
  `StoredIsServed` names, and nothing that was never stored; an image that is analysed anew is back afterwards; the
  pages
  of a search, laid side by side, are the matches; every file is in the tree. Conditions combine but
  for those the single join and `$or` lose; numbers of vendors add up to those of the whole, and the numbers
  called unique are those of different files where no file is in two images.
- **Data at rest.** The migration, killed anywhere and started again, ends with
  everything that was in MongoDB (but the entries named in section 7); the CVE tables
  agree with the feeds after an update, and a failed update loses no CVE. A lookup beside it misses what moves
  between the tables and what a locked-out query would have found, nothing else.
- **Containers.** A directory outlives the containers that mount it, and nothing is left, but after a kill, a stop that
  fails, or a job that raises.

**Bounds** and why they are enough. Two workers in one plugin put two tasks there at
once; three tasks are two files of one parent, or two tasks of one file beside their
parent. The chain of plugins gives a dependent of a dependent of a failed one, a plugin with two
dependencies, and a filter. `MaxDepth = 3`
with a file found twice puts it at two depths; `ThrottleLimit = 1` makes the throttle as
tight as it gets; with `StatsLimit = 1` the ring of durations wraps at every job, and two workers can push its
index past the end;
with `MaxKills = 2` both workers lose a child. In `storage` two images share two files,
so a deletion meets a file that stays, one that goes, and one that is being stored again by the
second upload; a second deletion takes the other image, or the one that came back, while
the listener may still be at the first. Two chunks and four keys are two messages at once with no key to spare.
`MaxRequests` and `MaxDeleted` let a comparison be redone while an image of it goes.
`PerPage = 2` has full, short and empty pages. `MaxStops = 2` kills the migration,
and once more where it resumed. In `intercom` the initial states that are mirror images of
each other (which client is which) are left out by hand; in `backend` faults of other
processes are tried without jobs. Symmetry sets are not used, as liveness
is checked nearly everywhere.

**Deadlock** is checked in `upgrade`. The other instances have finitely many requests and
may stop when these are done; that they do not stop before is what the liveness
properties (`EveryTaskEnds`, `EveryImageFinishes`, `ComputesAPlan`, `EveryJobEnds`,
`ShutdownCompletes`, `EveryRequestEnds`, `RequestsAreServed`, `ImageComesBack`) say.
`EveryTaskEnds` is not claimed for `analysis_update`, where the schedule process may die.

## 4. Algorithms checked against a definition

Operators without state are compared by TLC with a reference definition over bounded
inputs, as `ASSUME`s of the `MC` modules:

| Module | Assumption | Compares |
|---|---|---|
| `MC_Plugins` | `NearestVersion` | the walk to the neighbour version with the greatest smaller one |
| | `MentionsAreReal` | the product search in a summary with the words it consists of |
| | `FlagsAreBits` | setuid, setgid and sticky with the bits of the mode |
| | `MergingIsGrouping` | the merge of results of threads with a grouping by file |
| | `RulesMeanWhatTheySay` | the rule book with the meaning of its relations |
| | `KeysAreSeparate`, `PrivateKeysAreTagged` | keys and certificates found between their markers; the tag says a private one is there |
| | `PasswordsAreTagged`, `ConfigurationsAreFound`, `ServicesAreListed` | tags, kernel configurations and services with what the file has |
| | `SearchesAgree` | the two ways of a binary search |
| | `TreesAreFound`, `SourcesAreOrdered`, `MitigationsAreStated`, `ReportsAreComplete` | device trees in a file, which source of an architecture wins, each mitigation stated once, all warnings of a report |
| | `LeaksAreListed`, `InterestingStays`, `SimilarFilesAreFound` | leaked paths; the filter of URIs run again on its result; of two similar files one lists the other in every order of their analyses |
| `MC_Comparison` | `TableOfGroups`, `ChangedTextFiles`, `NonZeroCommonFiles` | the tables of similar files with the maximal groups |
| `MC_Frontend` | `EdgesLeadToTheNames` | the graph of libraries with the names the files link to |

## 5. Fairness

The processes loop for ever: weak fairness for the schedule process, each worker,
each turn of a listener, and the monitor. An analysis ends at the latest with `TIMEOUT`
(`WorkerStep`; `AppendResult`, `EndChild` in `Backend`), if its processes end on SIGTERM, after which the
worker joins without limit: there is no fairness for the plugins in `Hanging`, whose tasks `EveryTaskEnds`
excepts. Nothing is assumed of a kill from outside. The collector visits each plugin's
queue in turn, which is strong fairness per plugin (`CollectorStep`), because it is busy with
another plugin's result in between. A worker that waits for the throttle wakes every 5
seconds and the monitor looks as often; strong fairness of `ScheduleExtracted` says that
it does not find the throttle on every single time although it is off again and again.
`RequestsAreServed` is about behaviours in which the backend stays up from some
time on (`StaysUp`), as nobody has to start it.
`Poll` in `Intercom` is strong for the same reason: the client looks every second, and
a listener is at its queue in between. The web server runs each request to its end
(`Steps(w)`) and the backend takes what Redis has (`BackEnd(type)`); the starter is
scheduled and its timers expire (`StarterStep`), and nothing is assumed of the components it
starts. `Storage`, `Browse`, `Pages`, `CveDatabase`, `ContainerPlugins` and `Upgrade` have
no fairness: their properties are about what is done, not that it is done. Users are not
fair: no request must be made, no image deleted.

## 6. Proofs

All with TLAPS, for any values of the constants under the assumptions named. The assumptions
are those of the modules (`ASSUME`, which TLC evaluates for the instances) unless a theorem
says otherwise. Every invariant below was strengthened until each action keeps it; the
strengthening is what the argument rests on.

### The order of the plugins

- **`PlansAreSound`** (`AnalysisScheduler_proofs`): every list in `Plans` is free of duplicates, in an
  order that respects the dependencies, includes the dependencies of what it includes,
  and, if the graph has no cycle and the set is closed, drops nothing. `AddDependencies` and
  `Layered` are recursive functions on sets; they are shown to be defined by
  well-founded induction on the number of plugins that are left, and then to satisfy
  the invariants of the loops.
- **`SoundOrderTheorem`**, `TypeTheorem` (`TaskScheduler_proofs`): `Spec => []SoundOrder`
  for any dependency graph, cyclic or not, over the steps of the loops. The
  inductive invariant has to say what the list looks like *in the middle* of the
  shuffle: it is duplicate-free, disjoint from what remains, everything on it has
  its dependencies further towards the end. Prepending a layer keeps that, as all
  dependencies of the layer are already on the list. Moving `file_type` to the end
  keeps it because `file_type` has no dependencies. Assumptions:
  `Plugins` finite, `Mandatory` and `file_type` loaded.
- **`OnlyBlockedPluginsDroppedTheorem`** (`TaskScheduler_proofs`): what is missing from
  the list waits for something that is missing too. It is a fact about the end of the
  loop, where no plugin is left whose dependencies are all on the list; the invariant
  (`BlockedInv`) adds that the set which is shuffled was closed under
  dependencies before (`ClosedWhileShuffled`), which the loop of the first phase
  establishes when it ends.

### The analysis scheduler (`AnalysisScheduler_proofs`)

- **`InOnePlaceTheorem`**: `Spec => []InOnePlace`. `InOnePlace`
  counts holders and holds only while both processes live; neither is inductive. The
  invariant `HandOver` says for each task which places exclude each other
  (`Single`: in, running and out of a plugin, across plugins, the process queue, the
  two processes), that whoever holds a task is right to do so even after a crash (a
  held task is active), and that without a crash an active task is held
  (`PhaseAgrees`). The queues have no repetitions, and the two processes hold a task
  exactly at the statements between taking and giving back. Then every action moves
  one task (`OneMoves`): out of the place it was in, so into a place it was not in.
  Assumption: `NoTask` is not a task; nothing is assumed of the requests, the
  dependencies or the failures. A process that ends with a task (`Loss`) leaves it in no place: the task is lost with
  the worker, or the process is dead from then on.
- **`DependenciesRespectedTheorem`**, **`ResultsStoredTheorem`**. The invariant `ResultsInv`, on
  top of `HandOver` and the types, follows a task through the places where it can be. What is
  left of its list is in order, and each dependency of what is left is ahead on the list, in
  hand at this moment, or has a result that is no failure (`ListInv`); the plugin in hand has
  all of its dependencies (`RunnerInv`, `PluginInv`), and between the failure of a plugin and
  the moment the collector takes its dependents off the list nothing else of
  the task moves (`CollectorInv`). Each planned plugin is still on the list, in hand,
  stored, or excused for one of the reasons the property names (`StoredInv`, `Accounted`); that
  the entry stays in the database needs that the image may not be deleted (`Lasting`). Each action
  changes one task (`OnlyMoves`), so there is one lemma on what it does to that task and one
  on the tasks it leaves alone. Assumptions: dependencies are loaded and
  `file_type` has none (`PluginsAssumption`), a plugin for every file depends on no
  plugin for images only (`RecursiveAssumption`), well-formed requests, versions and database.
- **`UpToDateWhenCompletedTheorem`**. `UpInv`, on top of `ResultsInv`, is about the only task for an
  object (`Alone`; what had to end before it has ended, `EndedInv`, so nobody else writes its
  entries). Its results are dated in the order in which they are made: what is on its way to the database
  is newer than all that is there (`Newest`), and no date is ahead of the clock (`EntriesInv`). A plugin is
  *settled* when it is off the list and in nobody's hand; whatever is settled is
  up to date with its dependencies, which are settled too (`SettledInv`), unless one of these
  did not succeed (`Broken`), which then stays so. The turn of a plugin comes after those it depends on
  (`Turn`), so settling it makes nothing before it stale; that is where a list consumed from its front fails.
  The system version is up to date where the task is the first to write an entry of the plugin
  (`EntryBefore`, `Unwritten`): else the old one stays (`db_interface_backend.py:141`).
  Hypotheses: entries from before are dated and have the
  version that a plugin whose result may be unstorable has now; such a plugin has no
  dependencies (a dropped result leaves an old entry that is older than theirs); lists of updates are
  sound, since they are not scheduled anew; nobody deletes the image. TLC checks the property
  on an instance where the last two fail for some of the tasks.
- **`ImplementsServiceTheorem`**: `Spec => ImplementsService`. The mapping takes the status from
  the phase of a task (open, closed, or lost when no process holds it any more), what it is busy
  with from the process that holds it, and what is left from its list. An action of the
  scheduler is one of the service for one task (accepted, considered, withdrawn, finished,
  given up), or changes none (`ServiceStep`): one lemma per action, each from the same facts about where the task
  is as above. That the plan has exactly the plugins the service wants comes from
  `PlansAreSound`. Hypotheses: the dependencies have no cycle (`Acyclic`; a cycle would be
  dropped from the plan, as `OnlyBlockedPluginsDropped` says), the mandatory plugins need no
  others (`Closed(Mandatory)`; the code adds them after the dependencies were added), and the
  list of an update names no plugin twice (`UpdatesDistinct`; it is not scheduled anew, so it would run
  twice). All three hold of the instances, the first two of FACT's plugins, and the third of what the web form
  sends; REST
  takes any list.

### Progress (`UnpackingScheduler_proofs`)

- **`CountersAgreeTheorem`**, `SomethingLeftTheorem`: for any sequence
  of calls with any arguments. `CountersAgree` is inductive together with the types and
  the finiteness of the lists; it needs the fact that an update replaces all fields
  at once, and is the reason why the two lists have to be disjoint. `SomethingLeft`
  needs that no call empties both lists of an image that stays active: adding leaves
  the image itself in `toAnalyze`, unpacking moves a file from one list to the other,
  removal takes out the image that is done. Assumptions: `Uids` finite, images
  and files distinct.
- **`ImplementsStatus`**, `ProgressTheorem`: every step of
  `UnpackingScheduler` is a step of `SpecStatus` or leaves it alone
  (`Spec => SpecStatus`; needs that file objects in the queue, the workers and the
  analysis are well formed, e.g. that the roots of a file are images), so both
  invariants hold for any number of workers, images and files, any contents,
  any `MaxDepth`.
- **`FinishedMeansAnalyzedTheorem`**. The lists of an image, with what ended, are what is *known* of
  it (`Known`); what waits to be analysed, is at the analysis, or ended has passed its unpacking
  (`Passed`). The invariant is that everything in what has passed is known (`UnderAnalysis`). So when both
  lists are empty, what ended holds the image and all that is in what ended, by induction over
  the depth everything below the image. A copy that comes late adds nothing, since whichever copy
  was unpacked first had the same contents; this is where the depth limit comes in, as a copy
  it cuts off has none. The image is unpacked once (`OnceInv`), and an update
  starts only after its request (`ListenerInv`). What an update sends has the roots the database knows, and these are
  images that hold the file (`RootsInv`), so an image that shares no file with an updated one is left alone. Of a file
  whose extractor fails nothing is known: the claim is about what lies in files of which it never does
  (`Reached`). Assumptions: `Contents` is a function
  to sets of files, `MaxDepth` a number.

### Processes, intercom, storage

- **`PluginInOrderTheorem`**, **`NothingSurvivesExitTheorem`** (`Backend_proofs`): `JobsInv` is the
  counterpart of `HandOver` for one plugin, with outcomes counted; `RingInv` says that an index
  outside of the ring has a worker that is about to look at it or was killed before; `ListInv`, that
  `check_exceptions`, which changes the list it iterates, keeps each worker in it
  once; `ExitInv`, what each step of the shutdown has stopped. Assumptions: workers are finite in
  number, the ring is not empty.
- **`ChunksKeptTheorem`**, **`FullAnswerNotLostTheorem`** (`Intercom_proofs`): as long as no two
  writers took the same key (`clash`), a chunk is in Redis exactly if something refers to it: a
  writer that has not pushed yet, an entry of a queue, a stored response, or a reader that has not come
  to it (`ChunkInv`); and a message is in one of these places (`QueueFlow`, `ClientFlow`), with as many
  keys as it needs (`LengthInv`). For any clients, chunk sizes, kinds of requests. `None`
  is no value of another kind, clients are no kinds.
- **`PagesServeWhatIsStored`**, **`PagesAgreeWithTheDatabase`** (`Intercom_proofs`): `PagesInv`
  relates what a request has found out to the history of the tables since it came in. What was
  stored throughout and what was stored at some time, objects and inclusions, bracket the tables from both sides;
  no comparison is there without its members (`PastInv`). A writer only moves the
  two apart (`PastMoves`), so what a request knows stays true when the tables have moved on: an object
  stored throughout is found, and found as an image (`ObjectInv`); who gets as far as the page has seen what it
  shows (`EvidenceInv`); a summary has stored items of the files of the image (`SummaryInv`, where the
  recursive query for the included files stays in the image); each image that has analyses is looked
  at before the list of missing ones ends (`MissingInv`). What the 19 programs have in common is
  proved kind by kind: no statement before one whose result it uses (`PageOrder`), and which kind ends how
  (`PageStatements`). The tags a page collects are of its list by induction over the list. Assumptions
  (`PagesConstants`): what an unpacking finds in a container of an image is inside both, and `Inside` is
  transitive; files, plugins and tags are finite; comparisons are nonempty sets of objects; the records of inclusion are
  of what some unpacking has found. A file may be in any number of images and containers. No image is a file of another one.
- **`EntriesTheorem`**, **`EntriesIntactTheorem`**, **`OthersSparedTheorem`** (`Storage_proofs`):
  `Inv == TypeInv /\ BinaryInv /\ InsertInv /\ (ImagesApart => SurviveInv)`. What is stored or
  on its way has its binary unless the listener for deletions looked while it came
  (`BinaryInv`); only the schedule process makes entries, so what it saw missing is
  missing (`InsertInv`); and until a deletion comes into it, what it and the collector saw
  stays (`SurviveInv`). `EntriesTheorem` has the parts on parents and binaries for any contents;
  that neither process ends needs `ImagesApart`, no image is a file of another file, because of the
  `update_firmware` of section 7. `OthersSpared`, the first part of `DeletionExact`, follows from the
  cascade being the least set that leaves no orphans.
- **`RecordsRealTheorem`** (`Storage_proofs`): no path or parent is made up, at any moment. An object
  on its way is `Real`: its base is a chain of archives from the root, each in the one before, and
  each of its names is one the last archive has for it. An extracted object extends the chain of its
  archive; entries get their paths and parents from such objects (`UpdatedIsReal`, whichever
  paths `MergeVfpLists` keeps), and a deletion only takes some away (`LessIsReal`).
- **`NothingPendingTheorem`** (`Storage_proofs`), under `ImagesApart`, without an overlap: the archives
  are in the queue before the files they hold (`InLine`), so what an object needs (`Needs`: its parents and
  roots) is an entry when the schedule process comes to it, `_update_entries` refuses none, and no
  lock stays with a task that is given up; a locked file is in the pipeline (`WaitInv`). An
  entry without an analysis is with the schedule process, among the results or with the collector
  (`AnalyzedInv`). A deletion without an overlap finds the pipeline empty.
- **`ComparisonsSoundTheorem`** (`Comparison_proofs`). A result is stored under the sorted uids of its
  objects (`Stored`), so one ID is all there can be for a set of objects (`SortedSet`: every uid of the
  set has one place). An ID that passes the check of its objects names each of them once
  (`ExistingObjects`), which is what makes the IDs of REST well formed; the result of such a comparison
  is sound whatever the objects contain (`CoverageIsPartition`, `GroupsFit`); and the objects can go
  between the sessions, but the insertion fails then and the cascade takes a result with its object.
  A redo in a queue was requested (`RedoOK`). Assumption: the relation of similar files is symmetric.

### Search and statistics (`Comparison_proofs`)

- **`EveryMatchIsShown`**, `BrowseSpec => []PagesShowEveryMatch`, from `BrowseInv == SearchInv /\ PageInv`.
  If no two matches have one sort key, there is one listing of them: two agree place by place, as the keys ascend
  in both
  (`OneOrder`). While nothing changes, what was shown
  is the beginning of it up to the page (`ListingInv`); a cached query is the one of the form, and
  using a query leaves it as it was, if no value in it is encoded (`UsedIsTheSame`). So the last page ends
  with the last match, and the total is the number of matches.
- **`ConditionsCombineTheorem`**, `BrowseSpec => []ConditionsCombine`. The rows of the join are those of the
  single conditions, if these need one plugin at most: a row that has the value for one of
  them is the row of the same analysis for the others. Of the alternatives none needs a plugin; with keys beside
  `$or`, which are dropped, what is found lies between those that meet everything and the alternatives.
- **`StatisticsAddUpTheorem`**, `BrowseSpec => []StatisticsAddUp`. Each row of a join has an image and so
  one vendor: the rows for the filter `{w}` are the rows without a filter whose image is of `w`
  (`JoinsByVendor`), and a number is the sum over such a partition (`SumOfParts`, for `GetSum` too). `SumOver` is a
  recursive function on the subsets of a finite set; that the recursion ends and that it does not matter which
  element is taken first is proved from induction over sizes (`SumsAreDefined`, `SumTakes`). Numbers counted
  without a join agree by a bijection between files and rows when each file with a result is in one
  image (`JoinDoesNotMatter`), and then the number and the size of files are those of the different files in
  images; a month no image of a vendor is from counts as 0 (`DatesAddUp`). `StatsInv`: as
  long as nothing changed, the entries the update has been at are what the database would give now.

  Assumptions (`BrowseConstants`): tables and queries are finite, the roots of a file are images, the
  columns a page is sorted by are comparable, a page has more than one row (a page of one result is shown as that
  result).

### Start, migration, edits and CVEs (`BesideBackend_proofs`)

- **`StarterLeavesNothing`**: what runs belongs to a phase of the life of the component that started
  it, or that component raised or was killed (`Owned`); and the starter stops the components in
  reverse order, so what it has stopped stays so (`InReverse`).
- **`UpgradeKeepsData`**, `Spec => []DataSurvives`, from two invariants. *Users* (`UserInv`): the committed table has
  all users at any time, and what the open transaction sees is right for the statement that comes
  next (`AtStatement`): the new table is filled before the old one is dropped, and between these
  two nothing is committed, as the `INSERT` has opened a transaction. *Migration*
  (`MigrationInv`): what is in the new database comes from MongoDB (`StoreSound`, which is all that a killed
  run leaves behind), and each frame of the recursion of `migrate_fw` is *settled*: below every entry that is not
  on its list any more all has been visited for the same root, except for the entry whose call is
  the next frame on the stack (`StackSound`). So when a call returns, everything below its object is done
  (`CallIsDone`), and when the first one returns, everything is. That a file is visited again for each root and
  parent, though it is there, is what makes this true. Assumption: nothing contains itself
  (an uid has the SHA-256 of the contents), else the recursion would not end; then no file is its own root
  (`BelowAcyclic`).

- **`EditsAreKept`**, `Spec => []EditsKept` of `Frontend`. Every edit reads in one session and writes in
  another (or reads the list and writes the whole of it), so what is to be shown is that as long as nothing
  overlaps, what was read is still true at the write. *Comments* (`ImageSound`): a session that edits the list
  has read the list that is stored, and its comment is newer than all others (`ReadsSound`, `IdsSound`); a submission
  in the queue finds no entry (`QueuesSound`), as it overwrites one; nothing is posted or deleted without
  an entry (`ListSound`). *Users* (`UsersSound`): each row of `roles_users` is one, of a user and a role that are there
  (`RowsSound`); the roles a request adds are not there and those it removes are (`EditSound`), so that an edit
  never makes a second row of a membership; and the answers that `manage_users.py` has checked are still valid, so
  that the database refuses nothing (`ToolSound`). The bookkeeping of overlaps counts what is under way; that
  there is at most one of it (`Single`) needs these sets to be finite (`ActivityFinite`). Assumption: the number
  of workers is finite.

- **`CvesStayKnown`**, **`LookupsAreComplete`**, **`UpdatesAgree`**, `CveSpec => KnownStaysKnown`,
  `CveSpec => []LookupMissesOnlyMoved` and `CveSpec => []UpdateAgreesWithFeed` of `CveDatabase`, from
  `CveIInv == DataInv /\ CleanInv`. *Tables* (`CveTablesInv`): the year of a row is that of its CVE (`SoundDb`), so
  that what the two `DELETE`s and `INSERT`s of a statement do can be told CVE by CVE. Until the summaries have been
  updated, the tables the script's connection sees are `Later` than those that are committed, so whatever
  part of them is committed next forgets nothing; and when the feeds have been updated, every feed
  of the temporary table is taken over (`FeedsTaken`), so that a CVE that leaves the summaries is in the feeds.
  *Lookups* (`LookupInv`): between the two queries a commit may move a summary away only with
  all summaries of its CVE, or its CVE has left the feeds (`CveMoves`); so what the tables always listed is among the
  hits of the first query, will be among those of the second, or is `Excused`: it has moved, or the query that
  would have found it was locked out (`LockedOutKeeps`). While a query reads, nothing is
  committed. Rows that do not fit a table never get into it (`SoundFitting`). *A clean update* (`Progress`): what
  the tables hold before each step of an update that nothing has disturbed,
  down to the temporary tables, which are empty when they are filled and hold the
  rows of the feed when they are copied. `EmptyDb` and `ImportedDb` satisfy all of it for any feeds
  (`InitData`). Assumptions: those of `CveDatabase` on its constants (years are numbers; a run is for
  the CPEs, the CVEs or both).

### Only model-checked

All liveness properties, which are out of the prover's reach, and `ComputesAPlan`, which is one. The
algorithms of section 4 with recursive definitions, which is induction over data.
Of `StorageAgrees`, that the entries and the disk are exactly the files of the stored images and that the
three records have all of them (its parts `RecordsReal` and `NothingPending` are proved), and the
second part of `DeletionExact` (both if `DepthSuffices`): they rest on `FilesOf` and `Descendants`, folds over
rounds, and
what these reach is induction over data. `TreeShowsEveryFile` of `Browse`: the nodes of a layer
are made from one path of a file below its container, and that a path for the root of the page and one for another root
show the same file there is a fact about the stored paths that `Browse`, whose databases are given, does
not have. The plugins besides `CveDatabase`: `PluginRules`
declares a recursive operator.

## 7. Observations

What the models show of the code where the sources promise nothing else, or nothing at
all. Properties name these as exceptions, so that they hold of everything else.

*Scheduling.* When a plugin fails, its direct dependents are taken off the list, but what depends
on those still runs, without the results it declared (`task_scheduler.py:71`). A failed `file_type` has no
`['mime']`, and the filter of the next plugin ends the
schedule process (`scheduler/analysis.py:392`). An update after a failed dependency compares with a
date that is not there, with the same result (`:357`). The results of the dependents that are unscheduled are not
stored. A requested
name that is not loaded is a `KeyError` while it is scheduled. An update keeps the old
`system_version` (`db_interface_backend.py:144`), so a plugin with a new one runs at every update. A value the database
refuses is raised again and ends the collector (`:85`). A child killed from outside ends its worker, and the task
is lost
(`PluginBase.py:182`). The update of a single file counts for the progress
of its image (`analysis.py:51`). The constructor of a plugin may raise out of `_load_plugins`
(`:193`).

*Progress.* A copy of a file that the depth limit does not unpack may be analysed before the copy that
is: the image is then shown as finished while the shallower copy waits to be unpacked
(`analysis_status.py:48`). An update of an image, or of a file, takes the files that end off the lists of all images
they are in: one that is still under analysis may be shown as finished before its own copy was analysed.

*Processes.* Two workers that take a number of the ring of durations at once drift past its end; the next one
brings the index back (`PluginBase.py:188`). An analysis that does not end on SIGTERM is not ended by its timeout,
as the worker joins it
without limit (`terminate_process_and_children`). A
signal between registration of the handler and `setpgid` is lost, and the process killed
after 60 seconds (`fact_base.py:41`, `start_fact.py:75`). The starter does not notice a backend
that dies after the check at two seconds.

*Storage.* When an image is uploaded that is stored as a file of another image, there is an entry
but no firmware row, and `update_firmware` raises in the schedule process
(`db_interface_backend.py:121`). A deletion that overtakes the storing of a file leaves virtual
file paths of an image that is gone. Files without any analysis are not reported missing. Of the tags of three children
`v1, v2, v2` of one type `v1` is lost (`db_interface_common.py:196`). The deletion checks entry and
lock before it removes the binary, so an upload in between loses it. When the depth limit leaves an
archive packed in one image that another image has unpacked, the deletion of the second leaves what is
in the archive with its entry, as a parent is still there, and with virtual file paths of the
image that is gone: the docstring of `_remove_virtual_path_entries` says that a file of no other firmware is
deleted (`db_interface_admin.py:53`). For the deletion of the first image it then counts as a file of another one: its
entry goes as an orphan, its binary stays on disk for good (`:76`). TLC finds both with A holding y, B holding y in an
archive, a file in y and `MaxDepth = 2`, when `DepthSuffices` is taken out of `StorageAgrees` and `DeletionExact`.

*Intercom.* Two writers may pick the same free chunk key. An empty answer is taken for no
answer. `rest_binary` and `ajax_get_binary` raise `TypeError` after a timeout
(`rest_binary.py:53`, `ajax_routes.py:88`).

*Web.* The comparison of texts raises when the image that the entry of a shared file names first is gone
before the second statement, although another one keeps the file (`compare_routes.py:207`). An upload without file
is a `KeyError` although the docstring says `None`
(`task_conversion.py:137`). In a query `$or` drops the keys beside it (`query_conversion.py:68`), so the vendor
filter that
`apply_filters_to_query` adds has no effect in the quick search. Conditions on two plugins never match together;
the count encodes
the JSON values again; a single result on a page redirects. `get_executable_stats` ignores the
filter, `number_of_unique_files` and the size beside it, shown as "unique included files", count pairs of file and image
(`update.py:54`), and `update_statistic` waits for
an exception that is never raised. A summary of an unknown firmware raises in REST instead of
being a 400. `ida-download` never finds its file. A redo of a comparison
ends the scheduler, which has no `db_admin_interface` (`comparison_scheduler.py:64`), and the process
that replaces it is given an argument its function does not take: no comparison is made
until the backend is started again.

*Plugins.* Words of CVE summaries are not lower-cased but for the vendor; only the first match
of a product is followed; rejected CVEs stay. The script removes "a broken partial DB" also if it is
complete (`setup_repository.py:310`). A lookup whose query is locked out finds nothing, and says so only in the log. A
requested version with dots that no rule can order raises in the sort (`cve_lookup.py:151`). `qemu_exec` tests
duplicates again (`:175`), and its threads
overwrite each other's results (`:216`). A killed analysis leaves its container and temporary
directory; a stop that fails leaves the container, as `remove()` is skipped (`docker.py:58`); a job that raises has
the directory removed beside the containers of the others (`qemu_exec.py:119`). `suppress(DockerException,
TimeoutError)` does not catch `ReadTimeout`. A yara rule with
`warning` in its name finds nothing, other unexpected output raises (`yara_binary_search.py:60`);
`known_vulnerabilities` and `crypto_material` do not look whether YARA failed. Two accounts of one
name and type leave the last (`password_file_analyzer.py:73`); a line of john without colon raises
(`:131`). A configuration that is not UTF-8 fails `kernel_config`; an empty inittab has no summary.
A magic word in the last 36 bytes makes `device_tree` raise (`device_tree_utils.py:65`). A comma is
missing between `ARM64_PAN` and `ARM64_LSE_ATOMICS` (`kconfig/arm.py`). A MIPS release without name
is listed under the empty name (`elf.py:19`). The container of `cwe_checker` raises before the
plugin could say "Timeout". A `checksec` report without the entry is a `KeyError`.
`information_leaks` keeps the last path per artifact (`:99`) and reads `file_type` without
declaring the dependency. `source_code_analysis` adds what linguist says to the result of `file_type`
after that was stored, so it does not reach the database although a template shows it (`:101`);
`interesting_uris` takes entries out of the list of `ip_and_uri_finder` in the task (`:104`). `tlsh`
compares with the hashes stored so far, so of two similar files maybe only one lists the
other. Groups of similar files with equal abbreviated uids share a row (`file_coverage.py:127`).

*Migration.* A firmware image that is also a file of another one loses its own entry
(`migrate_db_to_postgresql.py:107`).

## 8. Plan

Done, in this order: the scheduler core (`TaskOrder`, `TaskScheduler`, `AnalysisScheduler` with
`AnalysisService`, `AnalysisStatus`, `UnpackingScheduler`); plugin workers and
supervision; storage and deletion; intercom; comparison; web interface, search and statistics;
start and migration; the plugins. Proved: the order of the plugins, every safety property of the
core, the refinement of `AnalysisService`, progress, processes, intercom, the
entries of the storage with their paths and locks, what is stored of comparisons, start and
migration, the edits of the web interface and the console tool, the pages that only read,
searches and their pages, the statistics, and the CVE database.

Left, most important first:

1. Proofs: the rest of `StorageAgrees` and of `DeletionExact`, with
   `FilesOf` and `Descendants` stated as least sets (as `Cascade` is) or bounded chains.
2. `Storage` composed with `Intercom`, so that the deletion of binaries is a listener that may die.
3. The shutdown of the schedulers with tasks in their queues.
4. The plugins left out below, as far as they decide something themselves.


## 9. Not modelled

- Templates, Jinja filters and charts, HTML of the comparison: layout.
- The installer (`install/`, `install.py`), `config.py`: commands run once, and types of a
  configuration file. Schema, roles and engines: declarations, of which `Storage` has the cascades
  and `Upgrade` the scripts.
- Plugins that only call a program or evaluate an expression: strings, binwalk, hashes, ipc,
  input_vectors, the single linters. A plugin in the scheduler is what it declares and whether
  it may fail.
- The container of the unpacker: it yields files. Repacking of binaries: I/O.
- CPU, memory and disk figures; the memory limit and stack dumps of the main process.
- Logins, sessions and passwords: Flask-Security.
- In `Intercom`, a connection to Redis that breaks after it has popped a task and before it has said so (the task
  and its chunks are lost with it); in `Frontend`, the death of a listener at a missing binary.
- `clear_recently_finished` is in `AnalysisStatus` and its proofs, but not in the runs: no image
  there finished 300 seconds ago.
