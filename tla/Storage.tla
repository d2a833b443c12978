------------------------------ MODULE Storage ------------------------------
(***************************************************************************)
(* The stored files of the backend: entries in the database, binaries on   *)
(* disk and the unpacking locks, written by the processes of an upload     *)
(* (listener, unpack worker, schedule process, result collector) and by    *)
(* the deletion of a firmware (database interface of the frontend, then a  *)
(* listener of the backend).  A step is one session of the database or one *)
(* access to the locks or the disk.                                        *)
(***************************************************************************)
EXTENDS FileTree

CONSTANTS
    Images,          \* the files that are uploaded as firmware
    MaxUploads, MaxDeletions    \* bounds

ASSUME StorageConstants ==
    Images \subseteq Uids /\ MaxUploads \in Nat /\ MaxDeletions \in Nat

VARIABLES
    db,              \* tables file_object, firmware, included_files, fw_files, analysis
    disk,            \* uids of the binaries in the file storage
    locks,           \* unpacking_locks
    unpackQueue,     \* in_queue of the unpacking scheduler
    processQueue,    \* process_queue of the analysis scheduler
    sched,           \* the schedule process in pre_analysis: its step and its object
    results,         \* uids with a result for the collector
    collector,       \* the collector in add_analysis: its step and its uid
    admin,           \* delete_firmware: its step, firmware and uids to delete
    deleteQueue,     \* Redis queue file_delete_task
    deleter,         \* the listener for deletions: its step, uid and the rest
    uploads, deletions,   \* how many there were
    overlap,         \* a deletion and an upload were under way at the same time
    raced            \* uids that were processed while their deletion was

vars == <<db, disk, locks, unpackQueue, processQueue, sched, results, collector,
          admin, deleteQueue, deleter, uploads, deletions, overlap, raced>>

NoObject == FirmwareObject(CHOOSE u \in Images : TRUE)
Idle == [step |-> "idle", fo |-> NoObject]

Init ==
    /\ db = <<>> /\ disk = {} /\ locks = {}
    /\ unpackQueue = <<>> /\ processQueue = <<>>
    /\ sched = Idle
    /\ results = {}
    /\ collector = [step |-> "idle", uid |-> ""]
    /\ admin = [step |-> "idle", uid |-> "", uids |-> {}]
    /\ deleteQueue = <<>>
    /\ deleter = [step |-> "idle", uid |-> "", rest |-> {}]
    /\ uploads = 0 /\ deletions = 0
    /\ overlap = FALSE /\ raced = {}

\* What is on its way into the database, and whether a deletion is under way.
InPipeline ==
    {unpackQueue[i].uid : i \in DOMAIN unpackQueue}
    \cup {processQueue[i].uid : i \in DOMAIN processQueue}
    \cup (IF sched.step \in {"idle", "dead"} THEN {} ELSE {sched.fo.uid})
    \cup results
    \cup (IF collector.step \in {"idle", "dead"} THEN {} ELSE {collector.uid})
Deleting == admin.step # "idle" \/ deleteQueue # <<>> \/ deleter.step # "idle"
Quiet == InPipeline = {} /\ ~Deleting

\* Bookkeeping for the properties: has this step brought an upload and a
\* deletion together?
Watch ==
    /\ overlap' = (overlap \/ (InPipeline' # {} /\ Deleting'))
    /\ raced' = IF deleter'.step = "idle" THEN raced
                ELSE raced \cup (InPipeline' \cap {deleter'.uid})

pipelineVars == <<unpackQueue, processQueue, sched, results, collector>>
deletionVars == <<admin, deleteQueue, deleter, deletions>>

-----------------------------------------------------------------------------
(* An upload *)

\* The listener stores the binary (no lock) and schedules the unpacking.
Upload(uid) ==
    /\ uploads < MaxUploads
    /\ uploads' = uploads + 1
    /\ disk' = disk \cup {uid}
    /\ unpackQueue' = Append(unpackQueue, FirmwareObject(uid))
    /\ UNCHANGED <<db, locks, processQueue, sched, results, collector, deletionVars>>
    /\ Watch

\* An unpack worker: every file that is found is locked, then stored, the archive
\* too if it holds itself.  Below the depth limit nothing is extracted; without its
\* binary the task is lost with the worker.
UnpackFails ==
    /\ unpackQueue # <<>> /\ Head(unpackQueue).uid \notin disk
    /\ unpackQueue' = Tail(unpackQueue)
    /\ UNCHANGED <<db, disk, locks, processQueue, sched, results, collector, deletionVars, uploads>>
    /\ Watch

Unpack ==
    /\ unpackQueue # <<>> /\ Head(unpackQueue).uid \in disk
    /\ LET fo == Head(unpackQueue)
           deep == fo.depth >= MaxDepth
           stored == IF deep THEN {} ELSE YieldedUids(fo) IN
       /\ \E order \in SetToSeqs(IF deep THEN {} ELSE ExtractedUids(fo)) :
            unpackQueue' = Tail(unpackQueue) \o ExtractedObjects(fo, order)
       /\ processQueue' = Append(processQueue, fo)
       /\ locks' = locks \cup stored
       /\ disk' = disk \cup stored
    /\ UNCHANGED <<db, sched, results, collector, deletionVars, uploads>>
    /\ Watch

\* add_object: is there an entry?
CheckObject ==
    /\ sched.step = "idle" /\ processQueue # <<>>
    /\ LET fo == Head(processQueue) IN
         sched' = [step |-> IF fo.uid \notin DOMAIN db THEN "insert"
                            ELSE IF fo.firmware THEN "update_firmware" ELSE "update_file",
                   fo |-> fo]
    /\ processQueue' = Tail(processQueue)
    /\ UNCHANGED <<db, disk, locks, unpackQueue, results, collector, deletionVars, uploads>>
    /\ Watch

\* _update_parents: an error if there are parents and none of them is there.
NoneThere(uids) == uids # {} /\ uids \cap DOMAIN db = {}
ParentsMissing(fo) == NoneThere(fo.roots) \/ NoneThere(fo.parents)
Linked(entry, fo) ==
    [entry EXCEPT !.roots = @ \cup (fo.roots \cap DOMAIN db),
                  !.parents = @ \cup (fo.parents \cap DOMAIN db)]
With(uid, entry) == [u \in DOMAIN db \cup {uid} |-> IF u = uid THEN entry ELSE db[u]]

\* insert_object.  After an error the task is given up: its lock stays.
InsertObject ==
    /\ sched.step = "insert"
    /\ IF ParentsMissing(sched.fo)
         THEN sched' = Idle /\ UNCHANGED db
         ELSE /\ db' = With(sched.fo.uid,
                            Linked([NewEntry(sched.fo) EXCEPT !.roots = {}, !.parents = {}], sched.fo))
              /\ sched' = [sched EXCEPT !.step = "release"]
    /\ UNCHANGED <<disk, locks, unpackQueue, processQueue, results, collector, deletionVars, uploads>>
    /\ Watch

\* update_firmware: without a row in the table firmware the attribute access on
\* None ends the schedule process.
UpdateFirmware ==
    /\ sched.step = "update_firmware"
    /\ sched' = [sched EXCEPT !.step =
                    IF sched.fo.uid \in DOMAIN db /\ db[sched.fo.uid].metaData
                      THEN "update_file" ELSE "dead"]
    /\ UNCHANGED <<db, disk, locks, unpackQueue, processQueue, results, collector, deletionVars, uploads>>
    /\ Watch

\* update_file_object, the same for a missing entry.
UpdatedEntry(fo) ==
    Linked([db[fo.uid] EXCEPT !.vfp = UpdateVirtualFilePath(VfpOf(fo), @),
                              !.firmware = fo.firmware], fo)
UpdateFile ==
    /\ sched.step = "update_file"
    /\ LET fo == sched.fo IN
         IF fo.uid \notin DOMAIN db
           THEN sched' = [sched EXCEPT !.step = "dead"] /\ UNCHANGED db
         ELSE IF ParentsMissing(fo)
           THEN sched' = Idle /\ UNCHANGED db
           ELSE db' = With(fo.uid, UpdatedEntry(fo)) /\ sched' = [sched EXCEPT !.step = "release"]
    /\ UNCHANGED <<disk, locks, unpackQueue, processQueue, results, collector, deletionVars, uploads>>
    /\ Watch

\* Mutant: the lock is kept.
KeepLock ==
    /\ sched.step = "release"
    /\ results' = results \cup {sched.fo.uid}
    /\ sched' = Idle
    /\ UNCHANGED <<db, disk, locks, unpackQueue, processQueue, collector, deletionVars, uploads>>
    /\ Watch

\* The lock is released and the file is analyzed.
ReleaseLock ==
    /\ sched.step = "release"
    /\ locks' = locks \ {sched.fo.uid}
    /\ results' = results \cup {sched.fo.uid}
    /\ sched' = Idle
    /\ UNCHANGED <<db, disk, unpackQueue, processQueue, collector, deletionVars, uploads>>
    /\ Watch

\* add_analysis in the collector: analysis_exists, then update or insert.  An entry
\* that is gone before the update ends the collector; before the insert it is
\* an error that is logged.
CheckAnalysis(uid) ==
    /\ collector.step = "idle" /\ uid \in results
    /\ results' = results \ {uid}
    /\ collector' = [step |-> IF uid \in DOMAIN db /\ db[uid].analyzed THEN "update" ELSE "insert",
                     uid |-> uid]
    /\ UNCHANGED <<db, disk, locks, unpackQueue, processQueue, sched, deletionVars, uploads>>
    /\ Watch

StoreAnalysis ==
    /\ collector.step \in {"update", "insert"}
    /\ LET there == collector.uid \in DOMAIN db IN
         /\ db' = IF there THEN [db EXCEPT ![collector.uid].analyzed = TRUE] ELSE db
         /\ collector' = [step |-> IF collector.step = "update"
                                      /\ ~(there /\ db[collector.uid].analyzed)
                                   THEN "dead" ELSE "idle", uid |-> ""]
    /\ UNCHANGED <<disk, locks, unpackQueue, processQueue, sched, results, deletionVars, uploads>>
    /\ Watch

-----------------------------------------------------------------------------
(* The deletion of a firmware *)

\* First session of delete_firmware.
RemovePaths(uid) ==
    /\ admin.step = "idle" /\ deletions < MaxDeletions
    /\ uid \in DOMAIN db /\ db[uid].firmware
    /\ deletions' = deletions + 1
    /\ db' = RemoveVirtualPathEntries(db, uid)
    /\ admin' = [step |-> "delete", uid |-> uid, uids |-> UidsToDelete(db, uid)]
    /\ UNCHANGED <<disk, locks, pipelineVars, deleteQueue, deleter, uploads>>
    /\ Watch

\* delete_object, the second session; the uids go to the backend.
DeleteObject ==
    /\ admin.step = "delete"
    /\ db' = IF admin.uid \in DOMAIN db THEN RemoveRows(db, Cascade(db, admin.uid)) ELSE db
    /\ admin' = [admin EXCEPT !.step = "send"]
    /\ UNCHANGED <<disk, locks, pipelineVars, deleteQueue, deleter, uploads, deletions>>
    /\ Watch

SendDeletion ==
    /\ admin.step = "send"
    /\ deleteQueue' = Append(deleteQueue, admin.uids \cup {admin.uid})
    /\ admin' = [step |-> "idle", uid |-> "", uids |-> {}]
    /\ UNCHANGED <<db, disk, locks, pipelineVars, deleter, uploads, deletions>>
    /\ Watch

-----------------------------------------------------------------------------
(* InterComBackEndDeleteFile, one uid after the other *)

NextUid(uids) ==
    IF uids = {} THEN [step |-> "idle", uid |-> "", rest |-> {}]
    ELSE LET u == CHOOSE x \in uids : TRUE
         IN  [step |-> "exists", uid |-> u, rest |-> uids \ {u}]

TakeDeletion ==
    /\ deleter.step = "idle" /\ deleteQueue # <<>>
    /\ deleter' = NextUid(Head(deleteQueue))
    /\ deleteQueue' = Tail(deleteQueue)
    /\ UNCHANGED <<db, disk, locks, pipelineVars, admin, uploads, deletions>>
    /\ Watch

\* Mutant: only the lock is looked at.
SkipCheckOfEntry ==
    /\ deleter.step = "exists"
    /\ deleter' = [deleter EXCEPT !.step = "lock"]
    /\ UNCHANGED <<db, disk, locks, pipelineVars, admin, deleteQueue, uploads, deletions>>
    /\ Watch

CheckEntry ==
    /\ deleter.step = "exists"
    /\ deleter' = IF deleter.uid \in DOMAIN db THEN NextUid(deleter.rest)
                  ELSE [deleter EXCEPT !.step = "lock"]
    /\ UNCHANGED <<db, disk, locks, pipelineVars, admin, deleteQueue, uploads, deletions>>
    /\ Watch

CheckLock ==
    /\ deleter.step = "lock"
    /\ deleter' = IF deleter.uid \in locks THEN NextUid(deleter.rest)
                  ELSE [deleter EXCEPT !.step = "remove"]
    /\ UNCHANGED <<db, disk, locks, pipelineVars, admin, deleteQueue, uploads, deletions>>
    /\ Watch

RemoveFile ==
    /\ deleter.step = "remove"
    /\ disk' = disk \ {deleter.uid}
    /\ deleter' = NextUid(deleter.rest)
    /\ UNCHANGED <<db, locks, pipelineVars, admin, deleteQueue, uploads, deletions>>
    /\ Watch

Next ==
    \/ \E uid \in Images : Upload(uid) \/ RemovePaths(uid)
    \/ Unpack \/ UnpackFails \/ CheckObject \/ InsertObject \/ UpdateFirmware \/ UpdateFile \/ ReleaseLock
    \/ \E uid \in results : CheckAnalysis(uid)
    \/ StoreAnalysis
    \/ DeleteObject \/ SendDeletion
    \/ TakeDeletion \/ CheckEntry \/ CheckLock \/ RemoveFile

Spec == Init /\ [][Next]_vars

-----------------------------------------------------------------------------
(* Properties *)

TypeOK ==
    /\ DOMAIN db \subseteq Uids /\ disk \subseteq Uids /\ locks \subseteq Uids
    /\ \A u \in DOMAIN db :
         /\ db[u].firmware \in BOOLEAN /\ db[u].metaData \in BOOLEAN /\ db[u].analyzed \in BOOLEAN
         /\ db[u].parents \subseteq DOMAIN db /\ db[u].roots \subseteq DOMAIN db
         /\ DOMAIN db[u].vfp \subseteq Images
    /\ results \subseteq Uids /\ raced \subseteq Uids /\ overlap \in BOOLEAN
    /\ sched.step \in {"idle", "insert", "update_firmware", "update_file", "release", "dead"}
    /\ collector.step \in {"idle", "update", "insert", "dead"}
    /\ admin.step \in {"idle", "delete", "send"}
    /\ deleter.step \in {"idle", "exists", "lock", "remove"}

\* In every interleaving of uploads, analyses and deletions an entry that is no
\* firmware has a parent: _update_entries refuses a file whose parents are gone,
\* and delete_file_orphans takes the files of a deleted parent with it.
NoOrphans == \A u \in DOMAIN db : db[u].firmware \/ db[u].parents # {}

\* An entry of the database has its binary on disk, unless the file was on its
\* way into the database while the listener for deletions looked at it: that
\* window is the only way the checks of database and lock can miss an upload.
BinaryPresent == \A u \in DOMAIN db : u \in disk \/ u \in raced

\* No exception ends the schedule process or the collector between the check for
\* an entry and its update, as long as no deletion overlaps an upload.
ProcessesSurvive == overlap \/ (sched.step # "dead" /\ collector.step # "dead")

\* The three, at every moment.
EntriesIntact == TypeOK /\ NoOrphans /\ BinaryPresent /\ ProcessesSurvive

FilesWithin(image, depth) ==
    FoldLeft(LAMBDA found, i : found \cup UNION {YieldedUids([uid |-> u]) : u \in found},
             {image}, [i \in 1 .. depth |-> i])
FilesOf(image) == FilesWithin(image, MaxDepth)

\* No image holds an archive that its depth limit leaves packed.  If one does, and
\* another image has it unpacked, the deletion of that image leaves what is in it with
\* an entry, and the deletion of the first, after that, with a binary.
DepthSuffices ==
    \A i \in Images : \A u \in FilesOf(i) \ FilesWithin(i, MaxDepth - 1) :
        ExtractedUids([uid |-> u]) = {}

Stored == Images \cap DOMAIN db
IsPath(path, root, u) ==
    /\ path[1] = root
    /\ \A i \in 1 .. Len(path) - 2 : path[i + 1] \in ExtractedUids([uid |-> path[i]])
    /\ \E c \in Content[path[Len(path) - 1]] : c.name = Last(path) /\ c.uid = u

\* Every virtual file path leads through archives that hold one another, and every
\* record of included_files is of an archive that holds the file.
RecordsReal ==
    \A u \in DOMAIN db \ Images :
        /\ \A r \in DOMAIN db[u].vfp : \A p \in db[u].vfp[r] : IsPath(p, r, u)
        /\ \A a \in db[u].parents : u \in ExtractedUids([uid |-> a])

\* No file is still locked, lacks its binary or waits for its analysis.
NothingPending == locks = {} /\ \A u \in DOMAIN db : u \in disk /\ db[u].analyzed

\* When everything is done, and no deletion overlapped an upload, every lock is
\* released and every file has its binary and its analysis.  If no archive was left
\* packed, there are no other binaries on disk; the entries are the files of the stored
\* images, with three records that agree: the virtual file paths, fw_files (the images
\* that hold the file) and included_files (the archives that hold it).
StorageAgrees ==
    (Quiet /\ ~overlap) =>
        /\ NothingPending /\ RecordsReal
        /\ DepthSuffices =>
             /\ disk \subseteq DOMAIN db
             /\ DOMAIN db = UNION {FilesOf(i) : i \in Stored}
             /\ \A u \in DOMAIN db \ Images :
                  LET vfp == db[u].vfp
                      paths == UNION {vfp[r] : r \in DOMAIN vfp}
                  IN  /\ DOMAIN vfp = {i \in Stored : u \in FilesOf(i)}
                      /\ db[u].roots = DOMAIN vfp
                      /\ db[u].parents = {p[Len(p) - 1] : p \in paths}

\* The deletion of a firmware takes no other firmware with it, and no file that
\* still has an archive.
OthersSpared ==
    LET gone == DOMAIN db \ DOMAIN db' IN
    \A u \in gone : u = admin.uid \/ (~db[u].firmware /\ db[u].parents \subseteq gone)

\* Nor, if no deletion overlapped an upload and no archive was left packed, a file of
\* another firmware: then the two rules of a deletion agree.  The entries that go with
\* the firmware because no parent is left (delete_file_orphans) are the files no other
\* firmware has a path to (delete_firmware), which are the ones whose binaries go.
DeletionExact ==
    [][DeleteObject =>
          /\ OthersSpared
          /\ ~overlap /\ DepthSuffices => DOMAIN db \ DOMAIN db' = admin.uids \cup {admin.uid}]_vars
=============================================================================
