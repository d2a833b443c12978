--------------------------- MODULE Storage_proofs ---------------------------
(***************************************************************************)
(* Entries, binaries and the processes that write them, for any files,     *)
(* images, contents, depth limit and any interleaving of uploads and       *)
(* deletions.                                                              *)
(***************************************************************************)
EXTENDS Storage, FiniteSetTheorems, TLAPS

\* No image is a file of something else.  Only the schedule process needs it: the
\* upload of a file that is stored as part of another image finds an entry without
\* a row in the table firmware, and ends it.
ImagesApart == \A u \in Uids : \A c \in Content[u] : c.uid \in Images => c.uid = u

-----------------------------------------------------------------------------
(* The types *)

Names == Uids \cup UNION {{c.name : c \in Content[u]} : u \in Uids}
Paths == Seq(Uids \cup Names)
Vfps == UNION {[R -> SUBSET Paths] : R \in SUBSET Images}

Objects ==
    [uid : Uids, firmware : BOOLEAN, root : Images, parents : SUBSET Uids,
     roots : SUBSET Uids, base : Seq(Uids), names : SUBSET Names, depth : Nat]
Entries ==
    [firmware : BOOLEAN, metaData : BOOLEAN, parents : SUBSET Uids,
     roots : SUBSET Uids, vfp : Vfps, analyzed : BOOLEAN]

\* Every object that is no firmware has been extracted from something.
GoodObject(fo) ==
    /\ fo \in Objects
    /\ fo.firmware \/ fo.parents # {}
    /\ ImagesApart => (fo.firmware <=> fo.uid \in Images)

GoodQueue(q) == q \in Seq(Objects) /\ \A i \in DOMAIN q : GoodObject(q[i])

\* An entry, whose relations are to others that are there.
GoodEntry(e, there) ==
    /\ e \in Entries
    /\ e.parents \subseteq there /\ e.roots \subseteq there
    /\ e.firmware \/ e.parents # {}

EntriesOK ==
    /\ DOMAIN db \subseteq Uids
    /\ \A u \in DOMAIN db : GoodEntry(db[u], DOMAIN db)
ObjectsOK == GoodQueue(unpackQueue) /\ GoodQueue(processQueue)
Steps == {"idle", "insert", "update_firmware", "update_file", "release", "dead"}
SchedOK ==
    /\ sched.step \in Steps
    /\ sched.step # "idle" => sched \in [step : Steps, fo : Objects] /\ GoodObject(sched.fo)
    /\ sched.step = "update_firmware" => sched.fo.firmware
CollectorOK ==
    /\ collector.step \in {"idle", "update", "insert", "dead"}
    /\ collector.step \in {"update", "insert"} => collector.uid \in Uids
    /\ results \subseteq Uids
DeletionOK ==
    /\ admin = [step |-> admin.step, uid |-> admin.uid, uids |-> admin.uids]
    /\ admin.step \in {"idle", "delete", "send"}
    /\ deleter = [step |-> deleter.step, uid |-> deleter.uid, rest |-> deleter.rest]
    /\ deleter.step \in {"idle", "exists", "lock", "remove"}
FilesOK == disk \subseteq Uids /\ locks \subseteq Uids
WatchOK ==
    /\ overlap \in BOOLEAN /\ raced \subseteq Uids
    /\ InPipeline # {} /\ Deleting => overlap
    /\ deleter.step # "idle" => InPipeline \cap {deleter.uid} \subseteq raced

TypeInv ==
    EntriesOK /\ ObjectsOK /\ SchedOK /\ CollectorOK /\ DeletionOK /\ FilesOK /\ WatchOK

-----------------------------------------------------------------------------
(* The invariants *)

\* What is stored or on its way has its binary, and the listener for deletions
\* removes the binary of an entry only if the entry came while it looked.
BinaryInv ==
    /\ \A u \in InPipeline \cup DOMAIN db : u \in disk \cup raced
    /\ deleter.step \in {"lock", "remove"} /\ deleter.uid \in DOMAIN db => deleter.uid \in raced

\* Only the schedule process makes entries; until a deletion comes into it, what
\* it and the collector have seen stays true.
InsertInv == sched.step = "insert" => sched.fo.uid \notin DOMAIN db
SurviveInv ==
    /\ \A u \in DOMAIN db : u \in Images => db[u].metaData
    /\ ~overlap =>
        /\ sched.step \in {"update_firmware", "update_file"} => sched.fo.uid \in DOMAIN db
        /\ collector.step = "update" => collector.uid \in DOMAIN db /\ db[collector.uid].analyzed
        /\ sched.step # "dead" /\ collector.step # "dead"

Inv == TypeInv /\ BinaryInv /\ InsertInv /\ (ImagesApart => SurviveInv)

-----------------------------------------------------------------------------
(* Paths and entries *)

\* What is a function from images to sets of paths.
LEMMA VfpsAre ==
    ASSUME NEW f
    PROVE  f \in Vfps <=> /\ DOMAIN f \subseteq Images
                          /\ f = [r \in DOMAIN f |-> f[r]]
                          /\ \A r \in DOMAIN f : f[r] \in SUBSET Paths
<1>1. ASSUME f \in Vfps
      PROVE  /\ DOMAIN f \subseteq Images /\ f = [r \in DOMAIN f |-> f[r]]
             /\ \A r \in DOMAIN f : f[r] \in SUBSET Paths
  <2>1. PICK R \in SUBSET Images : f \in [R -> SUBSET Paths]
    BY <1>1 DEF Vfps
  <2> QED
    BY <2>1
<1>2. ASSUME DOMAIN f \subseteq Images, f = [r \in DOMAIN f |-> f[r]],
             \A r \in DOMAIN f : f[r] \in SUBSET Paths
      PROVE  f \in Vfps
  <2>1. f \in [DOMAIN f -> SUBSET Paths] /\ DOMAIN f \in SUBSET Images
    BY <1>2
  <2> QED
    BY <2>1 DEF Vfps
<1> QED
    BY <1>1, <1>2

LEMMA VfpOfObject ==
    ASSUME NEW fo \in Objects
    PROVE  VfpOf(fo) \in Vfps
<1>1. fo.root \in Images /\ fo.base \in Seq(Uids) /\ fo.names \subseteq Names
    BY DEF Objects
<1>2. fo.base \in Seq(Uids \cup Names)
    BY <1>1
<1>3. ASSUME NEW name \in fo.names PROVE Append(fo.base, name) \in Paths
    BY <1>1, <1>2 DEF Paths
<1>4. {Append(fo.base, name) : name \in fo.names} \in SUBSET Paths
    BY <1>3
<1>5. VfpOf(fo) \in [{fo.root} -> SUBSET Paths] /\ {fo.root} \in SUBSET Images
    BY <1>1, <1>4 DEF VfpOf
<1> QED
    BY <1>5 DEF Vfps

LEMMA UpdatedVfp ==
    ASSUME NEW new \in Vfps, NEW old \in Vfps
    PROVE  UpdateVirtualFilePath(new, old) \in Vfps
<1> DEFINE f == UpdateVirtualFilePath(new, old)
<1>1. /\ DOMAIN f = DOMAIN old \cup DOMAIN new
      /\ f = [r \in DOMAIN f |-> f[r]]
      /\ \A r \in DOMAIN f :
            f[r] = IF r \notin DOMAIN new THEN old[r]
                   ELSE IF r \notin DOMAIN old THEN new[r]
                   ELSE MergeVfpLists(old[r], new[r])
    BY DEF UpdateVirtualFilePath
<1>2. /\ DOMAIN old \subseteq Images /\ \A r \in DOMAIN old : old[r] \in SUBSET Paths
      /\ DOMAIN new \subseteq Images /\ \A r \in DOMAIN new : new[r] \in SUBSET Paths
    BY VfpsAre
<1>3. ASSUME NEW a \in SUBSET Paths, NEW b \in SUBSET Paths
      PROVE  MergeVfpLists(a, b) \in SUBSET Paths
    BY DEF MergeVfpLists
<1> HIDE DEF f
<1>4. ASSUME NEW r \in DOMAIN f PROVE f[r] \in SUBSET Paths
  <2>1. CASE r \notin DOMAIN new
    BY <1>1, <1>2, <2>1
  <2>2. CASE r \in DOMAIN new /\ r \notin DOMAIN old
    BY <1>1, <1>2, <2>2
  <2>3. CASE r \in DOMAIN new /\ r \in DOMAIN old
    BY <1>1, <1>2, <1>3, <2>3
  <2> QED
    BY <2>1, <2>2, <2>3
<1>5. f \in Vfps
    BY <1>1, <1>2, <1>4, VfpsAre
<1> QED
    BY <1>5 DEF f

LEMMA RestrictedVfp ==
    ASSUME NEW old \in Vfps, NEW root
    PROVE  Restrict(old, DOMAIN old \ {root}) \in Vfps
<1>1. DOMAIN old \subseteq Images /\ \A r \in DOMAIN old : old[r] \in SUBSET Paths
    BY VfpsAre
<1>2. /\ DOMAIN old \ {root} \in SUBSET Images
      /\ Restrict(old, DOMAIN old \ {root}) \in [DOMAIN old \ {root} -> SUBSET Paths]
    BY <1>1 DEF Restrict
<1> QED
    BY <1>2 DEF Vfps

\* The updates of an entry.
LEMMA EmptiedEntry ==
    ASSUME NEW e \in Entries
    PROVE  /\ [e EXCEPT !.roots = {}, !.parents = {}] \in Entries
           /\ [e EXCEPT !.roots = {}, !.parents = {}].firmware = e.firmware
           /\ [e EXCEPT !.roots = {}, !.parents = {}].metaData = e.metaData
           /\ [e EXCEPT !.roots = {}, !.parents = {}].parents = {}
           /\ [e EXCEPT !.roots = {}, !.parents = {}].roots = {}
    BY DEF Entries

LEMMA AnalyzedEntry ==
    ASSUME NEW e \in Entries
    PROVE  /\ [e EXCEPT !.analyzed = TRUE] \in Entries
           /\ [e EXCEPT !.analyzed = TRUE].firmware = e.firmware
           /\ [e EXCEPT !.analyzed = TRUE].metaData = e.metaData
           /\ [e EXCEPT !.analyzed = TRUE].parents = e.parents
           /\ [e EXCEPT !.analyzed = TRUE].roots = e.roots
    BY DEF Entries

LEMMA NewEntryTyped ==
    ASSUME NEW fo \in Objects
    PROVE  /\ NewEntry(fo) \in Entries
           /\ NewEntry(fo).firmware = fo.firmware /\ NewEntry(fo).metaData = fo.firmware
<1>1. VfpOf(fo) \in Vfps
    BY VfpOfObject
<1> QED
    BY <1>1 DEF NewEntry, Entries, Objects

-----------------------------------------------------------------------------
(* Objects, and the queues of them *)

LEMMA UploadedIsGood ==
    ASSUME NEW uid \in Images
    PROVE  GoodObject(FirmwareObject(uid)) /\ FirmwareObject(uid).uid = uid
<1>1. uid \in Uids /\ uid \in Names
    BY StorageConstants DEF Names
<1>2. << >> \in Seq(Uids)
    OBVIOUS
<1>3. FirmwareObject(uid) \in Objects
    BY <1>1, <1>2 DEF FirmwareObject, Objects
<1> QED
    BY <1>3 DEF GoodObject, FirmwareObject

LEMMA ExtractedIsGood ==
    ASSUME NEW fo \in Objects, NEW uid \in ExtractedUids(fo)
    PROVE  GoodObject(ExtractedObject(fo, uid)) /\ ExtractedObject(fo, uid).uid = uid
<1>1. /\ fo.uid \in Uids /\ fo.root \in Images /\ fo.root \in Uids
      /\ fo.base \in Seq(Uids) /\ fo.depth \in Nat
    BY StorageConstants DEF Objects
<1>2. PICK e \in Content[fo.uid] : e.uid = uid /\ uid # fo.uid
    BY DEF ExtractedUids, YieldedUids
<1>3. uid \in Uids /\ (ImagesApart => uid \notin Images)
    BY <1>1, <1>2, ContentAssumption DEF ImagesApart
<1>4. {d.name : d \in {c \in Content[fo.uid] : c.uid = uid}} \in SUBSET Names
    BY <1>1 DEF Names
<1>5. Append(fo.base, fo.uid) \in Seq(Uids) /\ fo.depth + 1 \in Nat
    BY <1>1
<1>6. {fo.uid} \in SUBSET Uids /\ {fo.root} \in SUBSET Uids
    BY <1>1
<1>7. ExtractedObject(fo, uid) \in Objects
    BY <1>1, <1>3, <1>4, <1>5, <1>6 DEF ExtractedObject, Objects
<1> QED
    BY <1>3, <1>7 DEF GoodObject, ExtractedObject

UidsIn(q) == {q[i].uid : i \in DOMAIN q}

LEMMA HeadOfQueue ==
    ASSUME NEW q, GoodQueue(q), q # << >>
    PROVE  /\ GoodObject(Head(q)) /\ Head(q).uid \in UidsIn(q)
           /\ GoodQueue(Tail(q)) /\ UidsIn(Tail(q)) \subseteq UidsIn(q)
<1>1. q \in Seq(Objects) /\ Len(q) \in Nat \ {0} /\ DOMAIN q = 1 .. Len(q) /\ Head(q) = q[1]
    BY DEF GoodQueue
<1>2. /\ Tail(q) \in Seq(Objects) /\ DOMAIN Tail(q) = 1 .. Len(q) - 1
      /\ \A i \in DOMAIN Tail(q) : Tail(q)[i] = q[i + 1] /\ i + 1 \in DOMAIN q
    BY <1>1
<1>3. 1 \in DOMAIN q
    BY <1>1
<1> QED
    BY <1>1, <1>2, <1>3 DEF GoodQueue, UidsIn

LEMMA AppendedToQueue ==
    ASSUME NEW q, GoodQueue(q), NEW fo, GoodObject(fo)
    PROVE  GoodQueue(Append(q, fo)) /\ UidsIn(Append(q, fo)) = UidsIn(q) \cup {fo.uid}
<1>1. q \in Seq(Objects) /\ fo \in Objects /\ Len(q) \in Nat /\ DOMAIN q = 1 .. Len(q)
    BY DEF GoodQueue, GoodObject
<1>2. /\ Append(q, fo) \in Seq(Objects) /\ DOMAIN Append(q, fo) = 1 .. Len(q) + 1
      /\ Append(q, fo)[Len(q) + 1] = fo
      /\ \A i \in DOMAIN q : Append(q, fo)[i] = q[i]
    BY <1>1
<1>3. DOMAIN Append(q, fo) = DOMAIN q \cup {Len(q) + 1}
    BY <1>1, <1>2
<1> DEFINE r == Append(q, fo)
           n == Len(q) + 1
<1>4. /\ r \in Seq(Objects) /\ DOMAIN r = DOMAIN q \cup {n} /\ r[n] = fo
      /\ \A i \in DOMAIN q : r[i] = q[i]
    BY <1>2, <1>3
<1> HIDE DEF r, n
<1>5. GoodQueue(r) /\ UidsIn(r) = UidsIn(q) \cup {fo.uid}
    BY <1>4 DEF GoodQueue, UidsIn
<1> QED
    BY <1>5 DEF r

LEMMA QueuesTogether ==
    ASSUME NEW q, GoodQueue(q), NEW more, GoodQueue(more)
    PROVE  GoodQueue(q \o more) /\ UidsIn(q \o more) \subseteq UidsIn(q) \cup UidsIn(more)
<1>1. q \in Seq(Objects) /\ more \in Seq(Objects)
    BY DEF GoodQueue
<1>2. /\ q \o more \in Seq(Objects) /\ Len(q) \in Nat /\ Len(more) \in Nat
      /\ DOMAIN q = 1 .. Len(q) /\ DOMAIN more = 1 .. Len(more)
      /\ DOMAIN (q \o more) = 1 .. Len(q) + Len(more)
      /\ \A i \in 1 .. Len(q) + Len(more) :
            (q \o more)[i] = IF i <= Len(q) THEN q[i] ELSE more[i - Len(q)]
    BY <1>1
<1> DEFINE both == q \o more
<1>3. ASSUME NEW i \in DOMAIN both
      PROVE  \/ i \in DOMAIN q /\ both[i] = q[i]
             \/ i - Len(q) \in DOMAIN more /\ both[i] = more[i - Len(q)]
    BY <1>2
<1>4. both \in Seq(Objects)
    BY <1>2
<1> HIDE DEF both
<1>5. GoodQueue(both) /\ UidsIn(both) \subseteq UidsIn(q) \cup UidsIn(more)
    BY <1>3, <1>4 DEF GoodQueue, UidsIn
<1> QED
    BY <1>5 DEF both

\* What is extracted, in whichever order.
LEMMA ExtractedAreGood ==
    ASSUME NEW fo \in Objects, NEW S \in SUBSET ExtractedUids(fo), NEW order \in SetToSeqs(S)
    PROVE  /\ GoodQueue(ExtractedObjects(fo, order))
           /\ UidsIn(ExtractedObjects(fo, order)) \subseteq S
<1> DEFINE n == Cardinality(S)
<1>1. order \in [1 .. n -> S]
    BY DEF SetToSeqs
<1>2. IsFiniteSet(S)
  <2>1. S \in SUBSET Uids
    BY ContentAssumption DEF ExtractedUids, YieldedUids, Objects
  <2> QED
    BY <2>1, ContentAssumption, FS_Subset
<1>3. n \in Nat
    BY <1>2, FS_CardinalityType
<1> HIDE DEF n
<1> DEFINE q == ExtractedObjects(fo, order)
<1>4. DOMAIN q = 1 .. n /\ \A i \in 1 .. n : q[i] = ExtractedObject(fo, order[i])
    BY <1>1 DEF ExtractedObjects
<1>5. ASSUME NEW i \in 1 .. n
      PROVE  GoodObject(q[i]) /\ q[i].uid = order[i] /\ order[i] \in S
  <2>1. order[i] \in ExtractedUids(fo) /\ order[i] \in S
    BY <1>1
  <2> QED
    BY <2>1, <1>4, ExtractedIsGood
<1>6. q = [i \in 1 .. n |-> q[i]]
    BY <1>1 DEF ExtractedObjects
<1> HIDE DEF q
<1>7. q \in Seq(Objects)
  <2>1. \A i \in 1 .. n : q[i] \in Objects
    BY <1>5 DEF GoodObject
  <2> QED
    BY <2>1, <1>3, <1>6
<1>8. GoodQueue(q) /\ UidsIn(q) \subseteq S
    BY <1>4, <1>5, <1>7 DEF GoodQueue, UidsIn
<1> QED
    BY <1>8 DEF q

-----------------------------------------------------------------------------
(* What a step may leave alone *)

SchedUids == IF sched.step \in {"idle", "dead"} THEN {} ELSE {sched.fo.uid}
CollectorUids == IF collector.step \in {"idle", "dead"} THEN {} ELSE {collector.uid}

LEMMA InPipelineIs ==
    /\ InPipeline = UidsIn(unpackQueue) \cup UidsIn(processQueue) \cup SchedUids
                    \cup results \cup CollectorUids
    /\ InPipeline' = UidsIn(unpackQueue') \cup UidsIn(processQueue') \cup SchedUids'
                     \cup results' \cup CollectorUids'
    BY DEF InPipeline, UidsIn, SchedUids, CollectorUids

LEMMA PipelineTyped ==
    ASSUME ObjectsOK', SchedOK', CollectorOK'
    PROVE  InPipeline' \subseteq Uids
<1>1. ASSUME NEW q, GoodQueue(q) PROVE UidsIn(q) \subseteq Uids
  <2>1. \A i \in DOMAIN q : q[i].uid \in Uids
    BY <1>1 DEF GoodQueue, GoodObject, Objects
  <2> QED
    BY <2>1 DEF UidsIn
<1>2. UidsIn(unpackQueue') \subseteq Uids /\ UidsIn(processQueue') \subseteq Uids
    BY <1>1 DEF ObjectsOK
<1>3. SchedUids' \subseteq Uids
  <2>1. sched'.step # "idle" => sched'.fo.uid \in Uids
    BY DEF SchedOK, GoodObject, Objects
  <2> QED
    BY <2>1 DEF SchedUids
<1>4. CollectorUids' \subseteq Uids /\ results' \subseteq Uids
    BY DEF CollectorOK, CollectorUids
<1> QED
    BY <1>2, <1>3, <1>4, InPipelineIs

\* The bookkeeping of every step.
LEMMA WatchKeeps ==
    ASSUME WatchOK, Watch, ObjectsOK', SchedOK', CollectorOK'
    PROVE  WatchOK' /\ (overlap => overlap') /\ raced \subseteq raced'
<1>1. InPipeline' \subseteq Uids
    BY PipelineTyped
<1>2. overlap' = (overlap \/ (InPipeline' # {} /\ Deleting'))
    BY DEF Watch
<1>3. overlap' \in BOOLEAN /\ (overlap => overlap') /\ (InPipeline' # {} /\ Deleting' => overlap')
    BY <1>2 DEF WatchOK
<1>4. /\ deleter'.step = "idle" => raced' = raced
      /\ deleter'.step # "idle" => raced' = raced \cup (InPipeline' \cap {deleter'.uid})
    BY DEF Watch
<1>5. raced' \subseteq Uids /\ raced \subseteq raced'
    BY <1>1, <1>4 DEF WatchOK
<1>6. deleter'.step # "idle" => InPipeline' \cap {deleter'.uid} \subseteq raced'
    BY <1>4
<1> QED
    BY <1>3, <1>5, <1>6 DEF WatchOK

LEMMA PipelineStays ==
    ASSUME UNCHANGED pipelineVars, ObjectsOK, SchedOK, CollectorOK
    PROVE  ObjectsOK' /\ SchedOK' /\ CollectorOK' /\ InPipeline' = InPipeline
    BY DEF pipelineVars, ObjectsOK, SchedOK, CollectorOK, InPipeline

LEMMA DeletionStays ==
    ASSUME UNCHANGED deletionVars, DeletionOK
    PROVE  DeletionOK' /\ Deleting' = Deleting /\ UNCHANGED deleter
    BY DEF deletionVars, DeletionOK, Deleting

LEMMA EntriesStay ==
    ASSUME UNCHANGED db, EntriesOK
    PROVE  EntriesOK'
    BY DEF EntriesOK

LEMMA FilesStay ==
    ASSUME UNCHANGED <<disk, locks>>, FilesOK
    PROVE  FilesOK'
    BY DEF FilesOK

\* As long as no binary is removed and the listener for deletions does not move,
\* what comes into the pipeline must have its binary, and what comes into the
\* database must come from the pipeline.
LEMMA BinariesStay ==
    ASSUME BinaryInv, WatchOK, raced \subseteq raced', disk \subseteq disk', UNCHANGED deleter,
           InPipeline' \subseteq InPipeline \cup disk',
           DOMAIN db' \subseteq DOMAIN db \cup InPipeline
    PROVE  BinaryInv'
<1>1. ASSUME NEW u \in InPipeline' \cup DOMAIN db' PROVE u \in disk' \cup raced'
    BY DEF BinaryInv
<1>2. ASSUME deleter'.step \in {"lock", "remove"}, deleter'.uid \in DOMAIN db'
      PROVE  deleter'.uid \in raced'
  <2>1. CASE deleter.uid \in DOMAIN db
    BY <1>2, <2>1 DEF BinaryInv
  <2>2. CASE deleter.uid \in InPipeline
    BY <1>2, <2>2 DEF WatchOK
  <2> QED
    BY <1>2, <2>1, <2>2
<1> QED
    BY <1>1, <1>2 DEF BinaryInv

\* A step of the upload.
LEMMA UploadStep ==
    ASSUME Inv, Watch, UNCHANGED deletionVars, EntriesOK', ObjectsOK', SchedOK', CollectorOK',
           FilesOK', disk \subseteq disk', InPipeline' \subseteq InPipeline \cup disk',
           DOMAIN db' \subseteq DOMAIN db \cup InPipeline,
           InsertInv', ImagesApart /\ (overlap => overlap') => SurviveInv'
    PROVE  Inv'
<1>1. DeletionOK' /\ UNCHANGED deleter
    BY DeletionStays DEF Inv, TypeInv
<1>2. WatchOK' /\ (overlap => overlap') /\ raced \subseteq raced'
    BY WatchKeeps DEF Inv, TypeInv
<1>3. BinaryInv'
    BY <1>1, <1>2, BinariesStay DEF Inv, TypeInv
<1> QED
    BY <1>1, <1>2, <1>3 DEF Inv, TypeInv

-----------------------------------------------------------------------------
(* The upload *)

LEMMA SurvivesAlone ==
    ASSUME SurviveInv, UNCHANGED <<db, sched, collector>>, overlap => overlap'
    PROVE  SurviveInv'
    BY DEF SurviveInv

LEMMA UploadKeeps ==
    ASSUME Inv, NEW uid \in Images, Upload(uid)
    PROVE  Inv'
<1>1. /\ UNCHANGED <<db, locks, processQueue, sched, results, collector, deletionVars>>
      /\ unpackQueue' = Append(unpackQueue, FirmwareObject(uid))
      /\ disk' = disk \cup {uid} /\ Watch
    BY DEF Upload
<1>2. GoodObject(FirmwareObject(uid)) /\ FirmwareObject(uid).uid = uid
    BY UploadedIsGood
<1>3. GoodQueue(unpackQueue') /\ UidsIn(unpackQueue') = UidsIn(unpackQueue) \cup {uid}
    BY <1>1, <1>2, AppendedToQueue DEF Inv, TypeInv, ObjectsOK
<1>4. ObjectsOK' /\ SchedOK' /\ CollectorOK' /\ EntriesOK' /\ InsertInv'
    BY <1>1, <1>3 DEF Inv, TypeInv, ObjectsOK, SchedOK, CollectorOK, EntriesOK, InsertInv
<1>5. FilesOK' /\ disk \subseteq disk'
    BY <1>1, StorageConstants DEF Inv, TypeInv, FilesOK
<1>6. InPipeline' \subseteq InPipeline \cup disk'
  <2>1. UNCHANGED <<SchedUids, CollectorUids>>
    BY <1>1 DEF SchedUids, CollectorUids
  <2> QED
    BY <1>1, <1>3, <2>1, InPipelineIs
<1>7. ImagesApart /\ (overlap => overlap') => SurviveInv'
    BY <1>1, SurvivesAlone DEF Inv
<1> QED
    BY <1>1, <1>4, <1>5, <1>6, <1>7, UploadStep

LEMMA UnpackFailsKeeps ==
    ASSUME Inv, UnpackFails
    PROVE  Inv'
<1>1. /\ UNCHANGED <<db, disk, locks, processQueue, sched, results, collector, deletionVars>>
      /\ unpackQueue # << >> /\ unpackQueue' = Tail(unpackQueue) /\ Watch
    BY DEF UnpackFails
<1>2. GoodQueue(unpackQueue') /\ UidsIn(unpackQueue') \subseteq UidsIn(unpackQueue)
    BY <1>1, HeadOfQueue DEF Inv, TypeInv, ObjectsOK
<1>3. ObjectsOK' /\ SchedOK' /\ CollectorOK' /\ EntriesOK' /\ InsertInv' /\ FilesOK'
    BY <1>1, <1>2 DEF Inv, TypeInv, ObjectsOK, SchedOK, CollectorOK, EntriesOK, InsertInv, FilesOK
<1>4. InPipeline' \subseteq InPipeline \cup disk'
  <2>1. UNCHANGED <<SchedUids, CollectorUids>>
    BY <1>1 DEF SchedUids, CollectorUids
  <2> QED
    BY <1>1, <1>2, <2>1, InPipelineIs
<1>5. ImagesApart /\ (overlap => overlap') => SurviveInv'
    BY <1>1, SurvivesAlone DEF Inv
<1> QED
    BY <1>1, <1>3, <1>4, <1>5, UploadStep

LEMMA UnpackKeeps ==
    ASSUME Inv, Unpack
    PROVE  Inv'
<1>1. /\ UNCHANGED <<db, sched, results, collector, deletionVars>>
      /\ unpackQueue # << >> /\ Watch
    BY DEF Unpack
<1>2. PICK fo : fo = Head(unpackQueue)
    OBVIOUS
<1> DEFINE deep == fo.depth >= MaxDepth
<1>3. PICK S, order : /\ S \subseteq ExtractedUids(fo) /\ order \in SetToSeqs(S)
                      /\ unpackQueue' = Tail(unpackQueue) \o ExtractedObjects(fo, order)
                      /\ S \subseteq disk' /\ disk \subseteq disk'
  <2>1. CASE deep
    <3>1. PICK order \in SetToSeqs({}) :
             unpackQueue' = Tail(unpackQueue) \o ExtractedObjects(fo, order)
      BY <1>2, <2>1 DEF Unpack
    <3>2. disk \subseteq disk'
      BY DEF Unpack
    <3> QED
      BY <3>1, <3>2
  <2>2. CASE ~ deep
    <3>1. PICK order \in SetToSeqs(ExtractedUids(fo)) :
             unpackQueue' = Tail(unpackQueue) \o ExtractedObjects(fo, order)
      BY <1>2, <2>2 DEF Unpack
    <3>2. disk' = disk \cup YieldedUids(fo)
      BY <1>2, <2>2 DEF Unpack
    <3>3. ExtractedUids(fo) \subseteq YieldedUids(fo)
      BY DEF ExtractedUids
    <3> QED
      BY <3>1, <3>2, <3>3
  <2> QED
    BY <2>1, <2>2
<1>4. /\ GoodObject(fo) /\ fo \in Objects /\ fo.uid \in UidsIn(unpackQueue)
      /\ GoodQueue(Tail(unpackQueue)) /\ UidsIn(Tail(unpackQueue)) \subseteq UidsIn(unpackQueue)
    BY <1>1, <1>2, HeadOfQueue DEF Inv, TypeInv, ObjectsOK, GoodObject
<1>5. GoodQueue(ExtractedObjects(fo, order)) /\ UidsIn(ExtractedObjects(fo, order)) \subseteq S
    BY <1>3, <1>4, ExtractedAreGood
<1>6. GoodQueue(unpackQueue') /\ UidsIn(unpackQueue') \subseteq UidsIn(unpackQueue) \cup S
    BY <1>3, <1>4, <1>5, QueuesTogether
<1>7. processQueue' = Append(processQueue, fo)
    BY <1>2 DEF Unpack
<1>8. GoodQueue(processQueue') /\ UidsIn(processQueue') = UidsIn(processQueue) \cup {fo.uid}
    BY <1>4, <1>7, AppendedToQueue DEF Inv, TypeInv, ObjectsOK
<1>9. FilesOK'
  <2>1. fo.uid \in Uids
    BY <1>4 DEF Objects
  <2>2. YieldedUids(fo) \subseteq Uids
    BY <2>1, ContentAssumption DEF YieldedUids
  <2>3. /\ disk' = disk \cup (IF deep THEN {} ELSE YieldedUids(fo))
        /\ locks' = locks \cup (IF deep THEN {} ELSE YieldedUids(fo))
    BY <1>2 DEF Unpack
  <2> QED
    BY <2>2, <2>3 DEF Inv, TypeInv, FilesOK
<1>10. ObjectsOK' /\ SchedOK' /\ CollectorOK' /\ EntriesOK' /\ InsertInv'
    BY <1>1, <1>6, <1>8 DEF Inv, TypeInv, ObjectsOK, SchedOK, CollectorOK, EntriesOK, InsertInv
<1>11. InPipeline' \subseteq InPipeline \cup disk'
  <2>1. UNCHANGED <<SchedUids, CollectorUids>>
    BY <1>1 DEF SchedUids, CollectorUids
  <2> QED
    BY <1>1, <1>3, <1>4, <1>6, <1>8, <2>1, InPipelineIs
<1>12. ImagesApart /\ (overlap => overlap') => SurviveInv'
    BY <1>1, SurvivesAlone DEF Inv
<1> QED
    BY <1>1, <1>3, <1>9, <1>10, <1>11, <1>12, UploadStep

LEMMA SchedTyped ==
    ASSUME NEW step \in Steps, NEW fo \in Objects, NEW s \in [step : Steps, fo : Objects]
    PROVE  /\ [step |-> step, fo |-> fo] \in [step : Steps, fo : Objects]
           /\ [s EXCEPT !.step = step] \in [step : Steps, fo : Objects]
           /\ [s EXCEPT !.step = step].step = step
           /\ [s EXCEPT !.step = step].fo = s.fo
    OBVIOUS

LEMMA CheckObjectKeeps ==
    ASSUME Inv, CheckObject
    PROVE  Inv'
<1>1. /\ UNCHANGED <<db, disk, locks, unpackQueue, results, collector, deletionVars>>
      /\ processQueue # << >> /\ processQueue' = Tail(processQueue) /\ sched.step = "idle" /\ Watch
    BY DEF CheckObject
<1>2. PICK fo : fo = Head(processQueue)
    OBVIOUS
<1>3. /\ GoodObject(fo) /\ fo \in Objects /\ fo.uid \in UidsIn(processQueue)
      /\ GoodQueue(processQueue') /\ UidsIn(processQueue') \subseteq UidsIn(processQueue)
    BY <1>1, <1>2, HeadOfQueue DEF Inv, TypeInv, ObjectsOK, GoodObject
<1>4. PICK step : /\ step = IF fo.uid \notin DOMAIN db THEN "insert"
                            ELSE IF fo.firmware THEN "update_firmware" ELSE "update_file"
                  /\ sched' = [step |-> step, fo |-> fo]
    BY <1>2 DEF CheckObject
<1>5. /\ step \in {"insert", "update_firmware", "update_file"}
      /\ step = "insert" => fo.uid \notin DOMAIN db
      /\ step # "insert" => fo.uid \in DOMAIN db
      /\ step = "update_firmware" => fo.firmware
    BY <1>4
<1>6. sched'.step = step /\ sched'.fo = fo /\ sched' \in [step : Steps, fo : Objects]
  <2>1. step \in Steps
    BY <1>5 DEF Steps
  <2> QED
    BY <1>3, <1>4, <2>1, SchedTyped
<1>7. SchedOK' /\ InsertInv'
    BY <1>1, <1>3, <1>5, <1>6 DEF SchedOK, InsertInv, Steps
<1>8. ObjectsOK' /\ CollectorOK' /\ EntriesOK' /\ FilesOK'
    BY <1>1, <1>3 DEF Inv, TypeInv, ObjectsOK, CollectorOK, EntriesOK, FilesOK
<1>9. InPipeline' \subseteq InPipeline \cup disk'
  <2>1. SchedUids' \subseteq {fo.uid} /\ UNCHANGED CollectorUids
    BY <1>1, <1>6 DEF SchedUids, CollectorUids
  <2> QED
    BY <1>1, <1>3, <2>1, InPipelineIs
<1>10. ASSUME ImagesApart, overlap => overlap' PROVE SurviveInv'
    BY <1>1, <1>5, <1>6, <1>10 DEF Inv, SurviveInv
<1> QED
    BY <1>1, <1>7, <1>8, <1>9, <1>10, UploadStep

\* What _update_entries adds to an entry is there, and gives a file a parent.
LEMMA LinkedIsGood ==
    ASSUME NEW e \in Entries, NEW fo, GoodObject(fo), ~ ParentsMissing(fo),
           e.parents \subseteq DOMAIN db, e.roots \subseteq DOMAIN db, e.firmware = fo.firmware
    PROVE  /\ GoodEntry(Linked(e, fo), DOMAIN db)
           /\ Linked(e, fo).metaData = e.metaData /\ Linked(e, fo).analyzed = e.analyzed
<1> DEFINE roots == e.roots \cup (fo.roots \cap DOMAIN db)
           parents == e.parents \cup (fo.parents \cap DOMAIN db)
<1>1. roots \in SUBSET Uids /\ parents \in SUBSET Uids
    BY DEF GoodObject, Objects, Entries
<1>2. fo.firmware \/ parents # {}
    BY DEF GoodObject, ParentsMissing, NoneThere
<1>3. roots \subseteq DOMAIN db /\ parents \subseteq DOMAIN db
    OBVIOUS
<1>4. Linked(e, fo) = [e EXCEPT !.roots = roots, !.parents = parents]
    BY DEF Linked, Entries
<1> HIDE DEF roots, parents
<1>5. PICK l : l = [e EXCEPT !.roots = roots, !.parents = parents]
    OBVIOUS
<1>6. l \in Entries /\ l.roots = roots /\ l.parents = parents /\ l.firmware = e.firmware
      /\ l.metaData = e.metaData /\ l.analyzed = e.analyzed
    BY <1>1, <1>5 DEF Entries
<1>7. GoodEntry(l, DOMAIN db)
    BY <1>2, <1>3, <1>6 DEF GoodEntry
<1> QED
    BY <1>4, <1>5, <1>6, <1>7

LEMMA WithEntry ==
    ASSUME EntriesOK, NEW uid \in Uids, NEW entry, GoodEntry(entry, DOMAIN db), db' = With(uid, entry)
    PROVE  /\ EntriesOK' /\ DOMAIN db' = DOMAIN db \cup {uid}
           /\ db'[uid] = entry /\ \A u \in DOMAIN db : u # uid => db'[u] = db[u]
<1>1. /\ DOMAIN db' = DOMAIN db \cup {uid}
      /\ db'[uid] = entry /\ \A u \in DOMAIN db : u # uid => db'[u] = db[u]
    BY DEF With
<1>2. ASSUME NEW u \in DOMAIN db' PROVE GoodEntry(db'[u], DOMAIN db)
    BY <1>1 DEF EntriesOK
<1>3. ASSUME NEW u \in DOMAIN db' PROVE GoodEntry(db'[u], DOMAIN db')
  <2>1. DOMAIN db \subseteq DOMAIN db'
    BY <1>1
  <2> QED
    BY <1>2, <2>1 DEF GoodEntry
<1> QED
    BY <1>1, <1>3 DEF EntriesOK

\* A step of the schedule process with the object it has.
LEMMA SchedStep ==
    ASSUME Inv, Watch, UNCHANGED <<disk, unpackQueue, processQueue, collector, deletionVars>>,
           FilesOK', results' \subseteq results \cup SchedUids, SchedOK', EntriesOK', InsertInv',
           sched'.step \in {"idle", "dead"} \/ sched'.fo.uid \in SchedUids,
           DOMAIN db' \subseteq DOMAIN db \cup InPipeline,
           ImagesApart /\ (overlap => overlap') => SurviveInv'
    PROVE  Inv'
<1>1. ObjectsOK'
    BY DEF Inv, TypeInv, ObjectsOK
<1>2. CollectorOK'
  <2>1. SchedUids \subseteq Uids
    BY DEF Inv, TypeInv, SchedOK, SchedUids, GoodObject, Objects
  <2> QED
    BY <2>1 DEF Inv, TypeInv, CollectorOK
<1>3. InPipeline' \subseteq InPipeline \cup disk'
  <2>1. SchedUids' \subseteq SchedUids /\ UNCHANGED CollectorUids
    BY DEF SchedUids, CollectorUids
  <2> QED
    BY <2>1, InPipelineIs
<1> QED
    BY <1>1, <1>2, <1>3, UploadStep

LEMMA InsertObjectKeeps ==
    ASSUME Inv, InsertObject
    PROVE  Inv'
<1>1. /\ UNCHANGED <<disk, locks, unpackQueue, processQueue, results, collector, deletionVars>>
      /\ sched.step = "insert" /\ Watch
    BY DEF InsertObject
<1>2. PICK fo : fo = sched.fo
    OBVIOUS
<1>3. /\ GoodObject(fo) /\ fo \in Objects /\ fo.uid \in Uids /\ SchedUids = {fo.uid}
      /\ fo.uid \notin DOMAIN db /\ fo.uid \in InPipeline
      /\ sched \in [step : Steps, fo : Objects]
  <2>1. GoodObject(fo) /\ fo.uid \notin DOMAIN db /\ sched \in [step : Steps, fo : Objects]
    BY <1>1, <1>2 DEF Inv, TypeInv, SchedOK, InsertInv
  <2>2. SchedUids = {fo.uid}
    BY <1>1, <1>2 DEF SchedUids
  <2> QED
    BY <2>1, <2>2, InPipelineIs DEF GoodObject, Objects
<1>4. FilesOK'
    BY <1>1, FilesStay DEF Inv, TypeInv
<1>5. CASE ParentsMissing(fo)
  <2>1. sched' = Idle /\ UNCHANGED db
    BY <1>2, <1>5 DEF InsertObject
  <2>2. sched'.step = "idle"
    BY <2>1 DEF Idle
  <2>3. SchedOK' /\ InsertInv' /\ EntriesOK'
    BY <2>1, <2>2, EntriesStay DEF Inv, TypeInv, SchedOK, InsertInv, Steps
  <2>4. ASSUME ImagesApart, overlap => overlap' PROVE SurviveInv'
    BY <1>1, <2>1, <2>2, <2>4 DEF Inv, SurviveInv
  <2> QED
    BY <1>1, <1>4, <2>1, <2>2, <2>3, <2>4, SchedStep
<1>6. CASE ~ ParentsMissing(fo)
  <2>1. PICK e : e = [NewEntry(fo) EXCEPT !.roots = {}, !.parents = {}]
    OBVIOUS
  <2>2. PICK l : l = Linked(e, fo)
    OBVIOUS
  <2>3. db' = With(fo.uid, l) /\ sched' = [sched EXCEPT !.step = "release"]
    BY <1>2, <1>6, <2>1, <2>2 DEF InsertObject
  <2>4. /\ e \in Entries /\ e.firmware = fo.firmware /\ e.metaData = fo.firmware
        /\ e.parents = {} /\ e.roots = {}
    BY <1>3, <2>1, NewEntryTyped, EmptiedEntry
  <2>5. GoodEntry(l, DOMAIN db) /\ l.metaData = fo.firmware
    BY <1>3, <1>6, <2>2, <2>4, LinkedIsGood
  <2>6. /\ EntriesOK' /\ DOMAIN db' = DOMAIN db \cup {fo.uid}
        /\ db'[fo.uid] = l /\ \A u \in DOMAIN db : db'[u] = db[u]
    BY <1>3, <2>3, <2>5, WithEntry DEF Inv, TypeInv
  <2>7. /\ sched'.step = "release" /\ sched'.fo = fo /\ sched' \in [step : Steps, fo : Objects]
    BY <1>2, <1>3, <2>3, SchedTyped DEF Steps
  <2>8. SchedOK' /\ InsertInv'
    BY <1>3, <2>7 DEF SchedOK, InsertInv
  <2>9. ASSUME ImagesApart, overlap => overlap' PROVE SurviveInv'
    <3>1. fo.uid \in Images => fo.firmware
      BY <1>3, <2>9 DEF GoodObject
    <3>2. SurviveInv
      BY <2>9 DEF Inv
    <3>3. \A u \in DOMAIN db' : u \in Images => db'[u].metaData
      BY <2>5, <2>6, <3>1, <3>2 DEF SurviveInv
    <3>4. ~ overlap' => /\ collector'.step = "update" =>
                                collector'.uid \in DOMAIN db' /\ db'[collector'.uid].analyzed
                        /\ sched'.step # "dead" /\ collector'.step # "dead"
      BY <1>1, <2>6, <2>7, <2>9, <3>2 DEF SurviveInv
    <3> QED
      BY <2>7, <3>3, <3>4 DEF SurviveInv
  <2> QED
    BY <1>1, <1>3, <1>4, <2>6, <2>7, <2>8, <2>9, SchedStep
<1> QED
    BY <1>5, <1>6

LEMMA UpdateFirmwareKeeps ==
    ASSUME Inv, UpdateFirmware
    PROVE  Inv'
<1>1. /\ UNCHANGED <<db, disk, locks, unpackQueue, processQueue, results, collector, deletionVars>>
      /\ sched.step = "update_firmware" /\ Watch
    BY DEF UpdateFirmware
<1>2. PICK fo : fo = sched.fo
    OBVIOUS
<1>3. /\ GoodObject(fo) /\ SchedUids = {fo.uid} /\ fo.firmware
      /\ sched \in [step : Steps, fo : Objects]
    BY <1>1, <1>2 DEF Inv, TypeInv, SchedOK, SchedUids
<1>4. PICK step : /\ step = IF fo.uid \in DOMAIN db /\ db[fo.uid].metaData THEN "update_file" ELSE "dead"
                  /\ sched' = [sched EXCEPT !.step = step]
    BY <1>2 DEF UpdateFirmware
<1>5. /\ step \in {"update_file", "dead"} /\ step \in Steps
      /\ step = "dead" => ~ (fo.uid \in DOMAIN db /\ db[fo.uid].metaData)
    BY <1>4 DEF Steps
<1>6. sched'.step = step /\ sched'.fo = fo /\ sched' \in [step : Steps, fo : Objects]
    BY <1>2, <1>3, <1>4, <1>5, SchedTyped
<1>7. SchedOK' /\ InsertInv'
    BY <1>3, <1>5, <1>6 DEF SchedOK, InsertInv
<1>8. FilesOK' /\ EntriesOK'
    BY <1>1, FilesStay, EntriesStay DEF Inv, TypeInv
<1>9. ASSUME ImagesApart, overlap => overlap' PROVE SurviveInv'
  <2>1. SurviveInv /\ fo.uid \in Images
    BY <1>3, <1>9 DEF Inv, GoodObject
  <2>2. ~ overlap => fo.uid \in DOMAIN db /\ db[fo.uid].metaData
    BY <1>1, <1>2, <2>1 DEF SurviveInv
  <2>3. ~ overlap' => fo.uid \in DOMAIN db' /\ sched'.step # "dead"
    BY <1>1, <1>5, <1>6, <1>9, <2>2
  <2> QED
    BY <1>1, <1>6, <1>9, <2>1, <2>3 DEF SurviveInv
<1> QED
    BY <1>1, <1>3, <1>6, <1>7, <1>8, <1>9, SchedStep

LEMMA UpdateFileKeeps ==
    ASSUME Inv, UpdateFile
    PROVE  Inv'
<1>1. /\ UNCHANGED <<disk, locks, unpackQueue, processQueue, results, collector, deletionVars>>
      /\ sched.step = "update_file" /\ Watch
    BY DEF UpdateFile
<1>2. PICK fo : fo = sched.fo
    OBVIOUS
<1>3. /\ GoodObject(fo) /\ fo \in Objects /\ fo.uid \in Uids /\ SchedUids = {fo.uid}
      /\ sched \in [step : Steps, fo : Objects]
    BY <1>1, <1>2 DEF Inv, TypeInv, SchedOK, SchedUids, GoodObject, Objects
<1>4. FilesOK'
    BY <1>1, FilesStay DEF Inv, TypeInv
<1>5. CASE fo.uid \notin DOMAIN db
  <2>1. sched' = [sched EXCEPT !.step = "dead"] /\ UNCHANGED db
    BY <1>2, <1>5 DEF UpdateFile
  <2>2. sched'.step = "dead" /\ sched'.fo = fo /\ sched' \in [step : Steps, fo : Objects]
    BY <1>2, <1>3, <2>1, SchedTyped DEF Steps
  <2>3. SchedOK' /\ InsertInv' /\ EntriesOK'
    BY <1>3, <2>1, <2>2, EntriesStay DEF Inv, TypeInv, SchedOK, InsertInv, Steps
  <2>4. ASSUME ImagesApart, overlap => overlap' PROVE SurviveInv'
    <3>1. SurviveInv /\ overlap'
      BY <1>1, <1>2, <1>5, <2>4 DEF Inv, SurviveInv
    <3> QED
      BY <2>1, <3>1 DEF SurviveInv
  <2> QED
    BY <1>1, <1>4, <2>1, <2>2, <2>3, <2>4, SchedStep
<1>6. CASE fo.uid \in DOMAIN db /\ ParentsMissing(fo)
  <2>1. sched' = Idle /\ UNCHANGED db
    BY <1>2, <1>6 DEF UpdateFile
  <2>2. sched'.step = "idle"
    BY <2>1 DEF Idle
  <2>3. SchedOK' /\ InsertInv' /\ EntriesOK'
    BY <2>1, <2>2, EntriesStay DEF Inv, TypeInv, SchedOK, InsertInv, Steps
  <2>4. ASSUME ImagesApart, overlap => overlap' PROVE SurviveInv'
    BY <1>1, <2>1, <2>2, <2>4 DEF Inv, SurviveInv
  <2> QED
    BY <1>1, <1>4, <2>1, <2>2, <2>3, <2>4, SchedStep
<1>7. CASE fo.uid \in DOMAIN db /\ ~ ParentsMissing(fo)
  <2>1. PICK old : old = db[fo.uid]
    OBVIOUS
  <2>2. PICK vfp : vfp = UpdateVirtualFilePath(VfpOf(fo), old.vfp)
    OBVIOUS
  <2>3. PICK e : e = [old EXCEPT !.vfp = vfp, !.firmware = fo.firmware]
    OBVIOUS
  <2>4. PICK l : l = Linked(e, fo)
    OBVIOUS
  <2>5. GoodEntry(old, DOMAIN db) /\ old \in Entries /\ old.vfp \in Vfps
    BY <1>7, <2>1 DEF Inv, TypeInv, EntriesOK, GoodEntry, Entries
  <2>6. vfp \in Vfps /\ fo.firmware \in BOOLEAN
    BY <1>3, <2>2, <2>5, VfpOfObject, UpdatedVfp DEF Objects
  <2>7. /\ e \in Entries /\ e.firmware = fo.firmware /\ e.metaData = old.metaData
        /\ e.analyzed = old.analyzed /\ e.parents = old.parents /\ e.roots = old.roots
    <3>1. PICK firmware \in BOOLEAN : firmware = fo.firmware
      BY <2>6
    <3>2. e = [old EXCEPT !.vfp = vfp, !.firmware = firmware]
      BY <2>3, <3>1
    <3>3. /\ e \in Entries /\ e.firmware = firmware /\ e.metaData = old.metaData
          /\ e.analyzed = old.analyzed /\ e.parents = old.parents /\ e.roots = old.roots
      BY <2>5, <2>6, <3>2 DEF Entries
    <3> QED
      BY <3>1, <3>3
  <2>8. db' = With(fo.uid, l) /\ sched' = [sched EXCEPT !.step = "release"]
    <3>1. UpdatedEntry(fo) = l
      BY <2>1, <2>2, <2>3, <2>4, <2>5 DEF UpdatedEntry, Entries
    <3> QED
      BY <1>2, <1>7, <3>1 DEF UpdateFile
  <2>9. GoodEntry(l, DOMAIN db) /\ l.metaData = old.metaData /\ l.analyzed = old.analyzed
    BY <1>3, <1>7, <2>4, <2>5, <2>7, LinkedIsGood DEF GoodEntry
  <2>10. /\ EntriesOK' /\ DOMAIN db' = DOMAIN db
         /\ db'[fo.uid] = l /\ \A u \in DOMAIN db : u # fo.uid => db'[u] = db[u]
    BY <1>3, <1>7, <2>8, <2>9, WithEntry DEF Inv, TypeInv
  <2>11. /\ sched'.step = "release" /\ sched'.fo = fo /\ sched' \in [step : Steps, fo : Objects]
    BY <1>2, <1>3, <2>8, SchedTyped DEF Steps
  <2>12. SchedOK' /\ InsertInv'
    BY <1>3, <2>11 DEF SchedOK, InsertInv, Steps
  <2>13. ASSUME ImagesApart, overlap => overlap' PROVE SurviveInv'
    <3>1. SurviveInv
      BY <2>13 DEF Inv
    <3>2. \A u \in DOMAIN db : db'[u].metaData = db[u].metaData /\ db'[u].analyzed = db[u].analyzed
      BY <2>1, <2>9, <2>10
    <3>3. \A u \in DOMAIN db' : u \in Images => db'[u].metaData
      BY <2>10, <3>1, <3>2 DEF SurviveInv
    <3>4. ~ overlap' => /\ collector'.step = "update" =>
                                collector'.uid \in DOMAIN db' /\ db'[collector'.uid].analyzed
                        /\ sched'.step # "dead" /\ collector'.step # "dead"
      BY <1>1, <2>10, <2>11, <2>13, <3>1, <3>2 DEF SurviveInv
    <3> QED
      BY <2>11, <3>3, <3>4 DEF SurviveInv
  <2> QED
    BY <1>1, <1>3, <1>4, <2>10, <2>11, <2>12, <2>13, SchedStep
<1> QED
    BY <1>5, <1>6, <1>7

LEMMA ReleaseLockKeeps ==
    ASSUME Inv, ReleaseLock
    PROVE  Inv'
<1>1. /\ UNCHANGED <<db, disk, unpackQueue, processQueue, collector, deletionVars>>
      /\ sched.step = "release" /\ Watch
      /\ results' = results \cup {sched.fo.uid} /\ locks' = locks \ {sched.fo.uid}
      /\ sched'.step = "idle"
    BY DEF ReleaseLock, Idle
<1>2. results' \subseteq results \cup SchedUids
    BY <1>1 DEF SchedUids
<1>3. SchedOK' /\ InsertInv'
    BY <1>1 DEF SchedOK, InsertInv, Steps
<1>4. FilesOK' /\ EntriesOK'
    BY <1>1, EntriesStay DEF Inv, TypeInv, FilesOK
<1>5. ASSUME ImagesApart, overlap => overlap' PROVE SurviveInv'
    BY <1>1, <1>5 DEF Inv, SurviveInv
<1> QED
    BY <1>1, <1>2, <1>3, <1>4, <1>5, SchedStep

LEMMA CheckAnalysisKeeps ==
    ASSUME Inv, NEW uid \in results, CheckAnalysis(uid)
    PROVE  Inv'
<1>1. /\ UNCHANGED <<db, disk, locks, unpackQueue, processQueue, sched, deletionVars>>
      /\ collector.step = "idle" /\ results' = results \ {uid} /\ Watch
    BY DEF CheckAnalysis
<1>2. /\ collector'.step \in {"update", "insert"} /\ collector'.uid = uid
      /\ collector'.step = "update" => uid \in DOMAIN db /\ db[uid].analyzed
    BY DEF CheckAnalysis
<1>3. ObjectsOK' /\ SchedOK' /\ EntriesOK' /\ FilesOK' /\ InsertInv'
    BY <1>1 DEF Inv, TypeInv, ObjectsOK, SchedOK, EntriesOK, FilesOK, InsertInv
<1>4. CollectorOK'
    BY <1>1, <1>2 DEF Inv, TypeInv, CollectorOK
<1>5. InPipeline' \subseteq InPipeline \cup disk'
  <2>1. UNCHANGED SchedUids /\ CollectorUids' = {uid}
    BY <1>1, <1>2 DEF SchedUids, CollectorUids
  <2> QED
    BY <1>1, <2>1, InPipelineIs
<1>6. ASSUME ImagesApart, overlap => overlap' PROVE SurviveInv'
    BY <1>1, <1>2, <1>6 DEF Inv, SurviveInv
<1> QED
    BY <1>1, <1>3, <1>4, <1>5, <1>6, UploadStep

LEMMA StoreAnalysisKeeps ==
    ASSUME Inv, StoreAnalysis
    PROVE  Inv'
<1>1. /\ UNCHANGED <<disk, locks, unpackQueue, processQueue, sched, results, deletionVars>>
      /\ collector.step \in {"update", "insert"} /\ Watch
    BY DEF StoreAnalysis
<1>2. PICK uid : uid = collector.uid
    OBVIOUS
<1>3. /\ collector'.step \in {"dead", "idle"}
      /\ collector'.step = "dead" =>
            collector.step = "update" /\ ~ (uid \in DOMAIN db /\ db[uid].analyzed)
    BY <1>2 DEF StoreAnalysis
<1>4. /\ DOMAIN db' = DOMAIN db
      /\ \A u \in DOMAIN db : /\ GoodEntry(db'[u], DOMAIN db)
                              /\ db'[u].metaData = db[u].metaData
  <2>1. CASE uid \in DOMAIN db
    <3>1. PICK e : e = [db[uid] EXCEPT !.analyzed = TRUE]
      OBVIOUS
    <3>2. GoodEntry(db[uid], DOMAIN db)
      BY <2>1 DEF Inv, TypeInv, EntriesOK
    <3>3. /\ e \in Entries /\ e.firmware = db[uid].firmware /\ e.metaData = db[uid].metaData
          /\ e.parents = db[uid].parents /\ e.roots = db[uid].roots
      BY <3>1, <3>2, AnalyzedEntry DEF GoodEntry
    <3>4. GoodEntry(e, DOMAIN db)
      BY <3>2, <3>3 DEF GoodEntry
    <3>5. db' = [db EXCEPT ![uid] = e]
      BY <1>2, <2>1, <3>1 DEF StoreAnalysis
    <3> QED
      BY <2>1, <3>3, <3>4, <3>5 DEF Inv, TypeInv, EntriesOK
  <2>2. CASE uid \notin DOMAIN db
    BY <1>2, <2>2 DEF StoreAnalysis, Inv, TypeInv, EntriesOK
  <2> QED
    BY <2>1, <2>2
<1>5. EntriesOK'
    BY <1>4 DEF EntriesOK, Inv, TypeInv
<1>6. ObjectsOK' /\ SchedOK' /\ FilesOK' /\ InsertInv'
    BY <1>1, <1>4 DEF Inv, TypeInv, ObjectsOK, SchedOK, FilesOK, InsertInv
<1>7. CollectorOK'
    BY <1>1, <1>3 DEF Inv, TypeInv, CollectorOK
<1>8. InPipeline' \subseteq InPipeline \cup disk'
  <2>1. UNCHANGED SchedUids /\ CollectorUids' = {}
    BY <1>1, <1>3 DEF SchedUids, CollectorUids
  <2> QED
    BY <1>1, <2>1, InPipelineIs
<1>9. ASSUME ImagesApart, overlap => overlap' PROVE SurviveInv'
  <2>1. SurviveInv
    BY <1>9 DEF Inv
  <2>2. ~ overlap' => collector'.step = "idle"
    BY <1>2, <1>3, <1>9, <2>1 DEF SurviveInv
  <2> QED
    BY <1>1, <1>4, <1>9, <2>1, <2>2 DEF SurviveInv
<1> QED
    BY <1>1, <1>4, <1>5, <1>6, <1>7, <1>8, <1>9, UploadStep

-----------------------------------------------------------------------------
(* The deletion *)

\* A step of the database interface of the frontend.
LEMMA AdminStep ==
    ASSUME Inv, Watch, UNCHANGED <<pipelineVars, disk, locks, deleter>>, DeletionOK',
           EntriesOK', DOMAIN db' \subseteq DOMAIN db,
           ImagesApart /\ (overlap => overlap') => SurviveInv'
    PROVE  Inv'
<1>1. ObjectsOK' /\ SchedOK' /\ CollectorOK' /\ InPipeline' = InPipeline
    BY PipelineStays DEF Inv, TypeInv
<1>2. FilesOK'
    BY FilesStay DEF Inv, TypeInv
<1>3. WatchOK' /\ (overlap => overlap') /\ raced \subseteq raced'
    BY <1>1, WatchKeeps DEF Inv, TypeInv
<1>4. BinaryInv'
    BY <1>1, <1>3, BinariesStay DEF Inv, TypeInv
<1>5. InsertInv'
    BY DEF Inv, InsertInv, pipelineVars
<1> QED
    BY <1>1, <1>2, <1>3, <1>4, <1>5 DEF Inv, TypeInv

\* A step of the listener: it removes a binary only in its last step, and gets
\* there only if there is no entry.
LEMMA DeleterStep ==
    ASSUME Inv, Watch, UNCHANGED <<pipelineVars, db, locks, admin>>, DeletionOK',
           disk' = disk \/ (deleter.step = "remove" /\ disk' = disk \ {deleter.uid}),
           deleter'.step \in {"lock", "remove"} =>
                /\ deleter'.uid = deleter.uid
                /\ deleter.step = "lock" \/ deleter.uid \notin DOMAIN db
    PROVE  Inv'
<1>1. ObjectsOK' /\ SchedOK' /\ CollectorOK' /\ InPipeline' = InPipeline
    BY PipelineStays DEF Inv, TypeInv
<1>2. FilesOK'
    BY DEF Inv, TypeInv, FilesOK
<1>3. WatchOK' /\ (overlap => overlap') /\ raced \subseteq raced'
    BY <1>1, WatchKeeps DEF Inv, TypeInv
<1>4. ASSUME NEW u \in InPipeline' \cup DOMAIN db' PROVE u \in disk' \cup raced'
  <2>1. u \in InPipeline \cup DOMAIN db /\ u \in disk \cup raced
    BY <1>1, <1>4 DEF Inv, BinaryInv
  <2>2. CASE deleter.step = "remove" /\ u = deleter.uid
    <3>1. u \in DOMAIN db => u \in raced
      BY <2>2 DEF Inv, BinaryInv
    <3>2. u \in InPipeline => u \in raced
      BY <2>2 DEF Inv, TypeInv, WatchOK
    <3> QED
      BY <1>3, <2>1, <3>1, <3>2
  <2>3. CASE ~ (deleter.step = "remove" /\ u = deleter.uid)
    BY <1>3, <2>1, <2>3
  <2> QED
    BY <2>2, <2>3
<1>5. deleter'.step \in {"lock", "remove"} /\ deleter'.uid \in DOMAIN db' => deleter'.uid \in raced'
    BY <1>3 DEF Inv, BinaryInv
<1>6. BinaryInv'
    BY <1>4, <1>5 DEF BinaryInv
<1>7. InsertInv' /\ EntriesOK'
    BY EntriesStay DEF Inv, TypeInv, InsertInv, pipelineVars
<1>8. ImagesApart => SurviveInv'
    BY <1>3, SurvivesAlone DEF Inv, pipelineVars
<1> QED
    BY <1>1, <1>2, <1>3, <1>6, <1>7, <1>8 DEF Inv, TypeInv

LEMMA RemovePathsKeeps ==
    ASSUME Inv, NEW uid \in Images, RemovePaths(uid)
    PROVE  Inv'
<1>1. /\ UNCHANGED <<disk, locks, pipelineVars, deleteQueue, deleter>> /\ Watch
      /\ db' = RemoveVirtualPathEntries(db, uid)
      /\ admin' = [step |-> "delete", uid |-> uid, uids |-> UidsToDelete(db, uid)]
    BY DEF RemovePaths
<1>2. PICK uids : admin' = [step |-> "delete", uid |-> uid, uids |-> uids]
    BY <1>1
<1>3. DeletionOK'
    BY <1>1, <1>2 DEF Inv, TypeInv, DeletionOK
<1>4. DOMAIN db' = DOMAIN db
    BY <1>1 DEF RemoveVirtualPathEntries
<1>5. ASSUME NEW u \in DOMAIN db
      PROVE  /\ GoodEntry(db'[u], DOMAIN db)
             /\ db'[u].metaData = db[u].metaData /\ db'[u].analyzed = db[u].analyzed
  <2>1. PICK old : old = db[u]
    OBVIOUS
  <2>2. PICK vfp : vfp = Restrict(old.vfp, DOMAIN old.vfp \ {uid})
    OBVIOUS
  <2>3. GoodEntry(old, DOMAIN db) /\ old \in Entries /\ old.vfp \in Vfps
    BY <2>1 DEF Inv, TypeInv, EntriesOK, GoodEntry, Entries
  <2>4. vfp \in Vfps
    BY <2>2, <2>3, RestrictedVfp
  <2>5. PICK e : e = [old EXCEPT !.vfp = vfp]
    OBVIOUS
  <2>6. /\ e \in Entries /\ e.firmware = old.firmware /\ e.metaData = old.metaData
        /\ e.analyzed = old.analyzed /\ e.parents = old.parents /\ e.roots = old.roots
    BY <2>3, <2>4, <2>5 DEF Entries
  <2>7. db'[u] = e \/ db'[u] = old
    BY <1>1, <2>1, <2>2, <2>3, <2>5 DEF RemoveVirtualPathEntries, Entries
  <2> QED
    BY <2>1, <2>3, <2>6, <2>7 DEF GoodEntry
<1>6. EntriesOK'
    BY <1>4, <1>5 DEF EntriesOK, Inv, TypeInv
<1>7. ASSUME ImagesApart, overlap => overlap' PROVE SurviveInv'
    BY <1>1, <1>4, <1>5, <1>7 DEF Inv, SurviveInv, pipelineVars
<1> QED
    BY <1>1, <1>3, <1>4, <1>6, <1>7, AdminStep

\* What delete_file_orphans leaves has no orphans: an entry that stays is outside
\* some set of entries whose removal leaves none, and all that goes is inside.
LEMMA CascadeLeavesNoOrphans ==
    ASSUME EntriesOK, NEW uid, NEW gone, gone = Cascade(db, uid), NEW u \in DOMAIN db \ gone
    PROVE  db[u].firmware \/ db[u].parents \ gone # {}
<1>1. PICK all \in SUBSET DOMAIN db :
        uid \in all /\ Orphans(RemoveRows(db, all)) = {} /\ u \notin all
    BY DEF Cascade
<1>2. gone \subseteq all
    BY <1>1 DEF Cascade
<1>3. PICK e : e = [db[u] EXCEPT !.parents = @ \ all, !.roots = @ \ all]
    OBVIOUS
<1>4. e.parents = db[u].parents \ all /\ e.firmware = db[u].firmware
    BY <1>3 DEF EntriesOK, GoodEntry, Entries
<1>5. u \in DOMAIN RemoveRows(db, all) /\ RemoveRows(db, all)[u] = e
    BY <1>1, <1>3 DEF RemoveRows
<1>6. e.parents # {} \/ e.firmware
    BY <1>1, <1>5 DEF Orphans
<1> QED
    BY <1>2, <1>4, <1>6

\* It takes nothing else: an entry that is a firmware or keeps a parent could have
\* been left out of the set, which is the least one.
LEMMA CascadeTakesOnlyOrphans ==
    ASSUME EntriesOK, NEW uid \in DOMAIN db, NEW gone, gone = Cascade(db, uid), NEW u \in gone
    PROVE  u = uid \/ (~ db[u].firmware /\ db[u].parents \subseteq gone)
<1> SUFFICES ASSUME u # uid, db[u].firmware \/ ~ (db[u].parents \subseteq gone)
             PROVE  FALSE
    OBVIOUS
<1>1. PICK fewer : fewer = gone \ {u}
    OBVIOUS
<1>2. fewer \in SUBSET DOMAIN db /\ uid \in fewer /\ u \in DOMAIN db
    BY <1>1 DEF Cascade
<1>3. Orphans(RemoveRows(db, fewer)) = {}
  <2>1. DOMAIN RemoveRows(db, fewer) = DOMAIN db \ fewer
    BY DEF RemoveRows
  <2>2. ASSUME NEW v \in DOMAIN db \ fewer
        PROVE  RemoveRows(db, fewer)[v].parents # {} \/ RemoveRows(db, fewer)[v].firmware
    <3>1. PICK e : e = [db[v] EXCEPT !.parents = @ \ fewer, !.roots = @ \ fewer]
      OBVIOUS
    <3>2. e.parents = db[v].parents \ fewer /\ e.firmware = db[v].firmware
      BY <3>1 DEF EntriesOK, GoodEntry, Entries
    <3>3. RemoveRows(db, fewer)[v] = e
      BY <3>1 DEF RemoveRows
    <3>4. db[v].firmware \/ db[v].parents \ fewer # {}
      <4>1. CASE v = u
        BY <1>1, <4>1
      <4>2. CASE v # u
        <5>1. v \in DOMAIN db \ gone
          BY <1>1, <4>2
        <5> QED
          BY <1>1, <5>1, CascadeLeavesNoOrphans
      <4> QED
        BY <4>1, <4>2
    <3> QED
      BY <3>2, <3>3, <3>4
  <2> QED
    BY <2>1, <2>2 DEF Orphans
<1>4. u \in fewer
    BY <1>2, <1>3 DEF Cascade
<1> QED
    BY <1>1, <1>4

LEMMA DeleteObjectKeeps ==
    ASSUME Inv, DeleteObject
    PROVE  Inv'
<1>1. /\ UNCHANGED <<disk, locks, pipelineVars, deleteQueue, deleter>> /\ Watch
      /\ admin.step = "delete" /\ admin' = [admin EXCEPT !.step = "send"]
    BY DEF DeleteObject
<1>2. DeletionOK'
  <2>1. admin = [step |-> admin.step, uid |-> admin.uid, uids |-> admin.uids]
    BY DEF Inv, TypeInv, DeletionOK
  <2>2. admin' = [step |-> "send", uid |-> admin.uid, uids |-> admin.uids]
    BY <1>1, <2>1
  <2>3. /\ admin'.step = "send" /\ admin'.uid = admin.uid /\ admin'.uids = admin.uids
    BY <2>2
  <2> QED
    BY <1>1, <2>2, <2>3 DEF Inv, TypeInv, DeletionOK
<1>3. EntriesOK' /\ DOMAIN db' \subseteq DOMAIN db
      /\ \A u \in DOMAIN db' : db'[u].metaData = db[u].metaData
  <2>1. CASE admin.uid \notin DOMAIN db
    <3>1. db' = db
      BY <2>1 DEF DeleteObject
    <3> QED
      BY <3>1, EntriesStay DEF Inv, TypeInv
  <2>2. CASE admin.uid \in DOMAIN db
    <3>1. PICK gone : gone = Cascade(db, admin.uid)
      OBVIOUS
    <3>2. db' = RemoveRows(db, gone)
      BY <2>2, <3>1 DEF DeleteObject
    <3>3. DOMAIN db' = DOMAIN db \ gone
      BY <3>2 DEF RemoveRows
    <3>4. ASSUME NEW u \in DOMAIN db'
          PROVE  GoodEntry(db'[u], DOMAIN db') /\ db'[u].metaData = db[u].metaData
      <4>1. PICK old : old = db[u]
        OBVIOUS
      <4>2. GoodEntry(old, DOMAIN db) /\ old \in Entries
        BY <3>3, <4>1 DEF Inv, TypeInv, EntriesOK, GoodEntry
      <4>3. PICK e : e = [old EXCEPT !.parents = @ \ gone, !.roots = @ \ gone]
        OBVIOUS
      <4>4. /\ e \in Entries /\ e.firmware = old.firmware /\ e.metaData = old.metaData
            /\ e.parents = old.parents \ gone /\ e.roots = old.roots \ gone
        BY <4>2, <4>3 DEF Entries
      <4>5. db'[u] = e
        BY <3>2, <3>3, <4>1, <4>3 DEF RemoveRows
      <4>6. old.firmware \/ old.parents \ gone # {}
        BY <3>1, <3>3, <4>1, CascadeLeavesNoOrphans DEF Inv, TypeInv
      <4> QED
        BY <3>3, <4>1, <4>2, <4>4, <4>5, <4>6 DEF GoodEntry
    <3> QED
      BY <3>3, <3>4 DEF EntriesOK, Inv, TypeInv
  <2> QED
    BY <2>1, <2>2
<1>4. ASSUME ImagesApart, overlap => overlap' PROVE SurviveInv'
  <2>1. SurviveInv /\ WatchOK /\ Deleting
    BY <1>1, <1>4 DEF Inv, TypeInv, Deleting
  <2>2. ~ overlap' => InPipeline = {}
    BY <1>4, <2>1 DEF WatchOK
  <2>3. ~ overlap' => SchedUids = {} /\ CollectorUids = {}
    BY <2>2, InPipelineIs
  <2>4. ~ overlap' => sched.step = "idle" /\ collector.step = "idle"
    BY <1>4, <2>1, <2>3 DEF SchedUids, CollectorUids, SurviveInv
  <2> QED
    BY <1>1, <1>3, <2>1, <2>4 DEF SurviveInv, pipelineVars
<1> QED
    BY <1>1, <1>2, <1>3, <1>4, AdminStep

LEMMA SendDeletionKeeps ==
    ASSUME Inv, SendDeletion
    PROVE  Inv'
<1>1. /\ UNCHANGED <<db, disk, locks, pipelineVars, deleter>> /\ Watch
      /\ admin' = [step |-> "idle", uid |-> "", uids |-> {}]
    BY DEF SendDeletion
<1>2. DeletionOK'
    BY <1>1 DEF Inv, TypeInv, DeletionOK
<1>3. EntriesOK'
    BY <1>1, EntriesStay DEF Inv, TypeInv
<1>4. ImagesApart /\ (overlap => overlap') => SurviveInv'
    BY <1>1, SurvivesAlone DEF Inv, pipelineVars
<1> QED
    BY <1>1, <1>2, <1>3, <1>4, AdminStep

LEMMA NextUidIs ==
    ASSUME NEW uids, NEW d, d = NextUid(uids)
    PROVE  d = [step |-> d.step, uid |-> d.uid, rest |-> d.rest] /\ d.step \in {"idle", "exists"}
    BY DEF NextUid

LEMMA DeleterMoves ==
    ASSUME DeletionOK, NEW step
    PROVE  [deleter EXCEPT !.step = step] = [step |-> step, uid |-> deleter.uid, rest |-> deleter.rest]
<1>1. deleter = [step |-> deleter.step, uid |-> deleter.uid, rest |-> deleter.rest]
    BY DEF DeletionOK
<1> QED
    BY <1>1

LEMMA TakeDeletionKeeps ==
    ASSUME Inv, TakeDeletion
    PROVE  Inv'
<1>1. /\ UNCHANGED <<db, disk, locks, pipelineVars, admin>> /\ Watch
      /\ deleter' = NextUid(Head(deleteQueue))
    BY DEF TakeDeletion
<1>2. DeletionOK' /\ deleter'.step \in {"idle", "exists"}
    BY <1>1, NextUidIs DEF Inv, TypeInv, DeletionOK
<1> QED
    BY <1>1, <1>2, DeleterStep

LEMMA CheckEntryKeeps ==
    ASSUME Inv, CheckEntry
    PROVE  Inv'
<1>1. UNCHANGED <<db, disk, locks, pipelineVars, admin>> /\ Watch /\ deleter.step = "exists"
    BY DEF CheckEntry
<1>2. CASE deleter.uid \in DOMAIN db
  <2>1. deleter' = NextUid(deleter.rest)
    BY <1>2 DEF CheckEntry
  <2>2. DeletionOK' /\ deleter'.step \in {"idle", "exists"}
    BY <1>1, <2>1, NextUidIs DEF Inv, TypeInv, DeletionOK
  <2> QED
    BY <1>1, <2>2, DeleterStep
<1>3. CASE deleter.uid \notin DOMAIN db
  <2>1. deleter' = [step |-> "lock", uid |-> deleter.uid, rest |-> deleter.rest]
    BY <1>3, DeleterMoves DEF CheckEntry, Inv, TypeInv
  <2>2. DeletionOK' /\ deleter'.uid = deleter.uid
    BY <1>1, <2>1 DEF Inv, TypeInv, DeletionOK
  <2> QED
    BY <1>1, <1>3, <2>2, DeleterStep
<1> QED
    BY <1>2, <1>3

LEMMA CheckLockKeeps ==
    ASSUME Inv, CheckLock
    PROVE  Inv'
<1>1. UNCHANGED <<db, disk, locks, pipelineVars, admin>> /\ Watch /\ deleter.step = "lock"
    BY DEF CheckLock
<1>2. CASE deleter.uid \in locks
  <2>1. deleter' = NextUid(deleter.rest)
    BY <1>2 DEF CheckLock
  <2>2. DeletionOK' /\ deleter'.step \in {"idle", "exists"}
    BY <1>1, <2>1, NextUidIs DEF Inv, TypeInv, DeletionOK
  <2> QED
    BY <1>1, <2>2, DeleterStep
<1>3. CASE deleter.uid \notin locks
  <2>1. deleter' = [step |-> "remove", uid |-> deleter.uid, rest |-> deleter.rest]
    BY <1>3, DeleterMoves DEF CheckLock, Inv, TypeInv
  <2>2. DeletionOK' /\ deleter'.uid = deleter.uid
    BY <1>1, <2>1 DEF Inv, TypeInv, DeletionOK
  <2> QED
    BY <1>1, <2>2, DeleterStep
<1> QED
    BY <1>2, <1>3

LEMMA RemoveFileKeeps ==
    ASSUME Inv, RemoveFile
    PROVE  Inv'
<1>1. /\ UNCHANGED <<db, locks, pipelineVars, admin>> /\ Watch /\ deleter.step = "remove"
      /\ disk' = disk \ {deleter.uid} /\ deleter' = NextUid(deleter.rest)
    BY DEF RemoveFile
<1>2. DeletionOK' /\ deleter'.step \in {"idle", "exists"}
    BY <1>1, NextUidIs DEF Inv, TypeInv, DeletionOK
<1> QED
    BY <1>1, <1>2, DeleterStep

-----------------------------------------------------------------------------
(* The theorems *)

LEMMA InitInv == Init => Inv
<1> SUFFICES ASSUME Init PROVE Inv
    OBVIOUS
<1>1. GoodQueue(<< >>) /\ UidsIn(<< >>) = {}
  <2>1. \A q : q = << >> => q \in Seq(Objects) /\ DOMAIN q = {}
    OBVIOUS
  <2>2. << >> \in Seq(Objects) /\ DOMAIN << >> = {}
    BY <2>1
  <2> QED
    BY <2>2, Zenon DEF GoodQueue, UidsIn
<1>2. DOMAIN db = {} /\ InPipeline = {} /\ ~ Deleting
  <2>1. UidsIn(unpackQueue) = {} /\ UidsIn(processQueue) = {} /\ results = {}
    BY <1>1 DEF Init
  <2>2. sched.step = "idle" /\ collector.step = "idle"
    BY DEF Init, Idle
  <2>3. SchedUids = {} /\ CollectorUids = {}
    BY <2>2 DEF SchedUids, CollectorUids
  <2>4. DOMAIN db = {}
    <3>1. \A q : q = << >> => DOMAIN q = {}
      OBVIOUS
    <3>2. db = << >>
      BY DEF Init
    <3> QED
      BY <3>1, <3>2
  <2>5. ~ Deleting
    BY DEF Init, Deleting
  <2> QED
    BY <2>1, <2>3, <2>4, <2>5, InPipelineIs
<1>3. EntriesOK /\ CollectorOK /\ DeletionOK /\ FilesOK
    BY <1>2 DEF Init, EntriesOK, CollectorOK, DeletionOK, FilesOK
<1>6. ObjectsOK
    BY <1>1 DEF Init, ObjectsOK
<1>4. SchedOK
    BY DEF Init, SchedOK, Idle, Steps
<1>5. WatchOK /\ BinaryInv /\ InsertInv /\ SurviveInv
    BY <1>2 DEF Init, WatchOK, BinaryInv, InsertInv, SurviveInv, Idle
<1> QED
    BY <1>3, <1>4, <1>5, <1>6 DEF Inv, TypeInv

LEMMA StutterInv == Inv /\ UNCHANGED vars => Inv'
<1> SUFFICES ASSUME Inv, UNCHANGED vars PROVE Inv'
    OBVIOUS
<1>1. ObjectsOK' /\ SchedOK' /\ CollectorOK' /\ InPipeline' = InPipeline
    BY PipelineStays DEF Inv, TypeInv, vars, pipelineVars
<1>2. DeletionOK' /\ Deleting' = Deleting
    BY DeletionStays DEF Inv, TypeInv, vars, deletionVars
<1>3. EntriesOK' /\ FilesOK'
    BY EntriesStay, FilesStay DEF Inv, TypeInv, vars
<1>4. WatchOK' /\ BinaryInv' /\ InsertInv' /\ (ImagesApart => SurviveInv')
    BY <1>1, <1>2 DEF Inv, TypeInv, WatchOK, BinaryInv, InsertInv, SurviveInv, vars
<1> QED
    BY <1>1, <1>2, <1>3, <1>4 DEF Inv, TypeInv

LEMMA NextInv == Inv /\ [Next]_vars => Inv'
    BY UploadKeeps, UnpackFailsKeeps, UnpackKeeps, CheckObjectKeeps, InsertObjectKeeps,
       UpdateFirmwareKeeps, UpdateFileKeeps, ReleaseLockKeeps, CheckAnalysisKeeps,
       StoreAnalysisKeeps, RemovePathsKeeps, DeleteObjectKeeps, SendDeletionKeeps,
       TakeDeletionKeeps, CheckEntryKeeps, CheckLockKeeps, RemoveFileKeeps, StutterInv
    DEF Next

LEMMA InvImplies ==
    Inv => TypeOK /\ NoOrphans /\ BinaryPresent /\ (ImagesApart => ProcessesSurvive)
<1> SUFFICES ASSUME Inv PROVE TypeOK /\ NoOrphans /\ BinaryPresent /\ (ImagesApart => ProcessesSurvive)
    OBVIOUS
<1>1. ASSUME NEW u \in DOMAIN db
      PROVE  /\ db[u].firmware \in BOOLEAN /\ db[u].metaData \in BOOLEAN /\ db[u].analyzed \in BOOLEAN
             /\ db[u].parents \subseteq DOMAIN db /\ db[u].roots \subseteq DOMAIN db
             /\ DOMAIN db[u].vfp \subseteq Images
             /\ db[u].firmware \/ db[u].parents # {}
  <2>1. GoodEntry(db[u], DOMAIN db) /\ db[u] \in Entries /\ db[u].vfp \in Vfps
    BY DEF Inv, TypeInv, EntriesOK, GoodEntry, Entries
  <2>2. DOMAIN db[u].vfp \subseteq Images
    BY <2>1, VfpsAre
  <2> QED
    BY <2>1, <2>2 DEF GoodEntry, Entries
<1>2. TypeOK
    BY <1>1 DEF TypeOK, Inv, TypeInv, EntriesOK, FilesOK, SchedOK, Steps, CollectorOK, DeletionOK,
                WatchOK
<1>3. NoOrphans
    BY <1>1 DEF NoOrphans
<1>4. BinaryPresent
    BY DEF Inv, BinaryInv, BinaryPresent
<1>5. ImagesApart => ProcessesSurvive
    BY DEF Inv, SurviveInv, ProcessesSurvive
<1> QED
    BY <1>2, <1>3, <1>4, <1>5

\* For any contents: in every interleaving of uploads and deletions every entry that
\* is no firmware has a parent, its relations are to entries that are there, and it
\* has its binary unless the listener for deletions looked at the file while it was
\* on its way.
THEOREM EntriesTheorem == Spec => [](TypeOK /\ NoOrphans /\ BinaryPresent)
<1>1. Init => Inv
    BY InitInv
<1>2. Inv /\ [Next]_vars => Inv'
    BY NextInv
<1>3. Inv => TypeOK /\ NoOrphans /\ BinaryPresent
    BY InvImplies
<1> QED
    BY <1>1, <1>2, <1>3, PTL DEF Spec

\* The three, at every moment: no image is a file of another one, so neither the
\* schedule process nor the collector ends unless a deletion overlaps an upload.
THEOREM EntriesIntactTheorem == ImagesApart => (Spec => []EntriesIntact)
<1> SUFFICES ASSUME ImagesApart PROVE Spec => []EntriesIntact
    OBVIOUS
<1>1. Init => Inv
    BY InitInv
<1>2. Inv /\ [Next]_vars => Inv'
    BY NextInv
<1>3. Inv => EntriesIntact
    BY InvImplies DEF EntriesIntact
<1> QED
    BY <1>1, <1>2, <1>3, PTL DEF Spec

\* The deletion of a firmware takes no other firmware with it and no file that still
\* has an archive, whatever other deletions and uploads left behind.
THEOREM OthersSparedTheorem == Spec => [][DeleteObject => OthersSpared]_vars
<1>1. Init => Inv
    BY InitInv
<1>2. Inv /\ [Next]_vars => Inv'
    BY NextInv
<1>3. Inv /\ [Next]_vars => [DeleteObject => OthersSpared]_vars
  <2> SUFFICES ASSUME Inv, DeleteObject PROVE OthersSpared
    OBVIOUS
  <2>1. CASE admin.uid \notin DOMAIN db
    BY <2>1 DEF DeleteObject, OthersSpared
  <2>2. CASE admin.uid \in DOMAIN db
    <3>1. PICK gone : gone = Cascade(db, admin.uid)
      OBVIOUS
    <3>2. db' = RemoveRows(db, gone)
      BY <2>2, <3>1 DEF DeleteObject
    <3>3. DOMAIN db \ DOMAIN db' = gone
      <4>1. DOMAIN db' = DOMAIN db \ gone /\ gone \subseteq DOMAIN db
        BY <3>1, <3>2 DEF RemoveRows, Cascade
      <4> QED
        BY <4>1
    <3>4. \A u \in gone : u = admin.uid \/ (~ db[u].firmware /\ db[u].parents \subseteq gone)
      BY <2>2, <3>1, CascadeTakesOnlyOrphans DEF Inv, TypeInv
    <3> QED
      BY <3>3, <3>4 DEF OthersSpared
  <2> QED
    BY <2>1, <2>2
<1> QED
    BY <1>1, <1>2, <1>3, PTL DEF Spec

-----------------------------------------------------------------------------
(* The paths and the archives of what is stored are real ones. *)

\* The archives from the root down to the file, each in the one before.
Chain(fo) ==
    /\ Len(fo.base) >= 1 /\ fo.base[1] = fo.root
    /\ \A i \in 1 .. Len(fo.base) - 1 : fo.base[i + 1] \in ExtractedUids([uid |-> fo.base[i]])

FromArchive(fo, a) ==
    /\ fo.parents = {a} /\ fo.roots = {fo.root} /\ a = fo.base[Len(fo.base)]
    /\ fo.uid \in ExtractedUids([uid |-> a])
    /\ \A name \in fo.names : \E c \in Content[a] : c.name = name /\ c.uid = fo.uid

Real(fo) ==
    /\ fo \in Objects
    /\ \/ /\ fo.firmware /\ fo.uid \in Images /\ fo.root = fo.uid /\ fo.base = << >>
          /\ fo.parents = {} /\ fo.roots = {}
       \/ ~ fo.firmware /\ Chain(fo) /\ FromArchive(fo, fo.base[Len(fo.base)])

RealQueue(q) == \A i \in DOMAIN q : Real(q[i])

RealEntry(u, e) ==
    u \notin Images =>
        /\ \A r \in DOMAIN e.vfp : \A p \in e.vfp[r] : IsPath(p, r, u)
        /\ \A a \in e.parents : u \in ExtractedUids([uid |-> a])

RealObjects ==
    /\ RealQueue(unpackQueue) /\ RealQueue(processQueue)
    /\ sched.step \notin {"idle", "dead"} => Real(sched.fo)
RealEntries == \A u \in DOMAIN db : RealEntry(u, db[u])
RealInv == RealObjects /\ RealEntries

LEMMA UploadedIsReal ==
    ASSUME NEW uid \in Images
    PROVE  Real(FirmwareObject(uid))
<1>1. FirmwareObject(uid) \in Objects
    BY UploadedIsGood DEF GoodObject
<1> QED
    BY <1>1 DEF Real, FirmwareObject

LEMMA ExtractedIsReal ==
    ASSUME NEW fo, Real(fo), NEW uid \in ExtractedUids(fo)
    PROVE  Real(ExtractedObject(fo, uid))
<1>1. ExtractedObject(fo, uid) \in Objects /\ fo \in Objects
    BY ExtractedIsGood DEF Real, GoodObject
<1>2. PICK new : new = ExtractedObject(fo, uid)
    OBVIOUS
<1>3. /\ new.uid = uid /\ ~ new.firmware /\ new.root = fo.root /\ new.parents = {fo.uid}
      /\ new.roots = {fo.root} /\ new.base = Append(fo.base, fo.uid)
      /\ new.names = {c.name : c \in {d \in Content[fo.uid] : d.uid = uid}}
    BY <1>2 DEF ExtractedObject
<1>4. fo.base \in Seq(Uids) /\ fo.uid \in Uids /\ Len(fo.base) \in Nat
    BY <1>1 DEF Objects
<1>5. /\ Len(new.base) = Len(fo.base) + 1 /\ new.base[Len(fo.base) + 1] = fo.uid
      /\ \A i \in 1 .. Len(fo.base) : new.base[i] = fo.base[i]
    BY <1>3, <1>4
<1>6. Chain(new)
  <2>1. CASE fo.firmware
    <3>1. Len(fo.base) = 0 /\ fo.root = fo.uid
      BY <2>1 DEF Real
    <3> QED
      BY <1>3, <1>5, <3>1 DEF Chain
  <2>2. CASE ~ fo.firmware
    <3>1. Chain(fo) /\ FromArchive(fo, fo.base[Len(fo.base)])
      BY <2>2 DEF Real
    <3>2. ASSUME NEW i \in 1 .. Len(fo.base)
          PROVE  new.base[i + 1] \in ExtractedUids([uid |-> new.base[i]])
      <4>1. CASE i = Len(fo.base)
        BY <1>5, <3>1, <4>1 DEF FromArchive
      <4>2. CASE i # Len(fo.base)
        <5>1. i \in 1 .. Len(fo.base) - 1 /\ i + 1 \in 1 .. Len(fo.base)
          BY <1>4, <4>2
        <5>2. new.base[i + 1] = fo.base[i + 1] /\ new.base[i] = fo.base[i]
          BY <1>5, <5>1
        <5> QED
          BY <3>1, <5>1, <5>2 DEF Chain
      <4> QED
        BY <4>1, <4>2
    <3>3. Len(new.base) >= 1 /\ new.base[1] = new.root /\ Len(new.base) - 1 = Len(fo.base)
      BY <1>3, <1>4, <1>5, <3>1 DEF Chain
    <3> QED
      BY <3>2, <3>3 DEF Chain
  <2> QED
    BY <2>1, <2>2
<1>7. FromArchive(new, new.base[Len(new.base)])
  <2>1. new.base[Len(new.base)] = fo.uid
    BY <1>4, <1>5
  <2>2. uid \in ExtractedUids([uid |-> fo.uid])
    BY DEF ExtractedUids, YieldedUids
  <2>3. \A name \in new.names : \E c \in Content[fo.uid] : c.name = name /\ c.uid = uid
    BY <1>3
  <2> QED
    BY <1>3, <2>1, <2>2, <2>3 DEF FromArchive
<1> QED
    BY <1>1, <1>2, <1>3, <1>6, <1>7 DEF Real

\* The paths of such an object.
LEMMA RealPaths ==
    ASSUME NEW fo, Real(fo), ~ fo.firmware
    PROVE  \A r \in DOMAIN VfpOf(fo) : \A p \in VfpOf(fo)[r] : IsPath(p, r, fo.uid)
<1>1. /\ DOMAIN VfpOf(fo) = {fo.root}
      /\ VfpOf(fo)[fo.root] = {Append(fo.base, name) : name \in fo.names}
    BY DEF VfpOf
<1>2. fo.base \in Seq(Uids) /\ Len(fo.base) \in Nat /\ fo.names \subseteq Names
    BY DEF Real, Objects
<1>3. Chain(fo) /\ FromArchive(fo, fo.base[Len(fo.base)])
    BY DEF Real
<1>4. ASSUME NEW name \in fo.names PROVE IsPath(Append(fo.base, name), fo.root, fo.uid)
  <2>1. fo.base \in Seq(Uids \cup Names) /\ name \in Uids \cup Names
    BY <1>2
  <2>2. PICK p : p = Append(fo.base, name)
    OBVIOUS
  <2>3. /\ Len(p) = Len(fo.base) + 1 /\ p[Len(p)] = name
        /\ \A i \in 1 .. Len(fo.base) : p[i] = fo.base[i]
    BY <2>1, <2>2
  <2>4. p[1] = fo.root /\ p[Len(p) - 1] = fo.base[Len(fo.base)] /\ Last(p) = name
    BY <1>2, <1>3, <2>3 DEF Chain, Last
  <2>5. ASSUME NEW i \in 1 .. Len(p) - 2
        PROVE  p[i + 1] \in ExtractedUids([uid |-> p[i]])
    <3>1. i \in 1 .. Len(fo.base) - 1 /\ i \in 1 .. Len(fo.base) /\ i + 1 \in 1 .. Len(fo.base)
      BY <1>2, <2>3
    <3>2. p[i + 1] = fo.base[i + 1] /\ p[i] = fo.base[i]
      BY <2>3, <3>1
    <3> QED
      BY <1>3, <3>1, <3>2 DEF Chain
  <2>6. \E c \in Content[p[Len(p) - 1]] : c.name = Last(p) /\ c.uid = fo.uid
    BY <1>3, <2>4 DEF FromArchive
  <2> QED
    BY <2>2, <2>4, <2>5, <2>6 DEF IsPath
<1> QED
    BY <1>1, <1>4

LEMMA RealInQueues ==
    ASSUME NEW q, GoodQueue(q), RealQueue(q)
    PROVE  /\ q # << >> => Real(Head(q)) /\ RealQueue(Tail(q))
           /\ \A fo : GoodObject(fo) /\ Real(fo) => RealQueue(Append(q, fo))
           /\ \A more : GoodQueue(more) /\ RealQueue(more) => RealQueue(q \o more)
<1>1. q \in Seq(Objects) /\ Len(q) \in Nat /\ DOMAIN q = 1 .. Len(q)
    BY DEF GoodQueue
<1>2. ASSUME q # << >> PROVE Real(Head(q)) /\ RealQueue(Tail(q))
  <2>1. Len(q) \in Nat \ {0} /\ Head(q) = q[1]
    BY <1>1, <1>2
  <2>2. /\ DOMAIN Tail(q) = 1 .. Len(q) - 1
        /\ \A i \in DOMAIN Tail(q) : Tail(q)[i] = q[i + 1] /\ i + 1 \in DOMAIN q
    BY <1>1, <1>2, <2>1
  <2>3. 1 \in DOMAIN q
    BY <1>1, <2>1
  <2> QED
    BY <2>1, <2>2, <2>3 DEF RealQueue
<1>3. ASSUME NEW fo, GoodObject(fo), Real(fo) PROVE RealQueue(Append(q, fo))
  <2>1. fo \in Objects
    BY <1>3 DEF GoodObject
  <2>2. /\ DOMAIN Append(q, fo) = 1 .. Len(q) + 1
        /\ \A i \in 1 .. Len(q) + 1 : Append(q, fo)[i] = IF i = Len(q) + 1 THEN fo ELSE q[i]
    BY <1>1, <2>1
  <2>3. \A i \in 1 .. Len(q) + 1 : i = Len(q) + 1 \/ i \in DOMAIN q
    BY <1>1
  <2> QED
    BY <1>3, <2>2, <2>3 DEF RealQueue
<1>4. ASSUME NEW more, GoodQueue(more), RealQueue(more) PROVE RealQueue(q \o more)
  <2>1. more \in Seq(Objects) /\ Len(more) \in Nat /\ DOMAIN more = 1 .. Len(more)
    BY <1>4 DEF GoodQueue
  <2>2. /\ DOMAIN (q \o more) = 1 .. Len(q) + Len(more)
        /\ \A i \in 1 .. Len(q) + Len(more) :
              (q \o more)[i] = IF i <= Len(q) THEN q[i] ELSE more[i - Len(q)]
    BY <1>1, <2>1
  <2>3. ASSUME NEW i \in DOMAIN (q \o more) PROVE Real((q \o more)[i])
    <3>1. CASE i <= Len(q)
      <4>1. i \in DOMAIN q /\ (q \o more)[i] = q[i]
        BY <1>1, <2>2, <3>1
      <4> QED
        BY <4>1 DEF RealQueue
    <3>2. CASE ~ (i <= Len(q))
      <4>1. i - Len(q) \in DOMAIN more /\ (q \o more)[i] = more[i - Len(q)]
        BY <1>1, <2>1, <2>2, <3>2
      <4> QED
        BY <1>4, <4>1 DEF RealQueue
    <3> QED
      BY <3>1, <3>2
  <2> QED
    BY <2>3 DEF RealQueue
<1> QED
    BY <1>2, <1>3, <1>4

LEMMA ExtractedAreReal ==
    ASSUME NEW fo, Real(fo), NEW S \in SUBSET ExtractedUids(fo), NEW order \in SetToSeqs(S)
    PROVE  RealQueue(ExtractedObjects(fo, order))
<1>1. order \in [1 .. Cardinality(S) -> S]
    BY DEF SetToSeqs
<1>2. /\ DOMAIN ExtractedObjects(fo, order) = DOMAIN order
      /\ \A i \in DOMAIN order : /\ ExtractedObjects(fo, order)[i] = ExtractedObject(fo, order[i])
                                 /\ order[i] \in ExtractedUids(fo)
    BY <1>1 DEF ExtractedObjects
<1> QED
    BY <1>2, ExtractedIsReal DEF RealQueue

\* What an unpack worker does to the queues.
LEMMA Unpacks ==
    ASSUME Inv, Unpack
    PROVE  \E fo, S, order :
            /\ fo = Head(unpackQueue) /\ unpackQueue # << >>
            /\ S = IF fo.depth >= MaxDepth THEN {} ELSE ExtractedUids(fo)
            /\ order \in SetToSeqs(S)
            /\ unpackQueue' = Tail(unpackQueue) \o ExtractedObjects(fo, order)
            /\ processQueue' = Append(processQueue, fo)
            /\ locks' = locks \cup (IF fo.depth >= MaxDepth THEN {} ELSE YieldedUids(fo))
<1>1. PICK fo : fo = Head(unpackQueue)
    OBVIOUS
<1>2. PICK S : S = IF fo.depth >= MaxDepth THEN {} ELSE ExtractedUids(fo)
    OBVIOUS
<1>3. PICK order \in SetToSeqs(S) :
        unpackQueue' = Tail(unpackQueue) \o ExtractedObjects(fo, order)
    BY <1>1, <1>2 DEF Unpack
<1>4. /\ unpackQueue # << >> /\ processQueue' = Append(processQueue, fo)
      /\ locks' = locks \cup (IF fo.depth >= MaxDepth THEN {} ELSE YieldedUids(fo))
    BY <1>1 DEF Unpack
<1> QED
    BY <1>1, <1>2, <1>3, <1>4

\* The entry that a file gets from an object.
LEMMA LinkedIsReal ==
    ASSUME NEW e \in Entries, NEW fo, Real(fo), RealEntry(fo.uid, e)
    PROVE  RealEntry(fo.uid, Linked(e, fo))
<1>1. /\ Linked(e, fo).parents = e.parents \cup (fo.parents \cap DOMAIN db)
      /\ Linked(e, fo).vfp = e.vfp
    BY DEF Linked, Entries
<1>2. \A a \in fo.parents : fo.uid \in ExtractedUids([uid |-> a])
    BY DEF Real, FromArchive
<1> QED
    BY <1>1, <1>2 DEF RealEntry

LEMMA InsertedIsReal ==
    ASSUME NEW fo, Real(fo)
    PROVE  /\ [NewEntry(fo) EXCEPT !.roots = {}, !.parents = {}] \in Entries
           /\ RealEntry(fo.uid, [NewEntry(fo) EXCEPT !.roots = {}, !.parents = {}])
<1>1. NewEntry(fo) \in Entries /\ NewEntry(fo).vfp = VfpOf(fo)
    BY NewEntryTyped DEF Real, NewEntry
<1>2. PICK e : e = [NewEntry(fo) EXCEPT !.roots = {}, !.parents = {}]
    OBVIOUS
<1>3. e \in Entries /\ e.vfp = VfpOf(fo) /\ e.parents = {}
    BY <1>1, <1>2 DEF Entries
<1>4. fo.uid \notin Images => ~ fo.firmware
    BY DEF Real
<1> QED
    BY <1>2, <1>3, <1>4, RealPaths DEF RealEntry

LEMMA UpdatedIsReal ==
    ASSUME Inv, NEW fo, Real(fo), fo.uid \in DOMAIN db, RealEntry(fo.uid, db[fo.uid])
    PROVE  RealEntry(fo.uid, UpdatedEntry(fo))
<1>1. PICK old : old = db[fo.uid]
    OBVIOUS
<1>2. PICK new : new = VfpOf(fo)
    OBVIOUS
<1>3. PICK vfp : vfp = UpdateVirtualFilePath(new, old.vfp)
    OBVIOUS
<1>4. /\ old \in Entries /\ old.vfp \in Vfps /\ vfp \in Vfps /\ fo.firmware \in BOOLEAN
  <2>1. old \in Entries /\ old.vfp \in Vfps
    BY <1>1 DEF Inv, TypeInv, EntriesOK, GoodEntry, Entries
  <2> QED
    BY <1>2, <1>3, <2>1, VfpOfObject, UpdatedVfp DEF Real, Objects
<1>5. PICK e : e = [old EXCEPT !.vfp = vfp, !.firmware = fo.firmware]
    OBVIOUS
<1>6. e \in Entries /\ e.vfp = vfp /\ e.parents = old.parents
  <2>1. PICK firmware \in BOOLEAN : firmware = fo.firmware
    BY <1>4
  <2>2. e = [old EXCEPT !.vfp = vfp, !.firmware = firmware]
    BY <1>5, <2>1
  <2> QED
    BY <1>4, <2>2 DEF Entries
<1>7. /\ DOMAIN vfp = DOMAIN old.vfp \cup DOMAIN new
      /\ \A r \in DOMAIN vfp :
            \A p \in vfp[r] : \/ r \in DOMAIN old.vfp /\ p \in old.vfp[r]
                              \/ r \in DOMAIN new /\ p \in new[r]
    BY <1>3 DEF UpdateVirtualFilePath, MergeVfpLists
<1>8. fo.uid \notin Images =>
        \A r \in DOMAIN new : \A p \in new[r] : IsPath(p, r, fo.uid)
    BY <1>2, RealPaths DEF Real
<1>9. RealEntry(fo.uid, e)
    BY <1>1, <1>6, <1>7, <1>8 DEF RealEntry
<1>10. UpdatedEntry(fo) = Linked(e, fo)
    BY <1>1, <1>2, <1>3, <1>5 DEF UpdatedEntry
<1> QED
    BY <1>6, <1>9, <1>10, LinkedIsReal

\* An entry that keeps some of its paths and parents.
LEMMA LessIsReal ==
    ASSUME NEW u, NEW old, NEW new, RealEntry(u, old), new.parents \subseteq old.parents,
           DOMAIN new.vfp \subseteq DOMAIN old.vfp,
           \A r \in DOMAIN new.vfp : new.vfp[r] = old.vfp[r]
    PROVE  RealEntry(u, new)
    BY DEF RealEntry

LEMMA RealObjectsNext ==
    ASSUME Inv, RealObjects, Next
    PROVE  RealObjects'
<1>1. GoodQueue(unpackQueue) /\ GoodQueue(processQueue)
    BY DEF Inv, TypeInv, ObjectsOK
<1>2. CASE \E uid \in Images : Upload(uid)
  <2>1. PICK uid \in Images : Upload(uid)
    BY <1>2
  <2>2. /\ UNCHANGED <<processQueue, sched>>
        /\ unpackQueue' = Append(unpackQueue, FirmwareObject(uid))
    BY <2>1 DEF Upload
  <2>3. RealQueue(unpackQueue')
    BY <1>1, <2>2, UploadedIsGood, UploadedIsReal, RealInQueues DEF RealObjects
  <2> QED
    BY <2>2, <2>3 DEF RealObjects
<1>3. CASE Unpack
  <2>1. PICK fo, S, order :
          /\ fo = Head(unpackQueue) /\ unpackQueue # << >>
          /\ S = IF fo.depth >= MaxDepth THEN {} ELSE ExtractedUids(fo)
          /\ order \in SetToSeqs(S)
          /\ unpackQueue' = Tail(unpackQueue) \o ExtractedObjects(fo, order)
          /\ processQueue' = Append(processQueue, fo)
    BY <1>3, Unpacks
  <2>2. GoodObject(fo) /\ fo \in Objects /\ GoodQueue(Tail(unpackQueue)) /\ S \in SUBSET ExtractedUids(fo)
    BY <1>1, <2>1, HeadOfQueue DEF GoodObject
  <2>3. Real(fo) /\ RealQueue(Tail(unpackQueue))
    BY <1>1, <2>1, RealInQueues DEF RealObjects
  <2>4. GoodQueue(ExtractedObjects(fo, order)) /\ RealQueue(ExtractedObjects(fo, order))
    BY <2>1, <2>2, <2>3, ExtractedAreGood, ExtractedAreReal
  <2>5. RealQueue(unpackQueue') /\ RealQueue(processQueue')
    BY <1>1, <2>1, <2>2, <2>3, <2>4, RealInQueues DEF RealObjects
  <2>6. UNCHANGED sched
    BY <1>3 DEF Unpack
  <2> QED
    BY <2>5, <2>6 DEF RealObjects
<1>4. CASE UnpackFails
  <2>1. /\ unpackQueue # << >> /\ unpackQueue' = Tail(unpackQueue)
        /\ UNCHANGED <<processQueue, sched>>
    BY <1>4 DEF UnpackFails
  <2> QED
    BY <1>1, <2>1, RealInQueues DEF RealObjects
<1>5. CASE CheckObject
  <2>1. /\ processQueue # << >> /\ processQueue' = Tail(processQueue)
        /\ sched'.fo = Head(processQueue) /\ UNCHANGED unpackQueue
    BY <1>5 DEF CheckObject
  <2> QED
    BY <1>1, <2>1, RealInQueues DEF RealObjects
<1>6. CASE InsertObject \/ UpdateFirmware \/ UpdateFile \/ ReleaseLock
  <2>1. UNCHANGED <<unpackQueue, processQueue>>
    BY <1>6 DEF InsertObject, UpdateFirmware, UpdateFile, ReleaseLock
  <2>2. sched.step \notin {"idle", "dead"} /\ sched \in [step : Steps, fo : Objects]
    BY <1>6 DEF InsertObject, UpdateFirmware, UpdateFile, ReleaseLock, Inv, TypeInv, SchedOK
  <2>3. \/ sched' = Idle
        \/ \E step \in Steps : sched' = [sched EXCEPT !.step = step]
    BY <1>6 DEF InsertObject, UpdateFirmware, UpdateFile, ReleaseLock, Steps
  <2>4. sched'.step = "idle" \/ sched'.fo = sched.fo
    BY <2>2, <2>3 DEF Idle
  <2> QED
    BY <2>1, <2>2, <2>4 DEF RealObjects
<1>7. CASE \/ \E uid \in Images : RemovePaths(uid)
           \/ \E uid \in results : CheckAnalysis(uid)
           \/ StoreAnalysis \/ DeleteObject \/ SendDeletion
           \/ TakeDeletion \/ CheckEntry \/ CheckLock \/ RemoveFile
  <2>1. UNCHANGED <<unpackQueue, processQueue, sched>>
    BY <1>7 DEF RemovePaths, CheckAnalysis, StoreAnalysis, DeleteObject, SendDeletion,
                TakeDeletion, CheckEntry, CheckLock, RemoveFile, pipelineVars
  <2> QED
    BY <2>1 DEF RealObjects
<1> QED
    BY <1>2, <1>3, <1>4, <1>5, <1>6, <1>7 DEF Next

LEMMA RealEntriesNext ==
    ASSUME Inv, RealObjects, RealEntries, Next
    PROVE  RealEntries'
<1>1. ASSUME NEW u \in DOMAIN db
      PROVE  db[u] \in Entries /\ db[u].vfp \in Vfps
    BY DEF Inv, TypeInv, EntriesOK, GoodEntry, Entries
<1>2. CASE UNCHANGED db
    BY <1>2 DEF RealEntries
<1>3. CASE InsertObject \/ UpdateFile
  <2>1. PICK fo : fo = sched.fo
    OBVIOUS
  <2>2. Real(fo)
    BY <1>3, <2>1 DEF InsertObject, UpdateFile, RealObjects
  <2>3. \/ UNCHANGED db
        \/ \E e : db' = With(fo.uid, e) /\ RealEntry(fo.uid, e)
    <3>1. CASE InsertObject
      <4>1. PICK e : e = [NewEntry(fo) EXCEPT !.roots = {}, !.parents = {}]
        OBVIOUS
      <4>2. UNCHANGED db \/ db' = With(fo.uid, Linked(e, fo))
        BY <2>1, <3>1, <4>1 DEF InsertObject
      <4>3. RealEntry(fo.uid, Linked(e, fo))
        BY <2>2, <4>1, InsertedIsReal, LinkedIsReal
      <4> QED
        BY <4>2, <4>3
    <3>2. CASE UpdateFile
      <4>1. UNCHANGED db \/ (fo.uid \in DOMAIN db /\ db' = With(fo.uid, UpdatedEntry(fo)))
        BY <2>1, <3>2 DEF UpdateFile
      <4>2. fo.uid \in DOMAIN db => RealEntry(fo.uid, UpdatedEntry(fo))
        BY <2>2, UpdatedIsReal DEF RealEntries
      <4> QED
        BY <4>1, <4>2
    <3> QED
      BY <1>3, <3>1, <3>2
  <2>4. ASSUME NEW e, db' = With(fo.uid, e), RealEntry(fo.uid, e)
        PROVE  RealEntries'
    BY <2>4 DEF With, RealEntries
  <2> QED
    BY <1>2, <2>3, <2>4
<1>4. ASSUME DOMAIN db' \subseteq DOMAIN db,
             \A u \in DOMAIN db' : /\ db'[u].parents \subseteq db[u].parents
                                   /\ DOMAIN db'[u].vfp \subseteq DOMAIN db[u].vfp
                                   /\ \A r \in DOMAIN db'[u].vfp : db'[u].vfp[r] = db[u].vfp[r]
      PROVE  RealEntries'
    BY <1>4, LessIsReal DEF RealEntries
<1>5. CASE StoreAnalysis
  <2>1. ASSUME NEW u \in DOMAIN db
        PROVE  db'[u].parents = db[u].parents /\ db'[u].vfp = db[u].vfp
    <3>1. PICK e : e = [db[u] EXCEPT !.analyzed = TRUE]
      OBVIOUS
    <3>2. e.parents = db[u].parents /\ e.vfp = db[u].vfp
      BY <1>1, <3>1 DEF Entries
    <3>3. db'[u] = e \/ db'[u] = db[u]
      BY <1>5, <3>1 DEF StoreAnalysis, Inv, TypeInv, EntriesOK
    <3> QED
      BY <3>2, <3>3
  <2>2. DOMAIN db' = DOMAIN db
    BY <1>5 DEF StoreAnalysis
  <2> QED
    BY <1>4, <2>1, <2>2
<1>6. CASE \E root \in Images : RemovePaths(root)
  <2>1. PICK root \in Images : RemovePaths(root)
    BY <1>6
  <2>2. DOMAIN db' = DOMAIN db
    BY <2>1 DEF RemovePaths, RemoveVirtualPathEntries
  <2>3. ASSUME NEW u \in DOMAIN db
        PROVE  /\ db'[u].parents = db[u].parents
               /\ DOMAIN db'[u].vfp \subseteq DOMAIN db[u].vfp
               /\ \A r \in DOMAIN db'[u].vfp : db'[u].vfp[r] = db[u].vfp[r]
    <3>1. PICK old : old = db[u]
      OBVIOUS
    <3>2. PICK vfp : vfp = Restrict(old.vfp, DOMAIN old.vfp \ {root})
      OBVIOUS
    <3>3. DOMAIN vfp \subseteq DOMAIN old.vfp /\ \A r \in DOMAIN vfp : vfp[r] = old.vfp[r]
      BY <3>2 DEF Restrict
    <3>4. PICK e : e = [old EXCEPT !.vfp = vfp]
      OBVIOUS
    <3>5. e.parents = old.parents /\ e.vfp = vfp
      BY <1>1, <3>1, <3>4 DEF Entries
    <3>6. db'[u] = e \/ db'[u] = old
      BY <1>1, <2>1, <3>1, <3>2, <3>4 DEF RemovePaths, RemoveVirtualPathEntries, Entries
    <3> QED
      BY <3>1, <3>3, <3>5, <3>6
  <2> QED
    BY <1>4, <2>2, <2>3
<1>7. CASE DeleteObject
  <2>1. CASE UNCHANGED db
    BY <2>1, <1>2
  <2>2. CASE db' = RemoveRows(db, Cascade(db, admin.uid))
    <3>1. PICK gone : gone = Cascade(db, admin.uid)
      OBVIOUS
    <3>2. DOMAIN db' = DOMAIN db \ gone
      BY <2>2, <3>1 DEF RemoveRows
    <3>3. ASSUME NEW u \in DOMAIN db'
          PROVE  db'[u].parents \subseteq db[u].parents /\ db'[u].vfp = db[u].vfp
      <4>1. PICK e : e = [db[u] EXCEPT !.parents = @ \ gone, !.roots = @ \ gone]
        OBVIOUS
      <4>2. u \in DOMAIN db /\ e.parents = db[u].parents \ gone /\ e.vfp = db[u].vfp
        BY <1>1, <3>2, <4>1 DEF Entries
      <4>3. db'[u] = e
        BY <2>2, <3>1, <3>2, <4>1 DEF RemoveRows
      <4> QED
        BY <4>2, <4>3
    <3> QED
      BY <1>4, <3>2, <3>3
  <2> QED
    BY <1>7, <2>1, <2>2 DEF DeleteObject
<1>8. CASE \/ \E uid \in Images : Upload(uid)
           \/ \E uid \in results : CheckAnalysis(uid)
           \/ Unpack \/ UnpackFails \/ CheckObject \/ UpdateFirmware \/ ReleaseLock
           \/ SendDeletion \/ TakeDeletion \/ CheckEntry \/ CheckLock \/ RemoveFile
  <2>1. UNCHANGED db
    BY <1>8 DEF Upload, CheckAnalysis, Unpack, UnpackFails, CheckObject, UpdateFirmware,
                ReleaseLock, SendDeletion, TakeDeletion, CheckEntry, CheckLock, RemoveFile
  <2> QED
    BY <1>2, <2>1
<1> QED
    BY <1>3, <1>5, <1>6, <1>7, <1>8 DEF Next

LEMMA RealIsInductive ==
    /\ Init => RealInv
    /\ Inv /\ RealInv /\ [Next]_vars => RealInv'
<1>1. ASSUME Init PROVE RealInv
  <2>1. \A q : q = << >> => DOMAIN q = {}
    OBVIOUS
  <2>2. unpackQueue = << >> /\ processQueue = << >> /\ db = << >> /\ sched.step = "idle"
    BY <1>1 DEF Init, Idle
  <2> QED
    BY <2>1, <2>2 DEF RealInv, RealObjects, RealEntries, RealQueue
<1>2. ASSUME RealInv, UNCHANGED vars PROVE RealInv'
    BY <1>2 DEF RealInv, RealObjects, RealEntries, vars
<1> QED
    BY <1>1, <1>2, RealObjectsNext, RealEntriesNext DEF RealInv

\* Whatever the interleaving of uploads, analyses and deletions, every virtual file
\* path that is stored leads through archives that hold one another to the file, and
\* every record of included_files is of an archive that holds it: neither the merge
\* of the paths of two uploads nor what a deletion removes makes one up.
THEOREM RecordsRealTheorem == Spec => []RecordsReal
<1>1. Init => Inv /\ RealInv
    BY InitInv, RealIsInductive
<1>2. (Inv /\ RealInv) /\ [Next]_vars => (Inv /\ RealInv)'
    BY NextInv, RealIsInductive
<1>3. Inv /\ RealInv => RecordsReal
    BY DEF RealInv, RealEntries, RealEntry, RecordsReal
<1> QED
    BY <1>1, <1>2, <1>3, PTL DEF Spec

-----------------------------------------------------------------------------
(* When nothing is under way, nothing is left to do. *)

\* A file that has no analysis yet is about to get one.
AnalyzedInv ==
    \A u \in DOMAIN db :
        \/ db[u].analyzed \/ u \in results
        \/ collector.step \in {"update", "insert"} /\ collector.uid = u
        \/ sched.step = "release" /\ sched.fo.uid = u

\* What an object needs to be there when it is stored is there, or comes before it:
\* the archives are queued for analysis before the files they hold.
Needs(fo) == fo.parents \cup fo.roots
There == DOMAIN db \cup SchedUids
InLine(q, there) ==
    \A i \in DOMAIN q : Needs(q[i]) \subseteq there \cup {q[j].uid : j \in 1 .. i - 1}

WaitInv ==
    ~ overlap =>
        /\ raced = {}
        /\ locks \subseteq UidsIn(unpackQueue) \cup UidsIn(processQueue) \cup SchedUids
        /\ InLine(processQueue, There)
        /\ \A i \in DOMAIN unpackQueue :
              Needs(unpackQueue[i]) \subseteq There \cup UidsIn(processQueue)
        /\ sched.step \in {"insert", "update_firmware", "update_file"} =>
              Needs(sched.fo) \subseteq DOMAIN db
        /\ sched.step = "release" => sched.fo.uid \in DOMAIN db

\* Every file that is extracted is queued.
LEMMA AllAreQueued ==
    ASSUME NEW fo \in Objects, NEW S \in SUBSET ExtractedUids(fo), NEW order \in SetToSeqs(S)
    PROVE  S \subseteq UidsIn(ExtractedObjects(fo, order))
<1> DEFINE n == Cardinality(S)
<1>1. order \in [1 .. n -> S] /\ \A i, j \in 1 .. n : i # j => order[i] # order[j]
    BY DEF SetToSeqs
<1>2. IsFiniteSet(S) /\ n \in Nat
  <2>1. S \in SUBSET Uids
    BY ContentAssumption DEF ExtractedUids, YieldedUids, Objects
  <2> QED
    BY <2>1, ContentAssumption, FS_Subset, FS_CardinalityType
<1>3. IsFiniteSet(1 .. n) /\ Cardinality(1 .. n) = n
    BY <1>2, FS_Interval
<1>4. order \in Injection(1 .. n, S)
    BY <1>1 DEF Injection, IsInjective
<1>5. order \in Surjection(1 .. n, S)
    BY <1>2, <1>3, <1>4, FS_Injection
<1>6. \A u \in S : \E i \in 1 .. n : order[i] = u
    BY <1>5 DEF Surjection
<1>7. /\ DOMAIN ExtractedObjects(fo, order) = 1 .. n
      /\ \A i \in 1 .. n : ExtractedObjects(fo, order)[i].uid = order[i]
    BY <1>1 DEF ExtractedObjects, ExtractedObject
<1> QED
    BY <1>6, <1>7 DEF UidsIn

\* The queues of the pipeline.
LEMMA InLineMoves ==
    ASSUME NEW q, GoodQueue(q), NEW there, InLine(q, there)
    PROVE  /\ q # << >> => /\ Needs(Head(q)) \subseteq there
                           /\ InLine(Tail(q), there \cup {Head(q).uid})
           /\ \A fo : GoodObject(fo) /\ Needs(fo) \subseteq there \cup UidsIn(q)
                        => InLine(Append(q, fo), there)
<1>1. q \in Seq(Objects) /\ Len(q) \in Nat /\ DOMAIN q = 1 .. Len(q)
    BY DEF GoodQueue
<1>2. ASSUME q # << >>
      PROVE  /\ Needs(Head(q)) \subseteq there
             /\ InLine(Tail(q), there \cup {Head(q).uid})
  <2>1. Len(q) \in Nat \ {0} /\ Head(q) = q[1] /\ 1 \in DOMAIN q
    BY <1>1, <1>2
  <2>2. /\ DOMAIN Tail(q) = 1 .. Len(q) - 1
        /\ \A i \in DOMAIN Tail(q) : Tail(q)[i] = q[i + 1] /\ i + 1 \in DOMAIN q
    BY <1>1, <1>2, <2>1
  <2>3. Needs(q[1]) \subseteq there
    <3>1. {q[j].uid : j \in 1 .. 1 - 1} = {}
      OBVIOUS
    <3> QED
      BY <2>1, <3>1 DEF InLine
  <2>4. ASSUME NEW i \in DOMAIN Tail(q)
        PROVE  Needs(Tail(q)[i]) \subseteq
                  (there \cup {Head(q).uid}) \cup {Tail(q)[j].uid : j \in 1 .. i - 1}
    <3>1. /\ i \in Nat \ {0} /\ i + 1 \in DOMAIN q
          /\ Tail(q)[i] = q[i + 1] /\ (i + 1) - 1 = i
      BY <1>1, <2>1, <2>2
    <3>2. Needs(q[i + 1]) \subseteq there \cup {q[j].uid : j \in 1 .. i}
      BY <3>1 DEF InLine
    <3>3. ASSUME NEW j \in 1 .. i
          PROVE  q[j].uid \in {Head(q).uid} \cup {Tail(q)[k].uid : k \in 1 .. i - 1}
      <4>1. CASE j = 1
        BY <2>1, <4>1
      <4>2. CASE j # 1
        <5>1. j - 1 \in 1 .. i - 1 /\ j - 1 \in DOMAIN Tail(q) /\ (j - 1) + 1 = j
          BY <1>1, <2>1, <2>2, <3>1, <4>2
        <5>2. Tail(q)[j - 1] = q[j]
          BY <2>2, <5>1
        <5> QED
          BY <5>1, <5>2
      <4> QED
        BY <4>1, <4>2
    <3> QED
      BY <3>1, <3>2, <3>3
  <2> QED
    BY <2>1, <2>3, <2>4 DEF InLine
<1>3. ASSUME NEW fo, GoodObject(fo), Needs(fo) \subseteq there \cup UidsIn(q)
      PROVE  InLine(Append(q, fo), there)
  <2>1. PICK r : r = Append(q, fo)
    OBVIOUS
  <2>2. fo \in Objects
    BY <1>3 DEF GoodObject
  <2>3. /\ DOMAIN r = 1 .. Len(q) + 1 /\ r[Len(q) + 1] = fo
        /\ \A i \in 1 .. Len(q) : r[i] = q[i]
    BY <1>1, <2>1, <2>2
  <2>4. ASSUME NEW i \in DOMAIN r
        PROVE  Needs(r[i]) \subseteq there \cup {r[j].uid : j \in 1 .. i - 1}
    <3>1. \A j \in 1 .. i - 1 : j \in 1 .. Len(q) /\ r[j] = q[j]
      BY <1>1, <2>3
    <3>2. {r[j].uid : j \in 1 .. i - 1} = {q[j].uid : j \in 1 .. i - 1}
      BY <3>1
    <3>3. CASE i = Len(q) + 1
      <4>1. i - 1 = Len(q) /\ r[i] = fo
        BY <1>1, <2>3, <3>3
      <4> QED
        BY <1>1, <1>3, <3>2, <4>1 DEF UidsIn
    <3>4. CASE i # Len(q) + 1
      <4>1. i \in DOMAIN q /\ r[i] = q[i]
        BY <1>1, <2>3, <3>4
      <4> QED
        BY <3>2, <4>1 DEF InLine
    <3> QED
      BY <3>3, <3>4
  <2> QED
    BY <2>1, <2>4 DEF InLine
<1> QED
    BY <1>2, <1>3

LEMMA InLineMore ==
    ASSUME NEW q, NEW there, NEW more, InLine(q, there), there \subseteq more
    PROVE  InLine(q, more)
    BY DEF InLine

\* As long as nothing overlaps, no file of the pipeline is looked at by the listener
\* for deletions.
LEMMA WatchedApart ==
    ASSUME WaitInv, Watch, ~ overlap'
    PROVE  ~ overlap /\ raced' = {} /\ (InPipeline' = {} \/ ~ Deleting')
<1>1. overlap' = (overlap \/ (InPipeline' # {} /\ Deleting'))
    BY DEF Watch
<1>2. ~ overlap /\ (InPipeline' = {} \/ ~ Deleting')
    BY <1>1
<1>3. raced' = IF deleter'.step = "idle" THEN raced
               ELSE raced \cup (InPipeline' \cap {deleter'.uid})
    BY DEF Watch
<1>4. deleter'.step # "idle" => InPipeline' = {}
    BY <1>2 DEF Deleting
<1> QED
    BY <1>2, <1>3, <1>4 DEF WaitInv

LEMMA NextWatches == Next => Watch
    BY DEF Next, Upload, RemovePaths, Unpack, UnpackFails, CheckObject, InsertObject,
           UpdateFirmware, UpdateFile, ReleaseLock, CheckAnalysis, StoreAnalysis,
           DeleteObject, SendDeletion, TakeDeletion, CheckEntry, CheckLock, RemoveFile

\* A step that leaves the queues and the schedule process alone and takes no entry.
LEMMA WaitStays ==
    ASSUME WaitInv, ~ overlap, raced' = {}, UNCHANGED <<locks, unpackQueue, processQueue, sched>>,
           DOMAIN db \subseteq DOMAIN db'
    PROVE  WaitInv'
<1>1. UNCHANGED SchedUids /\ There \subseteq There'
    BY DEF SchedUids, There
<1>2. InLine(processQueue, There) => InLine(processQueue', There')
    BY <1>1, InLineMore
<1>3. UNCHANGED <<UidsIn(unpackQueue), UidsIn(processQueue)>>
    BY DEF UidsIn
<1> QED
    BY <1>1, <1>2, <1>3 DEF WaitInv

\* The uids of two queues together, and of a queue without its first object.
LEMMA UidsTogether ==
    ASSUME NEW q, GoodQueue(q), NEW more, GoodQueue(more)
    PROVE  /\ UidsIn(q) \cup UidsIn(more) \subseteq UidsIn(q \o more)
           /\ \A i \in DOMAIN (q \o more) : \/ \E j \in DOMAIN q : (q \o more)[i] = q[j]
                                            \/ \E j \in DOMAIN more : (q \o more)[i] = more[j]
<1>1. PICK both : both = q \o more
    OBVIOUS
<1>2. /\ q \in Seq(Objects) /\ more \in Seq(Objects) /\ Len(q) \in Nat /\ Len(more) \in Nat
      /\ DOMAIN q = 1 .. Len(q) /\ DOMAIN more = 1 .. Len(more)
    BY DEF GoodQueue
<1>3. /\ DOMAIN both = 1 .. Len(q) + Len(more)
      /\ \A i \in 1 .. Len(q) + Len(more) :
            both[i] = IF i <= Len(q) THEN q[i] ELSE more[i - Len(q)]
    BY <1>1, <1>2
<1>4. ASSUME NEW i \in DOMAIN q PROVE i \in DOMAIN both /\ both[i] = q[i]
    BY <1>2, <1>3
<1>5. ASSUME NEW i \in DOMAIN more PROVE Len(q) + i \in DOMAIN both /\ both[Len(q) + i] = more[i]
  <2>1. /\ Len(q) + i \in 1 .. Len(q) + Len(more) /\ ~ (Len(q) + i <= Len(q))
        /\ (Len(q) + i) - Len(q) = i
    BY <1>2
  <2> QED
    BY <1>3, <2>1
<1>6. ASSUME NEW i \in DOMAIN both
      PROVE  \/ i \in DOMAIN q /\ both[i] = q[i]
             \/ i - Len(q) \in DOMAIN more /\ both[i] = more[i - Len(q)]
    BY <1>2, <1>3
<1>7. UidsIn(q) \cup UidsIn(more) \subseteq UidsIn(both)
    BY <1>4, <1>5 DEF UidsIn
<1> QED
    BY <1>1, <1>6, <1>7

LEMMA UidsOfTail ==
    ASSUME NEW q, GoodQueue(q), q # << >>
    PROVE  /\ UidsIn(q) = {Head(q).uid} \cup UidsIn(Tail(q))
           /\ Head(q) = q[1] /\ 1 \in DOMAIN q
           /\ \A i \in DOMAIN Tail(q) : \E j \in DOMAIN q : Tail(q)[i] = q[j]
<1>1. /\ q \in Seq(Objects) /\ Len(q) \in Nat \ {0} /\ DOMAIN q = 1 .. Len(q)
      /\ Head(q) = q[1] /\ 1 \in DOMAIN q
    BY DEF GoodQueue
<1>2. /\ DOMAIN Tail(q) = 1 .. Len(q) - 1
      /\ \A i \in DOMAIN Tail(q) : Tail(q)[i] = q[i + 1] /\ i + 1 \in DOMAIN q
    BY <1>1
<1>3. ASSUME NEW i \in DOMAIN q, i # 1
      PROVE  i - 1 \in DOMAIN Tail(q) /\ Tail(q)[i - 1] = q[i]
  <2>1. i - 1 \in 1 .. Len(q) - 1 /\ (i - 1) + 1 = i
    BY <1>1, <1>3
  <2> QED
    BY <1>2, <2>1
<1>4. UidsIn(q) \subseteq {Head(q).uid} \cup UidsIn(Tail(q))
  <2>1. ASSUME NEW i \in DOMAIN q PROVE q[i].uid \in {Head(q).uid} \cup UidsIn(Tail(q))
    <3>1. CASE i = 1
      BY <1>1, <3>1
    <3>2. CASE i # 1
      BY <1>3, <3>2 DEF UidsIn
    <3> QED
      BY <3>1, <3>2
  <2> QED
    BY <2>1 DEF UidsIn
<1>5. {Head(q).uid} \cup UidsIn(Tail(q)) \subseteq UidsIn(q)
    BY <1>1, <1>2 DEF UidsIn
<1> QED
    BY <1>1, <1>2, <1>4, <1>5

LEMMA UploadWaits ==
    ASSUME Inv, WaitInv, ~ overlap, raced' = {}, NEW uid \in Images, Upload(uid)
    PROVE  WaitInv'
<1>1. /\ UNCHANGED <<db, locks, processQueue, sched>>
      /\ unpackQueue' = Append(unpackQueue, FirmwareObject(uid))
    BY DEF Upload
<1>2. PICK fo : fo = FirmwareObject(uid)
    OBVIOUS
<1>3. GoodObject(fo) /\ fo \in Objects /\ Needs(fo) = {}
    BY <1>2, UploadedIsGood DEF GoodObject, Needs, FirmwareObject
<1>4. UidsIn(unpackQueue') = UidsIn(unpackQueue) \cup {fo.uid}
    BY <1>1, <1>2, <1>3, AppendedToQueue DEF Inv, TypeInv, ObjectsOK
<1>5. UNCHANGED <<SchedUids, There>>
    BY <1>1 DEF SchedUids, There
<1>6. ASSUME NEW i \in DOMAIN unpackQueue'
      PROVE  Needs(unpackQueue'[i]) \subseteq There \cup UidsIn(processQueue)
  <2>1. /\ unpackQueue \in Seq(Objects) /\ Len(unpackQueue) \in Nat
        /\ DOMAIN unpackQueue = 1 .. Len(unpackQueue) /\ unpackQueue' = Append(unpackQueue, fo)
    BY <1>1, <1>2 DEF Inv, TypeInv, ObjectsOK, GoodQueue
  <2>2. unpackQueue'[i] = fo \/ (i \in DOMAIN unpackQueue /\ unpackQueue'[i] = unpackQueue[i])
    <3>1. /\ DOMAIN unpackQueue' = 1 .. Len(unpackQueue) + 1
          /\ \A k \in 1 .. Len(unpackQueue) + 1 :
                unpackQueue'[k] = IF k = Len(unpackQueue) + 1 THEN fo ELSE unpackQueue[k]
      BY <1>3, <2>1
    <3> QED
      BY <2>1, <3>1
  <2>3. i \in DOMAIN unpackQueue => Needs(unpackQueue[i]) \subseteq There \cup UidsIn(processQueue)
    BY DEF WaitInv
  <2> QED
    BY <1>3, <2>2, <2>3
<1> QED
    BY <1>1, <1>4, <1>5, <1>6 DEF WaitInv

LEMMA UnpackWaits ==
    ASSUME Inv, RealObjects, WaitInv, ~ overlap, raced' = {}, Unpack
    PROVE  WaitInv'
<1>1. PICK fo, S, order :
        /\ fo = Head(unpackQueue) /\ unpackQueue # << >>
        /\ S = IF fo.depth >= MaxDepth THEN {} ELSE ExtractedUids(fo)
        /\ order \in SetToSeqs(S)
        /\ unpackQueue' = Tail(unpackQueue) \o ExtractedObjects(fo, order)
        /\ processQueue' = Append(processQueue, fo)
        /\ locks' = locks \cup (IF fo.depth >= MaxDepth THEN {} ELSE YieldedUids(fo))
    BY Unpacks
<1>2. UNCHANGED <<db, sched>>
    BY DEF Unpack
<1>3. GoodQueue(unpackQueue) /\ GoodQueue(processQueue)
    BY DEF Inv, TypeInv, ObjectsOK
<1>4. /\ GoodObject(fo) /\ fo \in Objects /\ GoodQueue(Tail(unpackQueue))
      /\ S \in SUBSET ExtractedUids(fo) /\ Real(fo)
    BY <1>1, <1>3, HeadOfQueue, RealInQueues DEF GoodObject, RealObjects
<1>5. PICK more : more = ExtractedObjects(fo, order)
    OBVIOUS
<1>6. GoodQueue(more) /\ UidsIn(more) = S
  <2>1. GoodQueue(ExtractedObjects(fo, order)) /\ UidsIn(ExtractedObjects(fo, order)) \subseteq S
    BY <1>1, <1>4, ExtractedAreGood
  <2>2. S \subseteq UidsIn(ExtractedObjects(fo, order))
    BY <1>1, <1>4, AllAreQueued
  <2> QED
    BY <1>5, <2>1, <2>2
<1>7. UNCHANGED <<SchedUids, There>>
    BY <1>2 DEF SchedUids, There
<1>8. UidsIn(processQueue') = UidsIn(processQueue) \cup {fo.uid}
    BY <1>1, <1>3, <1>4, AppendedToQueue
<1>9. UidsIn(unpackQueue) \cup S \subseteq UidsIn(unpackQueue') \cup {fo.uid}
    BY <1>1, <1>3, <1>4, <1>5, <1>6, UidsTogether, UidsOfTail
<1>10. locks' \subseteq UidsIn(unpackQueue') \cup UidsIn(processQueue') \cup SchedUids'
  <2>1. locks' \subseteq locks \cup S \cup {fo.uid}
    BY <1>1 DEF ExtractedUids
  <2>2. locks \subseteq UidsIn(unpackQueue) \cup UidsIn(processQueue) \cup SchedUids
    BY DEF WaitInv
  <2> QED
    BY <1>7, <1>8, <1>9, <2>1, <2>2
<1>11. Needs(fo) \subseteq There \cup UidsIn(processQueue)
  <2>1. Head(unpackQueue) = unpackQueue[1] /\ 1 \in DOMAIN unpackQueue
    BY <1>1, <1>3, UidsOfTail
  <2> QED
    BY <1>1, <2>1 DEF WaitInv
<1>12. InLine(processQueue', There')
    BY <1>1, <1>3, <1>4, <1>7, <1>11, InLineMoves DEF WaitInv
<1>13. ASSUME NEW i \in DOMAIN unpackQueue'
       PROVE  Needs(unpackQueue'[i]) \subseteq There' \cup UidsIn(processQueue')
  <2>1. \/ \E j \in DOMAIN Tail(unpackQueue) : unpackQueue'[i] = Tail(unpackQueue)[j]
        \/ \E j \in DOMAIN more : unpackQueue'[i] = more[j]
    BY <1>1, <1>4, <1>5, <1>6, UidsTogether
  <2>2. CASE \E j \in DOMAIN Tail(unpackQueue) : unpackQueue'[i] = Tail(unpackQueue)[j]
    <3>1. PICK j \in DOMAIN unpackQueue : unpackQueue'[i] = unpackQueue[j]
      BY <1>1, <1>3, <2>2, UidsOfTail
    <3>2. Needs(unpackQueue[j]) \subseteq There \cup UidsIn(processQueue)
      BY DEF WaitInv
    <3> QED
      BY <1>7, <1>8, <3>1, <3>2
  <2>3. CASE \E j \in DOMAIN more : unpackQueue'[i] = more[j]
    <3>1. PICK j \in DOMAIN more : unpackQueue'[i] = more[j]
      BY <2>3
    <3>2. Needs(more[j]) = {fo.uid, fo.root}
      BY <1>5, <3>1 DEF ExtractedObjects, ExtractedObject, Needs
    <3>3. fo.root = fo.uid \/ fo.root \in Needs(fo)
      BY <1>4 DEF Real, FromArchive, Needs
    <3> QED
      BY <1>7, <1>8, <1>11, <3>1, <3>2, <3>3
  <2> QED
    BY <2>1, <2>2, <2>3
<1> QED
    BY <1>2, <1>10, <1>12, <1>13 DEF WaitInv

\* The next object finds what it needs.
LEMMA CheckObjectWaits ==
    ASSUME Inv, WaitInv, ~ overlap, raced' = {}, CheckObject
    PROVE  WaitInv'
<1>1. /\ UNCHANGED <<db, locks, unpackQueue>> /\ sched.step = "idle"
      /\ processQueue # << >> /\ processQueue' = Tail(processQueue)
    BY DEF CheckObject
<1>2. PICK fo : fo = Head(processQueue)
    OBVIOUS
<1>3. sched'.fo = fo /\ sched'.step \in {"insert", "update_firmware", "update_file"}
    BY <1>2 DEF CheckObject
<1>4. There = DOMAIN db /\ SchedUids = {} /\ SchedUids' = {fo.uid} /\ There' = There \cup {fo.uid}
    BY <1>1, <1>3 DEF There, SchedUids
<1>5. GoodQueue(processQueue) /\ InLine(processQueue, There)
    BY DEF Inv, TypeInv, ObjectsOK, WaitInv
<1>6. Needs(fo) \subseteq DOMAIN db /\ InLine(processQueue', There')
    BY <1>1, <1>2, <1>4, <1>5, InLineMoves
<1>7. UidsIn(processQueue) = {fo.uid} \cup UidsIn(processQueue')
    BY <1>1, <1>2, <1>5, UidsOfTail
<1>8. UNCHANGED UidsIn(unpackQueue)
    BY <1>1
<1> QED
    BY <1>1, <1>3, <1>4, <1>6, <1>7, <1>8 DEF WaitInv

\* A step of the schedule process with its object.
LEMMA SchedWaits ==
    ASSUME WaitInv, ~ overlap, raced' = {}, UNCHANGED <<unpackQueue, processQueue>>,
           There \subseteq There', locks' \subseteq (locks \ SchedUids) \cup SchedUids',
           sched'.step \in {"insert", "update_firmware", "update_file"} =>
              Needs(sched'.fo) \subseteq DOMAIN db',
           sched'.step = "release" => sched'.fo.uid \in DOMAIN db'
    PROVE  WaitInv'
<1>1. InLine(processQueue', There')
    BY InLineMore DEF WaitInv
<1>2. UNCHANGED <<UidsIn(unpackQueue), UidsIn(processQueue)>>
    BY DEF UidsIn
<1>3. ASSUME NEW i \in DOMAIN unpackQueue'
      PROVE  Needs(unpackQueue'[i]) \subseteq There' \cup UidsIn(processQueue')
    BY <1>2 DEF WaitInv
<1>4. locks' \subseteq UidsIn(unpackQueue') \cup UidsIn(processQueue') \cup SchedUids'
    BY <1>2 DEF WaitInv
<1> QED
    BY <1>1, <1>3, <1>4 DEF WaitInv

\* Nothing is given up.
LEMMA InsertObjectWaits ==
    ASSUME Inv, WaitInv, ~ overlap, raced' = {}, InsertObject
    PROVE  WaitInv'
<1>1. /\ UNCHANGED <<locks, unpackQueue, processQueue>> /\ sched.step = "insert"
      /\ sched \in [step : Steps, fo : Objects]
    BY DEF InsertObject, Inv, TypeInv, SchedOK
<1>2. PICK fo : fo = sched.fo
    OBVIOUS
<1>3. ~ ParentsMissing(fo)
  <2>1. Needs(fo) \subseteq DOMAIN db
    BY <1>1, <1>2 DEF WaitInv
  <2> QED
    BY <2>1 DEF Needs, ParentsMissing, NoneThere
<1>4. DOMAIN db' = DOMAIN db \cup {fo.uid} /\ sched' = [sched EXCEPT !.step = "release"]
    BY <1>2, <1>3 DEF InsertObject, With
<1>5. sched'.step = "release" /\ sched'.fo = fo
    BY <1>1, <1>2, <1>4, SchedTyped DEF Steps
<1>6. SchedUids = {fo.uid} /\ SchedUids' = {fo.uid} /\ There \subseteq There'
    BY <1>1, <1>2, <1>4, <1>5 DEF SchedUids, There
<1> QED
    BY <1>1, <1>4, <1>5, <1>6, SchedWaits

LEMMA UpdateFirmwareWaits ==
    ASSUME Inv, WaitInv, ~ overlap, raced' = {}, sched'.step # "dead", UpdateFirmware
    PROVE  WaitInv'
<1>1. /\ UNCHANGED <<db, locks, unpackQueue, processQueue>> /\ sched.step = "update_firmware"
      /\ sched \in [step : Steps, fo : Objects]
    BY DEF UpdateFirmware, Inv, TypeInv, SchedOK
<1>2. \E step \in {"update_file", "dead"} : sched' = [sched EXCEPT !.step = step]
    BY DEF UpdateFirmware
<1>3. sched'.step = "update_file" /\ sched'.fo = sched.fo
    BY <1>1, <1>2, SchedTyped DEF Steps
<1>4. UNCHANGED <<SchedUids, There>>
    BY <1>1, <1>3 DEF SchedUids, There
<1>5. Needs(sched'.fo) \subseteq DOMAIN db'
    BY <1>1, <1>3 DEF WaitInv
<1> QED
    BY <1>1, <1>3, <1>4, <1>5, SchedWaits

LEMMA UpdateFileWaits ==
    ASSUME Inv, WaitInv, ~ overlap, raced' = {}, sched'.step # "dead", UpdateFile
    PROVE  WaitInv'
<1>1. /\ UNCHANGED <<locks, unpackQueue, processQueue>> /\ sched.step = "update_file"
      /\ sched \in [step : Steps, fo : Objects]
    BY DEF UpdateFile, Inv, TypeInv, SchedOK
<1>2. PICK fo : fo = sched.fo
    OBVIOUS
<1>3. ~ ParentsMissing(fo)
  <2>1. Needs(fo) \subseteq DOMAIN db
    BY <1>1, <1>2 DEF WaitInv
  <2> QED
    BY <2>1 DEF Needs, ParentsMissing, NoneThere
<1>4. fo.uid \in DOMAIN db
  <2>1. [sched EXCEPT !.step = "dead"].step = "dead"
    BY <1>1, SchedTyped DEF Steps
  <2> QED
    BY <1>2, <2>1 DEF UpdateFile
<1>5. DOMAIN db' = DOMAIN db /\ sched' = [sched EXCEPT !.step = "release"]
    BY <1>2, <1>3, <1>4 DEF UpdateFile, With
<1>6. sched'.step = "release" /\ sched'.fo = fo
    BY <1>1, <1>2, <1>5, SchedTyped DEF Steps
<1>7. UNCHANGED <<SchedUids, There>>
    BY <1>1, <1>2, <1>5, <1>6 DEF SchedUids, There
<1> QED
    BY <1>1, <1>4, <1>5, <1>6, <1>7, SchedWaits

LEMMA ReleaseLockWaits ==
    ASSUME WaitInv, ~ overlap, raced' = {}, ReleaseLock
    PROVE  WaitInv'
<1>1. /\ UNCHANGED <<db, unpackQueue, processQueue>> /\ sched.step = "release"
      /\ locks' = locks \ {sched.fo.uid} /\ sched'.step = "idle"
    BY DEF ReleaseLock, Idle
<1>2. SchedUids = {sched.fo.uid} /\ sched.fo.uid \in DOMAIN db
    BY <1>1 DEF SchedUids, WaitInv
<1>3. There \subseteq There'
    BY <1>1, <1>2 DEF There
<1> QED
    BY <1>1, <1>2, <1>3, SchedWaits

LEMMA DeleteObjectWaits ==
    ASSUME Inv, WaitInv, ~ overlap, raced' = {}, InPipeline' = {} \/ ~ Deleting', DeleteObject
    PROVE  WaitInv'
<1>1. UNCHANGED <<locks, pipelineVars>> /\ admin'.step = "send"
  <2>1. admin = [step |-> admin.step, uid |-> admin.uid, uids |-> admin.uids]
    BY DEF Inv, TypeInv, DeletionOK
  <2>2. admin' = [step |-> "send", uid |-> admin.uid, uids |-> admin.uids]
    BY <2>1 DEF DeleteObject
  <2> QED
    BY <2>2 DEF DeleteObject
<1>2. InPipeline' = {}
    BY <1>1 DEF Deleting
<1>3. UidsIn(unpackQueue') = {} /\ UidsIn(processQueue') = {} /\ SchedUids' = {}
    BY <1>2, InPipelineIs
<1>4. sched'.step \in {"idle", "dead"} /\ DOMAIN unpackQueue' = {} /\ DOMAIN processQueue' = {}
    BY <1>3 DEF SchedUids, UidsIn
<1>5. locks' = {}
    BY <1>1, <1>3 DEF WaitInv, pipelineVars, UidsIn, SchedUids
<1> QED
    BY <1>4, <1>5 DEF WaitInv, InLine

LEMMA WaitNext ==
    ASSUME ImagesApart, Inv, Inv', RealObjects, WaitInv, Next
    PROVE  WaitInv'
<1> SUFFICES ASSUME ~ overlap' PROVE WaitInv'
    BY DEF WaitInv
<1>1. ~ overlap /\ raced' = {} /\ (InPipeline' = {} \/ ~ Deleting')
    BY NextWatches, WatchedApart
<1>2. sched'.step # "dead"
    BY DEF Inv, SurviveInv
<1>3. ~ UnpackFails
  <2> SUFFICES ASSUME UnpackFails PROVE FALSE
    OBVIOUS
  <2>1. unpackQueue # << >> /\ Head(unpackQueue).uid \notin disk
    BY DEF UnpackFails
  <2>2. Head(unpackQueue).uid \in InPipeline
    BY <2>1, HeadOfQueue, InPipelineIs DEF Inv, TypeInv, ObjectsOK
  <2> QED
    BY <1>1, <2>1, <2>2 DEF Inv, BinaryInv, WaitInv
<1>4. CASE \/ \E uid \in Images : RemovePaths(uid)
           \/ \E uid \in results : CheckAnalysis(uid)
           \/ StoreAnalysis \/ SendDeletion
           \/ TakeDeletion \/ CheckEntry \/ CheckLock \/ RemoveFile
  <2>1. UNCHANGED <<locks, unpackQueue, processQueue, sched>> /\ DOMAIN db \subseteq DOMAIN db'
    BY <1>4 DEF RemovePaths, RemoveVirtualPathEntries, CheckAnalysis, StoreAnalysis, SendDeletion,
                TakeDeletion, CheckEntry, CheckLock, RemoveFile, pipelineVars
  <2> QED
    BY <1>1, <2>1, WaitStays
<1> QED
    BY <1>1, <1>2, <1>3, <1>4, UploadWaits, UnpackWaits, CheckObjectWaits, InsertObjectWaits,
       UpdateFirmwareWaits, UpdateFileWaits, ReleaseLockWaits, DeleteObjectWaits DEF Next

\* An entry comes or changes with the schedule process, which then has it analyzed;
\* no deletion takes the analysis of an entry that stays.
LEMMA AnalyzedNext ==
    ASSUME Inv, AnalyzedInv, Next
    PROVE  AnalyzedInv'
<1>1. ASSUME NEW u \in DOMAIN db PROVE db[u] \in Entries
    BY DEF Inv, TypeInv, EntriesOK, GoodEntry
<1>2. CASE \/ \E uid \in Images : Upload(uid)
           \/ Unpack \/ UnpackFails \/ CheckObject \/ UpdateFirmware
           \/ SendDeletion \/ TakeDeletion \/ CheckEntry \/ CheckLock \/ RemoveFile
  <2>1. UNCHANGED <<db, results, collector>> /\ (UNCHANGED sched \/ sched.step # "release")
    BY <1>2 DEF Upload, Unpack, UnpackFails, CheckObject, UpdateFirmware, SendDeletion,
                TakeDeletion, CheckEntry, CheckLock, RemoveFile, pipelineVars
  <2> QED
    BY <2>1 DEF AnalyzedInv
<1>3. CASE InsertObject \/ UpdateFile
  <2>1. /\ UNCHANGED <<results, collector>> /\ sched.step # "release"
        /\ sched \in [step : Steps, fo : Objects]
    BY <1>3 DEF InsertObject, UpdateFile, Inv, TypeInv, SchedOK
  <2>2. CASE UNCHANGED db
    BY <2>1, <2>2 DEF AnalyzedInv
  <2>3. CASE ~ UNCHANGED db
    <3>1. PICK e : db' = With(sched.fo.uid, e) /\ sched' = [sched EXCEPT !.step = "release"]
      BY <1>3, <2>3 DEF InsertObject, UpdateFile
    <3>2. sched'.step = "release" /\ sched'.fo.uid = sched.fo.uid
      BY <2>1, <3>1, SchedTyped DEF Steps
    <3>3. /\ DOMAIN db' = DOMAIN db \cup {sched.fo.uid}
          /\ \A u \in DOMAIN db : u # sched.fo.uid => db'[u] = db[u]
      BY <3>1 DEF With
    <3> QED
      BY <2>1, <3>2, <3>3 DEF AnalyzedInv
  <2> QED
    BY <2>2, <2>3
<1>4. CASE ReleaseLock
  <2>1. UNCHANGED <<db, collector>> /\ results' = results \cup {sched.fo.uid}
    BY <1>4 DEF ReleaseLock
  <2> QED
    BY <2>1 DEF AnalyzedInv
<1>5. CASE \E uid \in results : CheckAnalysis(uid)
  <2>1. PICK uid \in results : CheckAnalysis(uid)
    BY <1>5
  <2>2. /\ UNCHANGED <<db, sched>> /\ results' = results \ {uid} /\ collector.step = "idle"
        /\ collector'.step \in {"update", "insert"} /\ collector'.uid = uid
    BY <2>1 DEF CheckAnalysis
  <2> QED
    BY <2>2 DEF AnalyzedInv
<1>6. CASE StoreAnalysis
  <2>1. UNCHANGED <<results, sched>> /\ DOMAIN db' = DOMAIN db
    BY <1>6 DEF StoreAnalysis
  <2>2. ASSUME NEW u \in DOMAIN db
        PROVE  IF u = collector.uid THEN db'[u].analyzed ELSE db'[u] = db[u]
    <3>1. PICK e : e = [db[u] EXCEPT !.analyzed = TRUE]
      OBVIOUS
    <3>2. e.analyzed
      BY <1>1, <3>1 DEF Entries
    <3>3. IF u = collector.uid THEN db'[u] = e ELSE db'[u] = db[u]
      BY <1>6, <3>1 DEF StoreAnalysis, Inv, TypeInv, EntriesOK
    <3> QED
      BY <3>2, <3>3
  <2> QED
    BY <2>1, <2>2 DEF AnalyzedInv
<1>7. CASE DeleteObject \/ \E root \in Images : RemovePaths(root)
  <2>1. UNCHANGED <<results, collector, sched>>
    BY <1>7 DEF DeleteObject, RemovePaths, pipelineVars
  <2>2. DOMAIN db' \subseteq DOMAIN db
    BY <1>7 DEF DeleteObject, RemovePaths, RemoveRows, RemoveVirtualPathEntries
  <2>3. ASSUME NEW u \in DOMAIN db' PROVE db'[u].analyzed = db[u].analyzed
    <3>1. ASSUME NEW gone, NEW e, e = [db[u] EXCEPT !.parents = @ \ gone, !.roots = @ \ gone]
          PROVE  e.analyzed = db[u].analyzed
      BY <1>1, <2>2, <3>1 DEF Entries
    <3>2. ASSUME NEW root, NEW e, e = [db[u] EXCEPT !.vfp = Restrict(@, DOMAIN @ \ {root})]
          PROVE  e.analyzed = db[u].analyzed
      BY <1>1, <2>2, <3>2 DEF Entries
    <3>3. CASE DeleteObject
      BY <3>1, <3>3 DEF DeleteObject, RemoveRows
    <3>4. CASE \E root \in Images : RemovePaths(root)
      BY <3>2, <3>4 DEF RemovePaths, RemoveVirtualPathEntries
    <3> QED
      BY <1>7, <3>3, <3>4
  <2> QED
    BY <2>1, <2>2, <2>3 DEF AnalyzedInv
<1> QED
    BY <1>2, <1>3, <1>4, <1>5, <1>6, <1>7 DEF Next

LEMMA PendingInit == Init => AnalyzedInv /\ WaitInv
<1> SUFFICES ASSUME Init PROVE AnalyzedInv /\ WaitInv
    OBVIOUS
<1>1. \A q : q = << >> => DOMAIN q = {}
    OBVIOUS
<1>2. /\ DOMAIN db = {} /\ DOMAIN unpackQueue = {} /\ DOMAIN processQueue = {}
      /\ sched.step = "idle" /\ locks = {} /\ raced = {}
    BY <1>1 DEF Init, Idle
<1> QED
    BY <1>2 DEF AnalyzedInv, WaitInv, InLine

LEMMA PendingStays == AnalyzedInv /\ WaitInv /\ UNCHANGED vars => (AnalyzedInv /\ WaitInv)'
<1> SUFFICES ASSUME AnalyzedInv, WaitInv, UNCHANGED vars PROVE (AnalyzedInv /\ WaitInv)'
    OBVIOUS
<1>1. AnalyzedInv'
    BY DEF AnalyzedInv, vars
<1>2. UNCHANGED <<There, SchedUids, UidsIn(unpackQueue), UidsIn(processQueue)>>
    BY DEF There, SchedUids, vars
<1>3. WaitInv'
    BY <1>2 DEF WaitInv, InLine, vars
<1> QED
    BY <1>1, <1>3

\* When the pipeline is empty and no deletion is under way or has met an upload, no
\* file is locked, and every entry has its binary and its analysis: no object waits
\* for an archive that never comes, no lock is lost with a task that is given up, and
\* no result is lost.  No image is a file of another one.
THEOREM NothingPendingTheorem ==
    ImagesApart => (Spec => [](Quiet /\ ~ overlap => NothingPending))
<1> SUFFICES ASSUME ImagesApart
             PROVE  Spec => [](Quiet /\ ~ overlap => NothingPending)
    OBVIOUS
<1> DEFINE All == Inv /\ RealInv /\ AnalyzedInv /\ WaitInv
<1>1. Init => All
    BY InitInv, RealIsInductive, PendingInit
<1>2. All /\ [Next]_vars => All'
  <2>1. ASSUME All, [Next]_vars PROVE Inv' /\ RealInv' /\ AnalyzedInv' /\ WaitInv'
    <3>1. Inv' /\ RealInv' /\ RealObjects
      BY <2>1, NextInv, RealIsInductive DEF RealInv
    <3> QED
      BY <2>1, <3>1, AnalyzedNext, WaitNext, PendingStays
  <2> QED
    BY <2>1
<1>3. All => (Quiet /\ ~ overlap => NothingPending)
  <2> SUFFICES ASSUME All, Quiet, ~ overlap PROVE NothingPending
    OBVIOUS
  <2>1. /\ UidsIn(unpackQueue) = {} /\ UidsIn(processQueue) = {} /\ SchedUids = {}
        /\ results = {} /\ CollectorUids = {}
    BY InPipelineIs DEF Quiet
  <2>2. locks = {} /\ raced = {}
    BY <2>1 DEF WaitInv
  <2>3. sched.step \in {"idle", "dead"} /\ collector.step \in {"idle", "dead"}
    BY <2>1 DEF SchedUids, CollectorUids
  <2>4. \A u \in DOMAIN db : db[u].analyzed
    BY <2>1, <2>3 DEF AnalyzedInv
  <2>5. \A u \in DOMAIN db : u \in disk
    BY <2>2 DEF Inv, BinaryInv
  <2> QED
    BY <2>2, <2>4, <2>5 DEF NothingPending
<1> HIDE DEF All
<1> QED
    BY <1>1, <1>2, <1>3, PTL DEF Spec
=============================================================================
