---------------------- MODULE UnpackingScheduler_proofs ----------------------
(***************************************************************************)
(* The analysis status for any sequence of calls; then the calls the       *)
(* unpacking workers, the listener for updates and the analysis scheduler  *)
(* make are calls of AnalysisStatus, so what is proved for any sequence of *)
(* calls holds in the backend; and an upload that is shown as finished was *)
(* analyzed to its last file.                                              *)
(***************************************************************************)
EXTENDS UnpackingScheduler, FiniteSetTheorems, TLAPS

-----------------------------------------------------------------------------
(* The analysis status, for any images and files and any sequence of calls *)

\* An entry whose counters agree; those of images not in the dictionary too.
GoodEntry(e) == e \in Progress /\ CountsAgree(e)

IInv ==
    /\ StatusTypeOK
    /\ \A fw \in Firmware : CountsAgree(running.entry[fw])
    /\ \A fw \in running.active : ~ Done(running.entry[fw])

(***************************************************************************)
(* Sets of uids are finite, and what one more or one less element does.    *)
(***************************************************************************)
LEMMA SubsetsFinite ==
    ASSUME NEW S, S \subseteq Uids
    PROVE  IsFiniteSet(S) /\ Cardinality(S) \in Nat
<1>1. IsFiniteSet(S)
    BY UidsAssumption, FS_Subset
<1> QED
    BY <1>1, FS_CardinalityType

LEMMA DisjointUnion ==
    ASSUME NEW S, NEW T, S \subseteq Uids, T \subseteq Uids, S \cap T = {}
    PROVE  Cardinality(S \cup T) = Cardinality(S) + Cardinality(T)
<1>1. IsFiniteSet(S) /\ IsFiniteSet(T)
    BY SubsetsFinite
<1>2. Cardinality(S \cup T) =
            Cardinality(S) + Cardinality(T) - Cardinality(S \cap T)
    BY <1>1, FS_Union
<1>3. Cardinality(S \cap T) = 0
    BY FS_EmptySet
<1> QED
    BY <1>2, <1>3, SubsetsFinite

LEMMA OneLess ==
    ASSUME NEW S, S \subseteq Uids, NEW u \in S
    PROVE  Cardinality(S) = Cardinality(S \ {u}) + 1
<1>1. Cardinality({u}) = 1
    BY FS_Singleton
<1>2. Cardinality((S \ {u}) \cup {u}) = Cardinality(S \ {u}) + Cardinality({u})
    BY DisjointUnion
<1>3. (S \ {u}) \cup {u} = S
    OBVIOUS
<1> QED
    BY <1>1, <1>2, <1>3

\* Entries whose fields are assigned.
LEMMA FieldsAssigned ==
    ASSUME NEW e \in Progress, NEW toUnpack \in SUBSET Uids,
           NEW toAnalyze \in SUBSET Uids,
           NEW unpacked \in Nat, NEW analyzed \in Nat, NEW total \in Nat
    PROVE  /\ [e EXCEPT !.total = total, !.toUnpack = toUnpack,
                        !.toAnalyze = toAnalyze, !.unpacked = unpacked] \in Progress
           /\ [e EXCEPT !.toAnalyze = toAnalyze, !.analyzed = analyzed] \in Progress
    BY DEF Progress

(***************************************************************************)
(* The entries the methods write.                                          *)
(***************************************************************************)
LEMMA InitProgressGood ==
    ASSUME NEW fw \in Firmware, NEW included \in SUBSET Files
    PROVE  GoodEntry(InitProgress(fw, included)) /\ ~ Done(InitProgress(fw, included))
<1>1. Cardinality({fw}) = 1
    BY FS_Singleton
<1>2. Cardinality(included) \in Nat
    BY SubsetsFinite DEF Uids
<1>3. included \cap {fw} = {}
    BY FirmwareAssumption
<1> QED
    BY <1>1, <1>2, <1>3 DEF InitProgress, GoodEntry, CountsAgree, Progress, Done, Uids

LEMMA UpdateProgressGood ==
    ASSUME NEW fw \in Firmware, NEW included \in SUBSET Files
    PROVE  GoodEntry(UpdateProgress(fw, included)) /\ ~ Done(UpdateProgress(fw, included))
<1>1. Cardinality({fw}) = 1 /\ Cardinality({}) = 0
    BY FS_Singleton, FS_EmptySet
<1>2. Cardinality(included) \in Nat
    BY SubsetsFinite DEF Uids
<1>3. Cardinality({fw} \cup included) = Cardinality({fw}) + Cardinality(included)
    BY FirmwareAssumption, DisjointUnion DEF Uids
<1> QED
    BY <1>1, <1>2, <1>3 DEF UpdateProgress, GoodEntry, CountsAgree, Progress, Done, Uids

LEMMA NoProgressGood == GoodEntry(NoProgress)
<1>1. Cardinality({}) = 0
    BY FS_EmptySet
<1> QED
    BY <1>1 DEF NoProgress, GoodEntry, CountsAgree, Progress

LEMMA AfterAnalysisGood ==
    ASSUME NEW e, GoodEntry(e), NEW u \in e.toAnalyze
    PROVE  GoodEntry(AfterAnalysis(e, u))
<1> DEFINE rest == e.toAnalyze \ {u}
<1>1. Cardinality(e.toAnalyze) = Cardinality(rest) + 1
    BY OneLess DEF GoodEntry, Progress
<1>2. Cardinality(rest) \in Nat
    BY SubsetsFinite DEF GoodEntry, Progress
<1>3. e \in Progress
    BY DEF GoodEntry
<1> DEFINE f == AfterAnalysis(e, u)
<1>4. f \in Progress
  <2>1. rest \in SUBSET Uids /\ e.analyzed + 1 \in Nat
    BY <1>3 DEF Progress
  <2> QED
    BY <2>1, <1>3, FieldsAssigned DEF AfterAnalysis, Progress
<1>5. /\ f.toUnpack = e.toUnpack /\ f.toAnalyze = rest
      /\ f.unpacked = e.unpacked /\ f.analyzed = e.analyzed + 1 /\ f.total = e.total
    BY <1>3 DEF AfterAnalysis, Progress
<1> HIDE DEF f
<1>6. CountsAgree(f)
    BY <1>1, <1>2, <1>3, <1>5 DEF GoodEntry, CountsAgree, Progress
<1> QED
    BY <1>4, <1>6 DEF GoodEntry, f

LEMMA AfterUnpackingGood ==
    ASSUME NEW e, GoodEntry(e), NEW u \in Files, NEW included \in SUBSET Files
    PROVE  /\ GoodEntry(AfterUnpacking(e, u, included))
           /\ ~ Done(e) => ~ Done(AfterUnpacking(e, u, included))
<1> DEFINE new == included \ (e.toUnpack \cup e.toAnalyze)
           toUnpack == e.toUnpack \cup new
           moved == IF u \in toUnpack THEN {u} ELSE {}
           f == AfterUnpacking(e, u, included)
<1>0. e \in Progress
    BY DEF GoodEntry
<1> HIDE DEF new, moved
<1>a. f = [e EXCEPT !.total = @ + Cardinality(new), !.toUnpack = toUnpack \ moved,
                    !.toAnalyze = @ \cup moved, !.unpacked = @ + Cardinality(moved)]
    BY DEF AfterUnpacking, new, moved
<1> HIDE DEF f, toUnpack
<1>1. /\ f.toUnpack = toUnpack \ moved /\ f.toAnalyze = e.toAnalyze \cup moved
      /\ f.unpacked = e.unpacked + Cardinality(moved)
      /\ f.analyzed = e.analyzed
      /\ f.total = e.total + Cardinality(new)
    BY <1>0, <1>a DEF Progress
<1> USE DEF new, toUnpack, moved
<1>2. /\ e.toUnpack \subseteq Uids /\ e.toAnalyze \subseteq Uids
      /\ new \subseteq Uids /\ toUnpack \subseteq Uids /\ moved \subseteq Uids
    BY DEF GoodEntry, Progress, Uids
<1>3. /\ moved \subseteq toUnpack
      /\ toUnpack \cap e.toAnalyze = {}
    BY DEF GoodEntry, CountsAgree
<1>4. Cardinality(toUnpack) = Cardinality(e.toUnpack) + Cardinality(new)
    BY <1>2, DisjointUnion
<1>5. Cardinality(toUnpack) = Cardinality(toUnpack \ moved) + Cardinality(moved)
  <2>1. Cardinality((toUnpack \ moved) \cup moved) =
            Cardinality(toUnpack \ moved) + Cardinality(moved)
    BY <1>2, DisjointUnion
  <2>2. (toUnpack \ moved) \cup moved = toUnpack
    BY <1>3
  <2> QED
    BY <2>1, <2>2
<1>6. Cardinality(e.toAnalyze \cup moved) = Cardinality(e.toAnalyze) + Cardinality(moved)
    BY <1>2, <1>3, DisjointUnion
<1>7. /\ Cardinality(e.toUnpack) \in Nat /\ Cardinality(e.toAnalyze) \in Nat
      /\ Cardinality(new) \in Nat /\ Cardinality(moved) \in Nat
      /\ Cardinality(toUnpack \ moved) \in Nat
    BY <1>2, SubsetsFinite
<1>8. /\ e.unpacked + Cardinality(e.toUnpack) = e.total
      /\ e.analyzed + Cardinality(e.toAnalyze) = e.unpacked
      /\ e.unpacked \in Nat /\ e.analyzed \in Nat /\ e.total \in Nat
    BY DEF GoodEntry, CountsAgree, Progress
<1>9. (toUnpack \ moved) \cap (e.toAnalyze \cup moved) = {}
    BY <1>3
<1>10. ~ Done(e) => ~ Done(f)
    BY <1>1, <1>3 DEF Done
<1> HIDE DEF new, toUnpack, moved
<1>11. f \in Progress
  <2>1. /\ toUnpack \ moved \in SUBSET Uids /\ e.toAnalyze \cup moved \in SUBSET Uids
        /\ e.unpacked + Cardinality(moved) \in Nat /\ e.total + Cardinality(new) \in Nat
    BY <1>2, <1>7, <1>8
  <2> QED
    BY <2>1, <1>0, <1>a, FieldsAssigned
<1>12. f.unpacked + Cardinality(f.toUnpack) = f.total
    BY <1>1, <1>4, <1>5, <1>7, <1>8
<1>13. f.analyzed + Cardinality(f.toAnalyze) = f.unpacked
    BY <1>1, <1>6, <1>7, <1>8
<1>14. f.toUnpack \cap f.toAnalyze = {}
    BY <1>1, <1>9
<1> QED
    BY <1>10, <1>11, <1>12, <1>13, <1>14 DEF GoodEntry, CountsAgree, f

----------------------------------------------------------------------------
LEMMA InitIInv == InitStatus => IInv
<1> SUFFICES ASSUME InitStatus PROVE IInv
    OBVIOUS
<1>1. running.entry = [fw \in Firmware |-> NoProgress] /\ running.active = {}
    BY DEF InitStatus
<1>2. \A fw \in Firmware : GoodEntry(running.entry[fw])
    BY <1>1, NoProgressGood
<1> QED
    BY <1>1, <1>2 DEF InitStatus, IInv, StatusTypeOK, GoodEntry

\* One entry is replaced, and its image is (again) under analysis.
LEMMA WriteEntryIInv ==
    ASSUME IInv, NEW fw \in Firmware, NEW e, GoodEntry(e), ~ Done(e),
           running' = [active |-> running.active \cup {fw},
                       entry |-> [running.entry EXCEPT ![fw] = e]],
           finished' \subseteq Firmware, updating' \subseteq Firmware,
           locked' \in BOOLEAN
    PROVE  IInv'
<1>1. running.entry \in [Firmware -> Progress] /\ running.active \subseteq Firmware
    BY DEF IInv, StatusTypeOK
<1>2. running'.entry \in [Firmware -> Progress] /\ running'.active \subseteq Firmware
    BY <1>1 DEF GoodEntry
<1>3. \A g \in Firmware : CountsAgree(running'.entry[g])
    BY <1>1 DEF IInv, GoodEntry
<1>4. \A g \in running'.active : ~ Done(running'.entry[g])
    BY <1>1 DEF IInv
<1> QED
    BY <1>2, <1>3, <1>4 DEF IInv, StatusTypeOK, CountsAgree, Done

\* The entries are replaced by good ones; some images are taken out.
LEMMA WriteEntriesIInv ==
    ASSUME IInv, NEW active \in SUBSET running.active, NEW entry,
           DOMAIN entry = Firmware, entry = [fw \in Firmware |-> entry[fw]],
           \A fw \in Firmware : GoodEntry(entry[fw]),
           \A fw \in active : ~ Done(entry[fw]),
           running' = [active |-> active, entry |-> entry],
           finished' \subseteq Firmware, updating' \subseteq Firmware,
           locked' \in BOOLEAN
    PROVE  IInv'
<1>1. running.active \subseteq Firmware
    BY DEF IInv, StatusTypeOK
<1>2. entry \in [Firmware -> Progress]
    BY DEF GoodEntry
<1>3. \A fw \in Firmware : CountsAgree(running'.entry[fw])
    BY DEF GoodEntry
<1> QED
    BY <1>1, <1>2, <1>3 DEF IInv, StatusTypeOK, CountsAgree, Done

LEMMA NextIInv == IInv /\ [NextStatus]_statusVars => IInv'
<1> SUFFICES ASSUME IInv, [NextStatus]_statusVars PROVE IInv'
    OBVIOUS
<1> USE DEF GoodEntry
<1>1. /\ running \in [active : SUBSET Firmware, entry : [Firmware -> Progress]]
      /\ running.active \subseteq Firmware
      /\ finished \subseteq Firmware /\ updating \subseteq Firmware /\ locked \in BOOLEAN
      /\ \A fw \in Firmware : GoodEntry(running.entry[fw])
    BY DEF IInv, StatusTypeOK
<1> HIDE DEF GoodEntry
<1>2. ASSUME NEW fw \in Firmware, NEW included \in SUBSET Files,
             AddFirmware(fw, included) \/ BeginAddUpdate(fw, included)
      PROVE  IInv'
    BY <1>1, <1>2, InitProgressGood, WriteEntryIInv DEF AddFirmware, BeginAddUpdate
<1>3. ASSUME NEW fw \in Firmware, NEW included \in SUBSET Files,
             EndAddUpdate(fw, included)
      PROVE  IInv'
  <2>1. running' = [active |-> running.active \cup {fw}, entry |->
                        [running.entry EXCEPT ![fw] = UpdateProgress(fw, included)]]
    BY <1>1, <1>3 DEF EndAddUpdate
  <2> QED
    BY <2>1, <1>1, <1>3, UpdateProgressGood, WriteEntryIInv DEF EndAddUpdate
<1>4. ASSUME NEW u \in Files, NEW roots \in SUBSET Firmware,
             NEW included \in SUBSET Files, AddFile(u, roots, included)
      PROVE  IInv'
  <2> DEFINE entry == [fw \in Firmware |-> IF fw \in Tracked(roots)
                             THEN AfterUnpacking(running.entry[fw], u, included)
                             ELSE running.entry[fw]]
  <2>1. running' = [active |-> running.active, entry |-> entry]
    BY <1>1, <1>4 DEF AddFile
  <2>2. \A fw \in Firmware : GoodEntry(entry[fw])
    BY <1>1, AfterUnpackingGood
  <2>3. \A fw \in running.active : ~ Done(entry[fw])
    BY <1>1, AfterUnpackingGood DEF IInv
  <2>4. DOMAIN entry = Firmware /\ entry = [fw \in Firmware |-> entry[fw]]
    OBVIOUS
  <2> HIDE DEF entry
  <2> QED
    BY <2>1, <2>2, <2>3, <2>4, <1>1, <1>4, WriteEntriesIInv DEF AddFile
<1>5. ASSUME NEW u, NEW roots \in SUBSET Firmware, Remove(u, roots)
      PROVE  IInv'
  <2> DEFINE hit == {fw \in Tracked(roots) : u \in running.entry[fw].toAnalyze}
             after == [fw \in Firmware |-> IF fw \in hit
                                           THEN AfterAnalysis(running.entry[fw], u)
                                           ELSE running.entry[fw]]
             done == {fw \in hit : Done(after[fw])}
             entry == [fw \in Firmware |-> IF fw \in done THEN NoProgress ELSE after[fw]]
  <2>1. /\ running' = [active |-> running.active \ done, entry |-> entry]
        /\ finished' = finished \cup done
        /\ UNCHANGED <<updating, locked>>
    BY <1>5 DEF Remove
  <2>2. hit \subseteq Firmware /\ done \subseteq hit
    BY DEF Tracked
  <2>3. \A fw \in Firmware : GoodEntry(after[fw])
    BY <1>1, AfterAnalysisGood
  <2>4. \A fw \in Firmware : GoodEntry(entry[fw])
    BY <2>3, NoProgressGood
  <2>5. \A fw \in running.active \ done : ~ Done(entry[fw])
    BY <1>1 DEF IInv
  <2>6. DOMAIN entry = Firmware /\ entry = [fw \in Firmware |-> entry[fw]]
    OBVIOUS
  <2> HIDE DEF entry, done, hit, after
  <2> QED
    BY <2>1, <2>2, <2>4, <2>5, <2>6, <1>1, WriteEntriesIInv
<1>6. ASSUME NEW fw \in Firmware, FailAddUpdate(fw) \/ ClearFinished(fw)
      PROVE  IInv'
    BY <1>6 DEF FailAddUpdate, ClearFinished, IInv, StatusTypeOK, CountsAgree, Done
<1>7. CASE UNCHANGED statusVars
    BY <1>7 DEF statusVars, IInv, StatusTypeOK, CountsAgree, Done
<1> QED
    BY <1>2, <1>3, <1>4, <1>5, <1>6, <1>7 DEF NextStatus

LEMMA SpecIInv == SpecStatus => []IInv
    BY InitIInv, NextIInv, PTL DEF SpecStatus

(***************************************************************************)
(* The numbers and the lists of every image agree, whatever is called.     *)
(***************************************************************************)
THEOREM CountersAgreeTheorem == SpecStatus => []CountersAgree
<1>1. IInv => CountersAgree
    BY DEF IInv, CountersAgree
<1> QED
    BY <1>1, SpecIInv, PTL

(***************************************************************************)
(* The dictionary keeps its shape, and no image stays in it when done.     *)
(***************************************************************************)
THEOREM SomethingLeftTheorem == SpecStatus => [](StatusTypeOK /\ SomethingLeft)
<1>1. IInv => StatusTypeOK /\ SomethingLeft
    BY DEF IInv, SomethingLeft
<1> QED
    BY <1>1, SpecIInv, PTL

-----------------------------------------------------------------------------
(* The callers of the analysis status *)

\* A worker that has a file object.
Busy == [pc : {"unpack", "post", "schedule"}, fo : Objects, left : SUBSET Objects]

\* The part of TypeOK that the calls depend on.
CallsOK ==
    /\ queue \in Seq(Objects)
    /\ \A w \in Workers :
        /\ worker[w].pc # "idle" => worker[w] \in Busy
        /\ worker[w].left \subseteq Objects /\ UidsOf(worker[w].left) \subseteq Files
    /\ BagToSet(analyzing) \subseteq Objects
    /\ listener.pc \in {"add", "loop"} =>
        /\ listener.fw \in Firmware /\ listener.included \subseteq Files
        /\ listener.left \subseteq listener.included \cup {listener.fw}
    /\ ended \subseteq Firmware \X Uids
    /\ worker = [w \in Workers |-> worker[w]]

LEMMA FoIsObject ==
    ASSUME NEW u \in Uids, NEW roots \in SUBSET Firmware, NEW depth \in Nat,
           NEW kind \in {"upload", "update", "single"},
           u \in Firmware => roots = {u}
    PROVE  Fo(u, roots, depth, kind) \in Objects
    BY DEF Fo, Objects

\* A file object enters or leaves the analysis.
LEMMA BagAfter ==
    ASSUME NEW fo
    PROVE  /\ IntoAnalysis(fo) => BagToSet(analyzing') = BagToSet(analyzing) \cup {fo}
           /\ analyzing' = analyzing (-) SetToBag({fo}) =>
                BagToSet(analyzing') \subseteq BagToSet(analyzing)
    BY DEF IntoAnalysis, BagToSet, SetToBag, (+), (-)

LEMMA BusyMovesOn ==
    ASSUME NEW r \in Busy, NEW pc \in {"unpack", "post", "schedule"}
    PROVE  /\ [r EXCEPT !.pc = pc] \in Busy
           /\ [r EXCEPT !.pc = pc].pc = pc
           /\ [r EXCEPT !.pc = pc].fo = r.fo
           /\ [r EXCEPT !.pc = pc].left = r.left
    BY DEF Busy

LEMMA BusyWith ==
    ASSUME NEW r \in Busy, NEW left \in SUBSET Objects
    PROVE  /\ [r EXCEPT !.left = left] \in Busy
           /\ [r EXCEPT !.left = left].pc = r.pc
           /\ [r EXCEPT !.left = left].fo = r.fo
           /\ [r EXCEPT !.left = left].left = left
           /\ [r EXCEPT !.pc = "post", !.left = left] \in Busy
           /\ [r EXCEPT !.pc = "post", !.left = left].pc = "post"
           /\ [r EXCEPT !.pc = "post", !.left = left].fo = r.fo
           /\ [r EXCEPT !.pc = "post", !.left = left].left = left
    BY DEF Busy

LEMMA InitCalls == Init => CallsOK
<1> SUFFICES ASSUME Init PROVE CallsOK
    OBVIOUS
<1>1. BagToSet(analyzing) = {}
    BY DEF Init, EmptyBag, SetToBag, BagToSet
<1> QED
    BY <1>1 DEF Init, CallsOK, IdleWorker, IdleListener, UidsOf

LEMMA ExtractedObjects ==
    ASSUME NEW fo \in Objects, fo.depth \in Nat
    PROVE  Extracted(fo) \subseteq Objects /\ UidsOf(Extracted(fo)) \subseteq Files
<1>1. Contents[fo.uid] \subseteq Files
    BY ContentsAssumption DEF Objects
<1>2. fo.roots \in SUBSET Firmware
    BY DEF Objects
<1>3. \A u \in Contents[fo.uid] : Fo(u, fo.roots, fo.depth + 1, "upload") \in Objects
    BY <1>1, <1>2, FirmwareAssumption, FoIsObject DEF Uids
<1> QED
    BY <1>1, <1>3 DEF Extracted, UidsOf, Fo

LEMMA NextCalls == CallsOK /\ [Next]_vars => CallsOK'
<1> SUFFICES ASSUME CallsOK, [Next]_vars PROVE CallsOK'
    OBVIOUS
<1> USE DEF CallsOK
<1>1. ASSUME NEW fw \in Uploaded, Upload(fw) PROVE CallsOK'
  <2>1. Fo(fw, {fw}, 0, "upload") \in Objects
    BY RequestsAssumption, FoIsObject DEF Uids
  <2> QED
    BY <1>1, <2>1 DEF Upload
<1>2. ASSUME NEW w \in Workers, Take(w) PROVE CallsOK'
  <2> DEFINE r == [pc |-> "unpack", fo |-> Head(queue), left |-> {}]
  <2>1. Head(queue) \in Objects /\ Tail(queue) \in Seq(Objects)
    BY <1>2 DEF Take
  <2>2. r \in Busy /\ r.left \subseteq Objects /\ UidsOf(r.left) \subseteq Files
    BY <2>1 DEF Busy, UidsOf
  <2>3. worker' = [worker EXCEPT ![w] = r]
    BY <1>2 DEF Take
  <2>4. UNCHANGED <<analyzing, listener, ended>> /\ queue' = Tail(queue)
    BY <1>2 DEF Take
  <2> HIDE DEF r
  <2> QED
    BY <2>1, <2>2, <2>3, <2>4
<1>3. ASSUME NEW w \in Workers, Unpack(w) \/ ExtractionFails(w) PROVE CallsOK'
  <2>8. PICK fos \in {Extracted(worker[w].fo), {}} :
            worker' = [worker EXCEPT ![w] = [worker[w] EXCEPT !.pc = "post", !.left = fos]]
    BY <1>3 DEF Unpack, ExtractionFails
  <2> DEFINE r == [worker[w] EXCEPT !.pc = "post", !.left = fos]
  <2>1. worker[w] \in Busy /\ worker[w].fo \in Objects /\ worker[w].fo.depth \in Nat
    BY <1>3 DEF Unpack, ExtractionFails, Objects, Busy
  <2>2. /\ Extracted(worker[w].fo) \subseteq Objects
        /\ UidsOf(Extracted(worker[w].fo)) \subseteq Files
    BY <2>1, ExtractedObjects
  <2>6. fos \in SUBSET Objects /\ UidsOf(fos) \subseteq Files
    BY <2>2 DEF UidsOf
  <2>7. r \in Busy /\ r.left = fos
    BY <2>1, <2>6, BusyWith
  <2>3. r \in Busy /\ r.left \subseteq Objects /\ UidsOf(r.left) \subseteq Files
    BY <2>6, <2>7
  <2>4. worker' = [worker EXCEPT ![w] = r]
    BY <2>8
  <2>5. UNCHANGED <<queue, analyzing, listener, ended>>
    BY <1>3 DEF Unpack, ExtractionFails
  <2> HIDE DEF r
  <2> QED
    BY <2>3, <2>4, <2>5
<1>4. ASSUME NEW w \in Workers, UnpackFails(w) \/ Return(w) PROVE CallsOK'
  <2>1. /\ worker' = [worker EXCEPT ![w] = IdleWorker]
        /\ UNCHANGED <<queue, analyzing, listener, ended>>
    BY <1>4 DEF UnpackFails, Return
  <2>2. IdleWorker.pc = "idle" /\ IdleWorker.left = {} /\ UidsOf(IdleWorker.left) = {}
    BY DEF IdleWorker, UidsOf
  <2> QED
    BY <2>1, <2>2
<1>5. ASSUME NEW w \in Workers, PostUnpack(w) PROVE CallsOK'
  <2> DEFINE r == [worker[w] EXCEPT !.pc = "schedule"]
  <2>1. worker[w] \in Busy /\ worker[w].fo \in Objects
    BY <1>5 DEF PostUnpack, Busy
  <2>2. BagToSet(analyzing') = BagToSet(analyzing) \cup {worker[w].fo}
    BY <1>5, BagAfter DEF PostUnpack
  <2>3. r \in Busy /\ r.left = worker[w].left
    BY <2>1, BusyMovesOn
  <2>4. worker' = [worker EXCEPT ![w] = r]
    BY <1>5 DEF PostUnpack
  <2>5. UNCHANGED <<queue, listener, ended>>
    BY <1>5 DEF PostUnpack
  <2> HIDE DEF r
  <2> QED
    BY <2>1, <2>2, <2>3, <2>4, <2>5
<1>6. ASSUME NEW w \in Workers, ScheduleExtracted(w) PROVE CallsOK'
  <2>1. PICK fo \in worker[w].left :
            /\ queue' = Append(queue, fo)
            /\ worker' = [worker EXCEPT ![w].left = @ \ {fo}]
    BY <1>6 DEF ScheduleExtracted
  <2> DEFINE r == [worker[w] EXCEPT !.left = worker[w].left \ {fo}]
  <2>2. UidsOf(worker[w].left \ {fo}) \subseteq UidsOf(worker[w].left)
    BY DEF UidsOf
  <2>3. worker[w] \in Busy /\ queue' \in Seq(Objects)
    BY <1>6, <2>1 DEF ScheduleExtracted
  <2>4. worker[w].left \ {fo} \in SUBSET Objects
    OBVIOUS
  <2>7. r \in Busy /\ r.left = worker[w].left \ {fo}
    BY <2>3, <2>4, BusyWith
  <2>5. worker' = [worker EXCEPT ![w] = r]
    BY <2>1
  <2>6. UNCHANGED <<analyzing, listener, ended>>
    BY <1>6 DEF ScheduleExtracted
  <2> HIDE DEF r
  <2> QED
    BY <2>2, <2>3, <2>5, <2>6, <2>7
<1>7. CASE Monitor
    BY <1>7 DEF Monitor
<1>8. ASSUME NEW fo \in BagToSet(analyzing), EndAnalysis(fo) PROVE CallsOK'
  <2>1. BagToSet(analyzing') \subseteq BagToSet(analyzing)
    BY <1>8, BagAfter DEF EndAnalysis
  <2>2. fo.roots \in SUBSET Firmware /\ fo.uid \in Uids
    BY DEF Objects
  <2>3. ended' \subseteq Firmware \X Uids
    BY <1>8, <2>2 DEF EndAnalysis
  <2>4. UNCHANGED <<queue, worker, listener>>
    BY <1>8 DEF EndAnalysis
  <2> QED
    BY <2>1, <2>3, <2>4
<1>9. ASSUME NEW fw \in Updated, BeginUpdate(fw) PROVE CallsOK'
  <2>1. PICK some \in SUBSET OnTheWay(fw) :
            listener' = [pc |-> "add", fw |-> fw, included |-> Analyzed(fw) \cup some,
                         left |-> (Analyzed(fw) \cup some) \cup {fw}]
    BY <1>9 DEF BeginUpdate
  <2>2. Analyzed(fw) \cup some \subseteq Files
    BY DEF Analyzed, OnTheWay, Objects, Uids
  <2> QED
    BY <1>9, <2>1, <2>2, RequestsAssumption DEF BeginUpdate
<1>10. CASE EndAdd
    BY <1>10 DEF EndAdd
<1>11. CASE ListenerDies
    BY <1>11 DEF ListenerDies
<1>12. CASE UpdateNext
  <2>1. PICK u \in listener.left, roots \in SUBSET Firmware :
            /\ u = listener.fw => roots = {u}
            /\ IntoAnalysis(Fo(u, roots, 0, "update"))
            /\ listener' = IF listener.left = {u} THEN IdleListener
                           ELSE [listener EXCEPT !.left = @ \ {u}]
    <3>1. \A u : KnownRoots(u) \subseteq SUBSET Firmware
      BY DEF KnownRoots
    <3>2. \A u \in listener.left : u = listener.fw => {u} \in SUBSET Firmware
      BY <1>12 DEF UpdateNext
    <3>3. PICK u \in listener.left :
            /\ \E roots \in IF u = listener.fw THEN {{u}} ELSE KnownRoots(u) :
                IntoAnalysis(Fo(u, roots, 0, "update"))
            /\ listener' = IF listener.left = {u} THEN IdleListener
                           ELSE [listener EXCEPT !.left = @ \ {u}]
      BY <1>12 DEF UpdateNext
    <3>4. PICK roots \in IF u = listener.fw THEN {{u}} ELSE KnownRoots(u) :
                IntoAnalysis(Fo(u, roots, 0, "update"))
      BY <3>3
    <3>5. roots \in SUBSET Firmware /\ (u = listener.fw => roots = {u})
      BY <3>1, <3>2, <3>4
    <3> QED
      BY <3>3, <3>4, <3>5
  <2>2. Fo(u, roots, 0, "update") \in Objects
    <3>1. listener.fw \in Firmware /\ u \in Uids
      BY <1>12 DEF UpdateNext, Uids
    <3>2. u \in Firmware => u = listener.fw
      BY <1>12, FirmwareAssumption DEF UpdateNext
    <3> QED
      BY <2>1, <3>1, <3>2, FoIsObject
  <2>3. BagToSet(analyzing') =
            BagToSet(analyzing) \cup {Fo(u, roots, 0, "update")}
    BY <2>1, BagAfter
  <2> QED
    BY <1>12, <2>1, <2>2, <2>3 DEF UpdateNext, IdleListener
<1>13. ASSUME NEW u \in Single, UpdateSingle(u) PROVE CallsOK'
  <2>3. PICK roots \in SUBSET Firmware : IntoAnalysis(Fo(u, roots, 0, "single"))
    BY <1>13 DEF UpdateSingle, KnownRoots
  <2>1. Fo(u, roots, 0, "single") \in Objects
    BY RequestsAssumption, FirmwareAssumption, FoIsObject DEF Uids
  <2>2. BagToSet(analyzing') = BagToSet(analyzing) \cup {Fo(u, roots, 0, "single")}
    BY <2>3, BagAfter
  <2> QED
    BY <1>13, <2>1, <2>2 DEF UpdateSingle
<1>14. CASE UNCHANGED vars
    BY <1>14 DEF vars
<1> QED
    BY <1>1, <1>2, <1>3, <1>4, <1>5, <1>6, <1>7, <1>8, <1>9, <1>10, <1>11, <1>12,
       <1>13, <1>14 DEF Next, UnpackStep, ListenerStep

(***************************************************************************)
(* Each step is a call of AnalysisStatus, or leaves it alone.              *)
(***************************************************************************)
LEMMA StepsAreCalls == CallsOK /\ [Next]_vars => [NextStatus]_statusVars
<1> SUFFICES ASSUME CallsOK, [Next]_vars PROVE [NextStatus]_statusVars
    OBVIOUS
<1>1. ASSUME NEW w \in Workers, PostUnpack(w) PROVE NextStatus
  <2> DEFINE fo == worker[w].fo
             included == UidsOf(worker[w].left)
  <2>1. /\ fo.uid \in Uids /\ fo.roots \in SUBSET Firmware
        /\ included \in SUBSET Files
    BY <1>1 DEF PostUnpack, CallsOK, Objects, Busy
  <2>2. AddToCurrentAnalyses(fo, included)
    BY <1>1 DEF PostUnpack
  <2> HIDE DEF fo, included
  <2>3. CASE fo.uid \in Firmware
    BY <2>1, <2>2, <2>3 DEF AddToCurrentAnalyses, NextStatus
  <2>4. CASE fo.uid \notin Firmware
    BY <2>1, <2>2, <2>4 DEF AddToCurrentAnalyses, NextStatus, Uids
  <2> QED
    BY <2>3, <2>4
<1>2. ASSUME NEW fo \in BagToSet(analyzing), EndAnalysis(fo) PROVE NextStatus
  <2>1. /\ fo.uid \in Uids /\ fo.roots \in SUBSET Firmware
        /\ fo.uid \in Firmware => fo.roots = {fo.uid}
    BY DEF CallsOK, Objects
  <2>2. Remove(fo.uid, fo.roots)
    BY <1>2 DEF EndAnalysis
  <2> QED
    BY <2>1, <2>2 DEF NextStatus, Uids
<1>3. ASSUME NEW fw \in Updated, BeginUpdate(fw) PROVE NextStatus
  <2>1. PICK some \in SUBSET OnTheWay(fw) :
            BeginAddUpdate(fw, (Analyzed(fw) \cup some) \cap Contents[fw])
    BY <1>3 DEF BeginUpdate
  <2>2. fw \in Firmware
    BY RequestsAssumption
  <2>3. (Analyzed(fw) \cup some) \cap Contents[fw] \in SUBSET Files
    BY <2>2, ContentsAssumption DEF Uids
  <2> QED
    BY <2>1, <2>2, <2>3 DEF NextStatus
<1>4. CASE EndAdd
    BY <1>4 DEF EndAdd, CallsOK, NextStatus
<1>5. CASE ListenerDies
    BY <1>5 DEF ListenerDies, CallsOK, NextStatus
<1>6. ASSUME NEW w \in Workers, Take(w) \/ Unpack(w) \/ ExtractionFails(w) \/ UnpackFails(w)
                                   \/ Return(w) \/ ScheduleExtracted(w)
      PROVE  UNCHANGED statusVars
    BY <1>6 DEF Take, Unpack, ExtractionFails, UnpackFails, Return, ScheduleExtracted
<1>7. ASSUME (\E fw \in Uploaded : Upload(fw)) \/ Monitor \/ UpdateNext
                \/ (\E u \in Single : UpdateSingle(u))
      PROVE  UNCHANGED statusVars
    BY <1>7 DEF Upload, Monitor, UpdateNext, UpdateSingle
<1>8. CASE UNCHANGED vars
    BY <1>8 DEF vars
<1> QED
    BY <1>1, <1>2, <1>3, <1>4, <1>5, <1>6, <1>7, <1>8 DEF Next, UnpackStep, ListenerStep

(***************************************************************************)
(* The backend uses the analysis status as AnalysisStatus specifies it.    *)
(***************************************************************************)
THEOREM ImplementsStatus == Spec => SpecStatus
<1>1. Init => InitStatus
    BY DEF Init
<1> QED
    BY <1>1, InitCalls, NextCalls, StepsAreCalls, PTL DEF Spec, SpecStatus

(***************************************************************************)
(* So the progress of every image adds up at any time, whatever is         *)
(* uploaded and updated at once, with any number of workers, whatever      *)
(* breaks.                                                                 *)
(***************************************************************************)
THEOREM ProgressTheorem == Spec => [](CountersAgree /\ SomethingLeft)
    BY ImplementsStatus, CountersAgreeTheorem, SomethingLeftTheorem, PTL

----------------------------------------------------------------------------
(***************************************************************************)
(* An upload that is finished was analyzed.  An image's own object comes   *)
(* to the analysis once, so its lists are made once, and from then on they *)
(* know of the content of every file that was unpacked from it: when both  *)
(* are empty, all of it has left the analysis.                             *)
(***************************************************************************)
\* An object that was uploaded or extracted, at its level below its image.
FromUpload(fo) ==
    \E fw \in Uploaded :
        /\ fo.kind = "upload" /\ fo.roots = {fw}
        /\ fo.depth \in 0..MaxDepth /\ fo.uid \in Below[fw][fo.depth]

\* What unpack returns: the extracted objects, or none if the extractor fails.
Outcome(fo, fos) ==
    \/ fos = Extracted(fo)
    \/ fo.uid \in Unreadable /\ fos = {}

QueuedInv ==
    /\ \A i \in 1..Len(queue) : FromUpload(queue[i])
    /\ \A w \in Workers :
        /\ worker[w].pc # "idle" => FromUpload(worker[w].fo)
        /\ \A fo \in worker[w].left : FromUpload(fo)
        /\ worker[w].pc = "post" => Outcome(worker[w].fo, worker[w].left)
        /\ worker[w].pc \in {"idle", "unpack"} => worker[w].left = {}

\* The objects that still come to the analysis.
InQueue == {queue[i] : i \in 1..Len(queue)}

AtWorker(w) ==
    IF worker[w].pc \in {"unpack", "post"} THEN {worker[w].fo} ELSE worker[w].left

Waiting == InQueue \cup UNION {AtWorker(w) : w \in Workers}

\* The image itself, as it was uploaded.
Image(fw) == Fo(fw, {fw}, 0, "upload")

\* An image comes to the analysis at most once.
OnceInv ==
    \A fw \in Uploaded :
        /\ <<"upload", fw>> \in requests => Image(fw) \notin Waiting
        /\ \A i, j \in 1..Len(queue) :
            queue[i] = Image(fw) /\ queue[j] = Image(fw) => i = j
        /\ \A w \in Workers : Image(fw) \in AtWorker(w) =>
            /\ Image(fw) \notin InQueue
            /\ \A v \in Workers : Image(fw) \in AtWorker(v) => v = w

ListenerInv ==
    listener.pc \in {"add", "loop"} =>
        listener.fw \in Updated /\ <<"update", listener.fw>> \notin requests

Ended(fw) == {u \in Uids : <<fw, u>> \in ended}
Analyzing(fw) == {fo \in BagToSet(analyzing) : fw \in fo.roots}

NotAnalyzed(fw) ==
    /\ fw \notin running.active /\ fw \notin finished
    /\ Ended(fw) = {} /\ Analyzing(fw) = {}
    /\ \A fo \in Waiting : fw \in fo.roots => fo = Image(fw)

\* The lists of an image know of the content of all that was unpacked from it.
Known(fw) == running.entry[fw].toUnpack \cup running.entry[fw].toAnalyze \cup Ended(fw)
Passed(fw) == running.entry[fw].toAnalyze \cup Ended(fw) \cup UidsOf(Analyzing(fw))

UnderAnalysis(fw) ==
    /\ fw \in running.active => 
        /\ fw \notin finished
        /\ fw \in running.entry[fw].toAnalyze \cup Ended(fw)
        /\ \A p \in Passed(fw) \ Unreadable : Contents[p] \subseteq Known(fw) \cup {p}
    /\ fw \in finished => Reached(fw) \subseteq Ended(fw)
    /\ fw \in running.active \cup finished
    /\ <<"upload", fw>> \notin requests
    /\ Image(fw) \notin Waiting

ImageInv(fw) ==
    NoUpdateYet(fw) /\ NotCutOff(fw) =>
        /\ \A fo \in Analyzing(fw) : FromUpload(fo)
        /\ Ended(fw) \subseteq Included(fw)
        /\ NotAnalyzed(fw) \/ UnderAnalysis(fw)

ImagesInv == \A fw \in Firmware : ImageInv(fw)

\* Where an object's images know the file from: it is below each of them.
RootsInv ==
    /\ \A fo \in BagToSet(analyzing) : \A fw \in fo.roots : fo.uid \in Included(fw)
    /\ \A fw \in Firmware : Ended(fw) \subseteq Included(fw)
    /\ listener.pc \in {"add", "loop"} =>
        /\ listener.included \subseteq Included(listener.fw)
        /\ listener.left \subseteq Included(listener.fw)

LEMMA LevelsBelow ==
    ASSUME NEW fw \in Firmware
    PROVE  /\ Below[fw][0] = {fw}
           /\ \A n \in 0..MaxDepth : Below[fw][n] \subseteq Uids
           /\ \A n \in 1..MaxDepth : Below[fw][n] \subseteq Files
           /\ \A n \in 0..(MaxDepth - 1) : \A u \in Below[fw][n] :
                Contents[u] \ {u} \subseteq Below[fw][n + 1]
           /\ \A n \in 0..(MaxDepth - 1) : \A v \in Below[fw][n + 1] :
                \E u \in Below[fw][n] : v \in Contents[u] \ {u}
<1> USE ContentsAssumption
<1>1. \A n \in 0..MaxDepth : Below[fw][n] = {c[n] : c \in Chains(fw, n)}
    BY DEF Below
<1>2. Below[fw][0] = {fw}
  <2>1. [i \in 0..0 |-> fw] \in Chains(fw, 0)
    BY DEF Chains, Uids
  <2>2. \A c \in Chains(fw, 0) : c[0] = fw
    BY DEF Chains
  <2> QED
    BY <1>1, <2>1, <2>2
<1>3. \A n \in 0..MaxDepth : Below[fw][n] \subseteq Uids
    BY <1>1 DEF Chains
<1>4. ASSUME NEW n \in 0..(MaxDepth - 1), NEW v \in Below[fw][n + 1]
      PROVE  \E u \in Below[fw][n] : v \in Contents[u] \ {u}
  <2>1. PICK c \in Chains(fw, n + 1) : v = c[n + 1]
    BY <1>1
  <2>2. [i \in 0..n |-> c[i]] \in Chains(fw, n)
    BY DEF Chains
  <2>3. c[n] \in Below[fw][n]
    BY <1>1, <2>2
  <2>4. c[n + 1] \in Contents[c[n]] \ {c[n]}
    BY DEF Chains
  <2> QED
    BY <2>1, <2>3, <2>4
<1>5. ASSUME NEW n \in 0..(MaxDepth - 1), NEW u \in Below[fw][n],
             NEW v \in Contents[u] \ {u}
      PROVE  v \in Below[fw][n + 1]
  <2>1. PICK c \in Chains(fw, n) : u = c[n]
    BY <1>1
  <2> DEFINE d == [i \in 0..(n + 1) |-> IF i = n + 1 THEN v ELSE c[i]]
  <2>2. v \in Uids
    BY <1>3 DEF Uids
  <2>3. d \in [0..(n + 1) -> Uids]
    BY <2>2 DEF Chains
  <2>4. d[0] = fw
    BY DEF Chains
  <2>5. \A i \in 1..(n + 1) : d[i] \in Contents[d[i - 1]] \ {d[i - 1]}
    BY <2>1 DEF Chains
  <2>6. d \in Chains(fw, n + 1)
    BY <2>3, <2>4, <2>5 DEF Chains
  <2> QED
    BY <1>1, <2>6
<1>6. \A n \in 1..MaxDepth : Below[fw][n] \subseteq Files
  <2> SUFFICES ASSUME NEW n \in 1..MaxDepth, NEW v \in Below[fw][n]
               PROVE  v \in Files
    OBVIOUS
  <2>1. n - 1 \in 0..(MaxDepth - 1) /\ (n - 1) + 1 = n
    OBVIOUS
  <2>2. PICK u \in Below[fw][n - 1] : v \in Contents[u] \ {u}
    BY <1>4, <2>1
  <2>3. u \in Uids
    BY <1>3, <2>1
  <2> QED
    BY <2>2, <2>3
<1> QED
    BY <1>2, <1>3, <1>4, <1>5, <1>6

\* What is extracted from an object of an upload is one, and no image.
LEMMA FromUploadFacts ==
    ASSUME NEW fo, FromUpload(fo)
    PROVE  /\ fo.uid \in Uids /\ fo.depth \in Nat
           /\ \A g \in Extracted(fo) : FromUpload(g) /\ g.uid \in Files /\ g.roots = fo.roots
           /\ \A fw \in Firmware : fw \in fo.roots =>
                /\ fw \in Uploaded /\ fo.roots = {fw} /\ fo.uid \in Included(fw)
                /\ fo.uid \in Firmware => fo.uid = fw /\ fo.depth = 0
                /\ NotCutOff(fw) => UidsOf(Extracted(fo)) = Contents[fo.uid] \ {fo.uid}
<1> USE ContentsAssumption
<1>1. PICK fw \in Uploaded :
        /\ fo.kind = "upload" /\ fo.roots = {fw}
        /\ fo.depth \in 0..MaxDepth /\ fo.uid \in Below[fw][fo.depth]
    BY DEF FromUpload
<1>2. fw \in Firmware
    BY RequestsAssumption
<1>3. fo.uid \in Uids /\ fo.depth \in Nat
    BY <1>1, <1>2, LevelsBelow
<1>4. fo.uid \in Included(fw)
    BY <1>1 DEF Included
<1>5. ASSUME fo.uid \in Firmware PROVE fo.uid = fw /\ fo.depth = 0
  <2>1. CASE fo.depth = 0
    BY <1>1, <1>2, <2>1, LevelsBelow
  <2>2. CASE fo.depth # 0
    <3>1. fo.depth \in 1..MaxDepth
      BY <1>1, <2>2
    <3>2. fo.uid \in Files
      BY <1>1, <1>2, <3>1, LevelsBelow
    <3> QED
      BY <1>5, <3>2, FirmwareAssumption
  <2> QED
    BY <2>1, <2>2
<1>6. ASSUME NEW g \in Extracted(fo)
      PROVE  FromUpload(g) /\ g.uid \in Files /\ g.roots = fo.roots
  <2>1. PICK u \in Contents[fo.uid] \ {fo.uid} : g = Fo(u, fo.roots, fo.depth + 1, "upload")
    BY <1>6 DEF Extracted
  <2>2. fo.depth < MaxDepth
    BY <1>1, <1>6 DEF Extracted
  <2>3. fo.depth \in 0..(MaxDepth - 1) /\ fo.depth + 1 \in 0..MaxDepth
    BY <1>1, <2>2
  <2>4. u \in Below[fw][fo.depth + 1]
    BY <1>1, <1>2, <2>1, <2>3, LevelsBelow
  <2>5. u \in Files
    BY <1>3, <2>1
  <2> QED
    BY <1>1, <2>1, <2>3, <2>4, <2>5 DEF FromUpload, Fo
<1>7. ASSUME NotCutOff(fw) PROVE UidsOf(Extracted(fo)) = Contents[fo.uid] \ {fo.uid}
  <2>1. CASE fo.depth >= MaxDepth
    <3>1. fo.depth = MaxDepth
      BY <1>1, <2>1
    <3>2. Contents[fo.uid] \ {fo.uid} = {}
      BY <1>1, <1>7, <3>1 DEF NotCutOff
    <3>3. Extracted(fo) = {}
      BY <2>1 DEF Extracted
    <3> QED
      BY <3>2, <3>3 DEF UidsOf
  <2>2. CASE ~ (fo.depth >= MaxDepth)
    <3>1. Extracted(fo) = {Fo(u, fo.roots, fo.depth + 1, "upload") :
                                u \in Contents[fo.uid] \ {fo.uid}}
      BY <2>2 DEF Extracted
    <3>2. \A u : Fo(u, fo.roots, fo.depth + 1, "upload").uid = u
      BY DEF Fo
    <3> QED
      BY <3>1, <3>2 DEF UidsOf
  <2> QED
    BY <2>1, <2>2
<1> QED
    BY <1>1, <1>3, <1>4, <1>5, <1>6, <1>7

(***************************************************************************)
(* What each step does to the objects that wait.                           *)
(***************************************************************************)
LEMMA UploadMoves ==
    ASSUME NEW fw \in Uploaded, CallsOK, Upload(fw)
    PROVE  /\ InQueue' = InQueue \cup {Image(fw)}
           /\ \A i \in 1..Len(queue') :
                \/ i \in 1..Len(queue) /\ queue'[i] = queue[i]
                \/ i = Len(queue) + 1 /\ queue'[i] = Image(fw)
           /\ \A w \in Workers : worker'[w] = worker[w]
           /\ Waiting' = Waiting \cup {Image(fw)}
<1>1. Image(fw) \in Objects
    BY RequestsAssumption, FoIsObject DEF Uids, Image
<1>2. queue' = Append(queue, Image(fw)) /\ worker' = worker
    BY DEF Upload, Image
<1>3. queue \in Seq(Objects)
    BY DEF CallsOK
<1>4. /\ Len(queue') = Len(queue) + 1 /\ Len(queue) \in Nat
      /\ \A i \in 1..Len(queue) : queue'[i] = queue[i]
      /\ queue'[Len(queue) + 1] = Image(fw)
    BY <1>1, <1>2, <1>3
<1>5. InQueue' = InQueue \cup {Image(fw)}
    BY <1>4 DEF InQueue
<1>6. \A w \in Workers : AtWorker(w)' = AtWorker(w)
    BY <1>2 DEF AtWorker
<1> QED
    BY <1>2, <1>4, <1>5, <1>6 DEF Waiting

LEMMA TakeMoves ==
    ASSUME NEW w \in Workers, CallsOK, QueuedInv, Take(w)
    PROVE  /\ Head(queue) = queue[1] /\ 1 \in 1..Len(queue)
           /\ \A i \in 1..Len(queue') :
                i + 1 \in 1..Len(queue) /\ queue'[i] = queue[i + 1]
           /\ InQueue' \subseteq InQueue
           /\ worker'[w] = [pc |-> "unpack", fo |-> Head(queue), left |-> {}]
           /\ \A v \in Workers : v # w => worker'[v] = worker[v]
           /\ AtWorker(w) = {} /\ AtWorker(w)' = {Head(queue)}
           /\ Waiting' \subseteq Waiting
<1>1. queue \in Seq(Objects) /\ queue # << >>
    BY DEF CallsOK, Take
<1>2. /\ Head(queue) = queue[1] /\ 1 \in 1..Len(queue)
      /\ \A i \in 1..Len(queue') : i + 1 \in 1..Len(queue) /\ queue'[i] = queue[i + 1]
    BY <1>1 DEF Take
<1>3. InQueue' \subseteq InQueue
    BY <1>2 DEF InQueue
<1>4. /\ worker'[w] = [pc |-> "unpack", fo |-> Head(queue), left |-> {}]
      /\ \A v \in Workers : v # w => worker'[v] = worker[v]
    BY DEF Take, CallsOK
<1>5. AtWorker(w) = {} /\ AtWorker(w)' = {Head(queue)}
    BY <1>4 DEF AtWorker, QueuedInv, Take
<1>6. Head(queue) \in InQueue
    BY <1>2 DEF InQueue
<1>7. \A v \in Workers : v # w => AtWorker(v)' = AtWorker(v)
    BY <1>4 DEF AtWorker
<1> QED
    BY <1>2, <1>3, <1>4, <1>5, <1>6, <1>7 DEF Waiting

LEMMA UnpackMoves ==
    ASSUME NEW w \in Workers, CallsOK, Unpack(w) \/ ExtractionFails(w)
    PROVE  /\ worker'[w].pc = "post" /\ worker'[w].fo = worker[w].fo
           /\ worker[w].pc = "unpack" /\ Outcome(worker[w].fo, worker'[w].left)
           /\ \A v \in Workers : v # w => worker'[v] = worker[v]
           /\ \A v \in Workers : AtWorker(v)' = AtWorker(v)
           /\ queue' = queue /\ InQueue' = InQueue /\ Waiting' = Waiting
<1>0. PICK fos : /\ Outcome(worker[w].fo, fos) /\ fos \in SUBSET Objects
                 /\ worker' = [worker EXCEPT ![w] =
                                [worker[w] EXCEPT !.pc = "post", !.left = fos]]
  <2>1. CASE Unpack(w)
    <3>1. worker[w].fo \in Objects /\ worker[w].fo.depth \in Nat
      BY <2>1 DEF Unpack, CallsOK, Busy, Objects
    <3>2. Extracted(worker[w].fo) \in SUBSET Objects
      BY <3>1, ExtractedObjects
    <3>3. worker' = [worker EXCEPT ![w] =
                        [worker[w] EXCEPT !.pc = "post", !.left = Extracted(worker[w].fo)]]
      BY <2>1 DEF Unpack
    <3>4. Outcome(worker[w].fo, Extracted(worker[w].fo))
      BY DEF Outcome
    <3> QED
      BY <3>2, <3>3, <3>4
  <2>2. CASE ExtractionFails(w)
    <3>1. worker' = [worker EXCEPT ![w] = [worker[w] EXCEPT !.pc = "post", !.left = {}]]
      BY <2>2 DEF ExtractionFails
    <3>2. Outcome(worker[w].fo, {})
      BY <2>2 DEF ExtractionFails, Outcome
    <3> QED
      BY <3>1, <3>2
  <2> QED
    BY <2>1, <2>2
<1>1. /\ worker'[w] = [worker[w] EXCEPT !.pc = "post", !.left = fos]
      /\ \A v \in Workers : v # w => worker'[v] = worker[v]
    BY <1>0 DEF CallsOK
<1>2. queue' = queue /\ worker[w].pc = "unpack"
    BY DEF Unpack, ExtractionFails
<1>3. /\ worker'[w].pc = "post" /\ worker'[w].fo = worker[w].fo
      /\ Outcome(worker[w].fo, worker'[w].left)
  <2>1. worker[w] \in Busy
    BY <1>2 DEF CallsOK
  <2> DEFINE r == [worker[w] EXCEPT !.pc = "post", !.left = fos]
  <2>2. r.pc = "post" /\ r.fo = worker[w].fo /\ r.left = fos
    BY <1>0, <2>1, BusyWith
  <2> HIDE DEF r
  <2>3. worker'[w] = r
    BY <1>1 DEF r
  <2> QED
    BY <1>0, <2>2, <2>3
<1>4. \A v \in Workers : AtWorker(v)' = AtWorker(v)
    BY <1>1, <1>2, <1>3 DEF AtWorker
<1>5. InQueue' = InQueue
    BY <1>2 DEF InQueue
<1> QED
    BY <1>1, <1>2, <1>3, <1>4, <1>5 DEF Waiting

LEMMA ReturnMoves ==
    ASSUME NEW w \in Workers, CallsOK, UnpackFails(w) \/ Return(w)
    PROVE  /\ worker'[w].pc = "idle" /\ worker'[w].left = {} /\ AtWorker(w)' = {}
           /\ \A v \in Workers : v # w => worker'[v] = worker[v]
           /\ queue' = queue /\ InQueue' = InQueue /\ Waiting' \subseteq Waiting
<1>1. /\ worker' = [worker EXCEPT ![w] = IdleWorker]
      /\ queue' = queue
    BY DEF UnpackFails, Return
<1>2. /\ worker'[w] = IdleWorker
      /\ \A v \in Workers : v # w => worker'[v] = worker[v]
    BY <1>1 DEF CallsOK
<1>3. worker'[w].pc = "idle" /\ worker'[w].left = {}
    BY <1>2 DEF IdleWorker
<1>4. AtWorker(w)' = {} /\ \A v \in Workers : v # w => AtWorker(v)' = AtWorker(v)
    BY <1>2, <1>3 DEF AtWorker
<1>5. InQueue' = InQueue
    BY <1>1 DEF InQueue
<1> QED
    BY <1>1, <1>2, <1>3, <1>4, <1>5 DEF Waiting

LEMMA PostUnpackMoves ==
    ASSUME NEW w \in Workers, CallsOK, QueuedInv, PostUnpack(w)
    PROVE  /\ worker[w].pc = "post" /\ worker'[w].pc = "schedule"
           /\ worker'[w].fo = worker[w].fo
           /\ Outcome(worker[w].fo, worker[w].left) /\ worker'[w].left = worker[w].left
           /\ AtWorker(w) = {worker[w].fo} /\ AtWorker(w)' = worker[w].left
           /\ \A v \in Workers : v # w => worker'[v] = worker[v] /\ AtWorker(v)' = AtWorker(v)
           /\ queue' = queue /\ InQueue' = InQueue
           /\ Waiting' \subseteq Waiting \cup worker[w].left
           /\ worker[w].fo \in Waiting
<1>1. worker' = [worker EXCEPT ![w] = [worker[w] EXCEPT !.pc = "schedule"]]
    BY DEF PostUnpack
<1>2. queue' = queue /\ worker[w].pc = "post"
    BY DEF PostUnpack
<1>3. /\ worker'[w].pc = "schedule" /\ worker'[w].fo = worker[w].fo
      /\ worker'[w].left = worker[w].left
  <2>1. worker[w] \in Busy /\ worker'[w] = [worker[w] EXCEPT !.pc = "schedule"]
    BY <1>1, <1>2 DEF CallsOK
  <2> QED
    BY <2>1, BusyMovesOn
<1>4. Outcome(worker[w].fo, worker[w].left)
    BY <1>2 DEF QueuedInv
<1>5. \A v \in Workers : v # w => worker'[v] = worker[v]
    BY <1>1 DEF CallsOK
<1>6. \A v \in Workers : v # w => AtWorker(v)' = AtWorker(v)
    BY <1>5 DEF AtWorker
<1>7. AtWorker(w) = {worker[w].fo} /\ AtWorker(w)' = worker[w].left
    BY <1>2, <1>3, <1>4 DEF AtWorker
<1>8. InQueue' = InQueue
    BY <1>2 DEF InQueue
<1> QED
    BY <1>2, <1>3, <1>4, <1>5, <1>6, <1>7, <1>8 DEF Waiting

LEMMA ScheduleMoves ==
    ASSUME NEW w \in Workers, CallsOK, QueuedInv, ScheduleExtracted(w)
    PROVE  \E fo \in worker[w].left :
            /\ worker'[w].pc = worker[w].pc /\ worker[w].pc = "schedule"
            /\ worker'[w].fo = worker[w].fo
            /\ worker'[w].left = worker[w].left \ {fo}
            /\ AtWorker(w) = worker[w].left /\ AtWorker(w)' = worker[w].left \ {fo}
            /\ \A v \in Workers : v # w => worker'[v] = worker[v] /\ AtWorker(v)' = AtWorker(v)
            /\ \A i \in 1..Len(queue') :
                \/ i \in 1..Len(queue) /\ queue'[i] = queue[i]
                \/ i = Len(queue) + 1 /\ queue'[i] = fo
            /\ InQueue' = InQueue \cup {fo} /\ Waiting' \subseteq Waiting
<1>1. PICK fo \in worker[w].left :
            /\ queue' = Append(queue, fo)
            /\ worker' = [worker EXCEPT ![w] = [worker[w] EXCEPT !.left = @ \ {fo}]]
    BY DEF ScheduleExtracted
<1>2. worker[w].pc = "schedule"
    BY DEF ScheduleExtracted
<1>3. /\ worker'[w].pc = "schedule" /\ worker'[w].fo = worker[w].fo
      /\ worker'[w].left = worker[w].left \ {fo}
  <2>1. worker[w] \in Busy /\ worker'[w] = [worker[w] EXCEPT !.left = worker[w].left \ {fo}]
    BY <1>1, <1>2 DEF CallsOK
  <2>2. worker[w].left \ {fo} \in SUBSET Objects
    BY DEF CallsOK
  <2> DEFINE left == worker[w].left \ {fo}
             r == worker[w]
  <2>3. /\ [r EXCEPT !.left = left].pc = r.pc /\ [r EXCEPT !.left = left].fo = r.fo
        /\ [r EXCEPT !.left = left].left = left
    <3> HIDE DEF left, r
    <3> QED
      BY <2>1, <2>2, BusyWith DEF left, r
  <2> QED
    BY <1>2, <2>1, <2>3
<1>4. \A v \in Workers : v # w => worker'[v] = worker[v]
    BY <1>1 DEF CallsOK
<1>5. \A v \in Workers : v # w => AtWorker(v)' = AtWorker(v)
    BY <1>4 DEF AtWorker
<1>6. AtWorker(w) = worker[w].left /\ AtWorker(w)' = worker[w].left \ {fo}
    BY <1>2, <1>3 DEF AtWorker
<1>7. queue \in Seq(Objects) /\ fo \in Objects
    BY DEF CallsOK
<1>8. /\ Len(queue') = Len(queue) + 1 /\ Len(queue) \in Nat
      /\ \A i \in 1..Len(queue) : queue'[i] = queue[i]
      /\ queue'[Len(queue) + 1] = fo
    BY <1>1, <1>7
<1>9. \A i \in 1..Len(queue') :
                \/ i \in 1..Len(queue) /\ queue'[i] = queue[i]
                \/ i = Len(queue) + 1 /\ queue'[i] = fo
    BY <1>8
<1>10. InQueue' = InQueue \cup {fo}
    BY <1>8 DEF InQueue
<1>11. Waiting' \subseteq Waiting
    BY <1>5, <1>6, <1>10 DEF Waiting
<1> QED
    BY <1>2, <1>3, <1>4, <1>5, <1>6, <1>9, <1>10, <1>11

\* The workers and the queue are left alone.
LEMMA NothingWaits ==
    ASSUME UNCHANGED <<queue, worker>>
    PROVE  /\ InQueue' = InQueue /\ Waiting' = Waiting
           /\ \A v \in Workers : AtWorker(v)' = AtWorker(v)
<1>1. InQueue' = InQueue
    BY DEF InQueue
<1>2. \A v \in Workers : AtWorker(v)' = AtWorker(v)
    BY DEF AtWorker
<1> QED
    BY <1>1, <1>2 DEF Waiting

(***************************************************************************)
(* The rest of the type invariant.                                         *)
(***************************************************************************)
PcOK ==
    /\ \A w \in Workers : worker[w].pc \in {"idle", "unpack", "post", "schedule"}
    /\ throttle \in BOOLEAN
    /\ listener.pc \in {"idle", "add", "loop", "dead"}

LEMMA InitPc == Init => PcOK
<1> SUFFICES ASSUME Init PROVE PcOK
    OBVIOUS
<1>1. \A w \in Workers : worker[w].pc = "idle"
    BY DEF Init, IdleWorker
<1>2. listener.pc = "idle"
    BY DEF Init, IdleListener
<1>3. throttle \in BOOLEAN
    BY DEF Init
<1> QED
    BY <1>1, <1>2, <1>3 DEF PcOK

LEMMA NextPc == CallsOK /\ QueuedInv /\ PcOK /\ [Next]_vars => PcOK'
<1> SUFFICES ASSUME CallsOK, QueuedInv, PcOK, [Next]_vars PROVE PcOK'
    OBVIOUS
<1> USE DEF PcOK
<1>1. ASSUME NEW fw \in Uploaded, Upload(fw) PROVE PcOK'
    BY <1>1 DEF Upload
<1>2. ASSUME NEW w \in Workers, Take(w) PROVE PcOK'
    BY <1>2, TakeMoves DEF Take
<1>3. ASSUME NEW w \in Workers, Unpack(w) \/ ExtractionFails(w) PROVE PcOK'
    BY <1>3, UnpackMoves DEF Unpack, ExtractionFails
<1>4. ASSUME NEW w \in Workers, UnpackFails(w) \/ Return(w) PROVE PcOK'
    BY <1>4, ReturnMoves DEF UnpackFails, Return
<1>5. ASSUME NEW w \in Workers, PostUnpack(w) PROVE PcOK'
    BY <1>5, PostUnpackMoves DEF PostUnpack
<1>6. ASSUME NEW w \in Workers, ScheduleExtracted(w) PROVE PcOK'
    BY <1>6, ScheduleMoves DEF ScheduleExtracted
<1>7. CASE Monitor
    BY <1>7 DEF Monitor
<1>8. ASSUME NEW fo \in BagToSet(analyzing), EndAnalysis(fo) PROVE PcOK'
    BY <1>8 DEF EndAnalysis
<1>9. ASSUME NEW fw \in Updated, BeginUpdate(fw) PROVE PcOK'
    BY <1>9 DEF BeginUpdate
<1>10. CASE EndAdd
    BY <1>10 DEF EndAdd
<1>11. CASE ListenerDies
    BY <1>11 DEF ListenerDies
<1>12. CASE UpdateNext
    BY <1>12 DEF UpdateNext, IdleListener
<1>13. ASSUME NEW u \in Single, UpdateSingle(u) PROVE PcOK'
    BY <1>13 DEF UpdateSingle
<1>14. CASE UNCHANGED vars
    BY <1>14 DEF vars
<1> QED
    BY <1>1, <1>2, <1>3, <1>4, <1>5, <1>6, <1>7, <1>8, <1>9, <1>10, <1>11, <1>12,
       <1>13, <1>14 DEF Next, UnpackStep, ListenerStep

LEMMA TypesFollow == CallsOK /\ PcOK => TypeOK
    BY DEF CallsOK, PcOK, TypeOK, Busy

(***************************************************************************)
(* Everything in the queue and at the workers comes from an upload.        *)
(***************************************************************************)
LEMMA InitQueued == Init => QueuedInv /\ OnceInv /\ ListenerInv
<1> SUFFICES ASSUME Init PROVE QueuedInv /\ OnceInv /\ ListenerInv
    OBVIOUS
<1>1. queue = << >> /\ Len(queue) = 0 /\ listener.pc = "idle"
    BY DEF Init, IdleListener
<1>2. \A w \in Workers : worker[w].pc = "idle" /\ worker[w].left = {}
    BY DEF Init, IdleWorker
<1>3. InQueue = {} /\ \A w \in Workers : AtWorker(w) = {}
    BY <1>1, <1>2 DEF InQueue, AtWorker
<1> QED
    BY <1>1, <1>2, <1>3 DEF QueuedInv, OnceInv, ListenerInv, Waiting

LEMMA ImageFromUpload == \A fw \in Uploaded : FromUpload(Image(fw))
    BY LevelsBelow, RequestsAssumption, ContentsAssumption DEF FromUpload, Image, Fo

LEMMA NextQueued == CallsOK /\ QueuedInv /\ [Next]_vars => QueuedInv'
<1> SUFFICES ASSUME CallsOK, QueuedInv, [Next]_vars PROVE QueuedInv'
    OBVIOUS
<1>0. ASSUME UNCHANGED <<queue, worker>> PROVE QueuedInv'
    BY <1>0 DEF QueuedInv
<1>1. ASSUME NEW fw \in Uploaded, Upload(fw) PROVE QueuedInv'
    BY <1>1, UploadMoves, ImageFromUpload DEF QueuedInv
<1>2. ASSUME NEW w \in Workers, Take(w) PROVE QueuedInv'
    BY <1>2, TakeMoves DEF QueuedInv
<1>3. ASSUME NEW w \in Workers, Unpack(w) \/ ExtractionFails(w) PROVE QueuedInv'
    BY <1>3, UnpackMoves, FromUploadFacts DEF QueuedInv, Outcome
<1>4. ASSUME NEW w \in Workers, UnpackFails(w) \/ Return(w) PROVE QueuedInv'
    BY <1>4, ReturnMoves DEF QueuedInv
<1>5. ASSUME NEW w \in Workers, PostUnpack(w) PROVE QueuedInv'
    BY <1>5, PostUnpackMoves DEF QueuedInv
<1>6. ASSUME NEW w \in Workers, ScheduleExtracted(w) PROVE QueuedInv'
    BY <1>6, ScheduleMoves DEF QueuedInv
<1>7. CASE Monitor \/ EndAdd \/ ListenerDies \/ UpdateNext
    BY <1>0, <1>7 DEF Monitor, EndAdd, ListenerDies, UpdateNext
<1>8. ASSUME NEW fo \in BagToSet(analyzing), EndAnalysis(fo) PROVE QueuedInv'
    BY <1>0, <1>8 DEF EndAnalysis
<1>9. ASSUME NEW fw \in Updated, BeginUpdate(fw) PROVE QueuedInv'
    BY <1>0, <1>9 DEF BeginUpdate
<1>10. ASSUME NEW u \in Single, UpdateSingle(u) PROVE QueuedInv'
    BY <1>0, <1>10 DEF UpdateSingle
<1>11. CASE UNCHANGED vars
    BY <1>0, <1>11 DEF vars
<1> QED
    BY <1>1, <1>2, <1>3, <1>4, <1>5, <1>6, <1>7, <1>8, <1>9, <1>10, <1>11
    DEF Next, UnpackStep, ListenerStep

(***************************************************************************)
(* An image's own object is not extracted from anything, and there is one. *)
(***************************************************************************)
LEMMA NextOnce == CallsOK /\ QueuedInv /\ OnceInv /\ [Next]_vars => OnceInv'
<1> SUFFICES ASSUME CallsOK, QueuedInv, OnceInv, [Next]_vars,
                    NEW fw \in Uploaded
             PROVE  /\ <<"upload", fw>> \in requests' => Image(fw) \notin Waiting'
                    /\ \A i, j \in 1..Len(queue') :
                        queue'[i] = Image(fw) /\ queue'[j] = Image(fw) => i = j
                    /\ \A w \in Workers : Image(fw) \in AtWorker(w)' =>
                        /\ Image(fw) \notin InQueue'
                        /\ \A v \in Workers : Image(fw) \in AtWorker(v)' => v = w
    BY DEF OnceInv
<1> DEFINE Goal ==
        /\ <<"upload", fw>> \in requests' => Image(fw) \notin Waiting'
        /\ \A i, j \in 1..Len(queue') :
            queue'[i] = Image(fw) /\ queue'[j] = Image(fw) => i = j
        /\ \A w \in Workers : Image(fw) \in AtWorker(w)' =>
            /\ Image(fw) \notin InQueue'
            /\ \A v \in Workers : Image(fw) \in AtWorker(v)' => v = w
<1>a. /\ <<"upload", fw>> \in requests => Image(fw) \notin Waiting
      /\ \A i, j \in 1..Len(queue) :
          queue[i] = Image(fw) /\ queue[j] = Image(fw) => i = j
      /\ \A w \in Workers : Image(fw) \in AtWorker(w) =>
          /\ Image(fw) \notin InQueue
          /\ \A v \in Workers : Image(fw) \in AtWorker(v) => v = w
    BY DEF OnceInv
<1>b. Image(fw).uid = fw /\ fw \in Firmware
    BY RequestsAssumption DEF Image, Fo
<1>0. ASSUME UNCHANGED <<queue, worker>>, requests' \subseteq requests PROVE Goal
  <2>1. InQueue' = InQueue /\ Waiting' = Waiting /\ queue' = queue
    BY <1>0, NothingWaits
  <2>2. \A w \in Workers : AtWorker(w)' = AtWorker(w)
    BY <1>0, NothingWaits
  <2> QED
    BY <1>0, <1>a, <2>1, <2>2
<1>1. ASSUME NEW g \in Uploaded, Upload(g) PROVE Goal
  <2>1. requests' = requests \ {<<"upload", g>>} /\ <<"upload", g>> \in requests
    BY <1>1 DEF Upload
  <2>2. /\ InQueue' = InQueue \cup {Image(g)} /\ Waiting' = Waiting \cup {Image(g)}
        /\ \A i \in 1..Len(queue') :
                \/ i \in 1..Len(queue) /\ queue'[i] = queue[i]
                \/ i = Len(queue) + 1 /\ queue'[i] = Image(g)
    BY <1>1, UploadMoves
  <2>3. \A w \in Workers : AtWorker(w)' = AtWorker(w)
    BY <1>1, UploadMoves DEF AtWorker
  <2>4. CASE g = fw
    <3>1. Image(fw) \notin Waiting /\ <<"upload", fw>> \notin requests'
      BY <1>a, <2>1, <2>4
    <3>2. /\ \A i \in 1..Len(queue) : queue[i] # Image(fw)
          /\ \A w \in Workers : Image(fw) \notin AtWorker(w)
      BY <3>1 DEF Waiting, InQueue
    <3>3. \A i, j \in 1..Len(queue') :
            queue'[i] = Image(fw) /\ queue'[j] = Image(fw) => i = j
      BY <2>2, <3>2
    <3> QED
      BY <2>3, <3>1, <3>2, <3>3
  <2>5. CASE g # fw
    <3>1. Image(g) # Image(fw)
      BY <2>5 DEF Image, Fo
    <3>2. \A i, j \in 1..Len(queue') :
            queue'[i] = Image(fw) /\ queue'[j] = Image(fw) => i = j
      BY <1>a, <2>2, <3>1
    <3>3. <<"upload", fw>> \in requests' => <<"upload", fw>> \in requests
      BY <2>1
    <3> QED
      BY <1>a, <2>2, <2>3, <3>1, <3>2, <3>3
  <2> QED
    BY <2>4, <2>5
<1>2. ASSUME NEW w \in Workers, Take(w) PROVE Goal
  <2>1. /\ Head(queue) = queue[1] /\ 1 \in 1..Len(queue) /\ Len(queue) \in Nat
        /\ \A i \in 1..Len(queue') :
                i + 1 \in 1..Len(queue) /\ queue'[i] = queue[i + 1]
        /\ InQueue' \subseteq InQueue /\ Waiting' \subseteq Waiting
        /\ AtWorker(w)' = {Head(queue)}
    BY <1>2, TakeMoves DEF CallsOK
  <2>2. \A v \in Workers : v # w => AtWorker(v)' = AtWorker(v)
    BY <1>2, TakeMoves DEF AtWorker
  <2>3. requests' = requests
    BY <1>2 DEF Take
  <2>4. \A i, j \in 1..Len(queue') :
            queue'[i] = Image(fw) /\ queue'[j] = Image(fw) => i = j
    <3> SUFFICES ASSUME NEW i \in 1..Len(queue'), NEW j \in 1..Len(queue'),
                        queue'[i] = Image(fw), queue'[j] = Image(fw)
                 PROVE  i = j
      OBVIOUS
    <3>1. i + 1 = j + 1
      BY <1>a, <2>1
    <3> QED
      BY <3>1
  <2>5. CASE Head(queue) = Image(fw)
    <3>1. \A v \in Workers : Image(fw) \notin AtWorker(v)
      BY <1>a, <2>1, <2>5 DEF InQueue
    <3>2. \A i \in 1..Len(queue') : queue'[i] # Image(fw)
      <4> SUFFICES ASSUME NEW i \in 1..Len(queue'), queue'[i] = Image(fw) PROVE FALSE
        OBVIOUS
      <4>1. i + 1 = 1
        BY <1>a, <2>1, <2>5
      <4> QED
        BY <4>1
    <3>3. Image(fw) \notin InQueue'
      BY <3>2 DEF InQueue
    <3> QED
      BY <1>a, <2>1, <2>2, <2>3, <2>4, <3>1, <3>3
  <2>6. CASE Head(queue) # Image(fw)
    BY <1>a, <2>1, <2>2, <2>3, <2>4, <2>6
  <2> QED
    BY <2>5, <2>6
<1>3. ASSUME NEW w \in Workers, Unpack(w) \/ ExtractionFails(w) PROVE Goal
  <2>1. /\ InQueue' = InQueue /\ Waiting' = Waiting /\ queue' = queue
        /\ \A v \in Workers : AtWorker(v)' = AtWorker(v)
    BY <1>3, UnpackMoves
  <2>2. requests' = requests
    BY <1>3 DEF Unpack, ExtractionFails
  <2> QED
    BY <1>a, <2>1, <2>2
<1>4. ASSUME NEW w \in Workers, UnpackFails(w) \/ Return(w) PROVE Goal
  <2>1. /\ InQueue' = InQueue /\ Waiting' \subseteq Waiting /\ queue' = queue
        /\ AtWorker(w)' = {}
    BY <1>4, ReturnMoves
  <2>2. \A v \in Workers : v # w => AtWorker(v)' = AtWorker(v)
    BY <1>4, ReturnMoves DEF AtWorker
  <2>3. requests' = requests
    BY <1>4 DEF UnpackFails, Return
  <2> QED
    BY <1>a, <2>1, <2>2, <2>3
<1>5. ASSUME NEW w \in Workers, PostUnpack(w) PROVE Goal
  <2>1. /\ InQueue' = InQueue /\ queue' = queue
        /\ Waiting' \subseteq Waiting \cup worker[w].left
        /\ AtWorker(w)' = worker[w].left
        /\ \A v \in Workers : v # w => AtWorker(v)' = AtWorker(v)
    BY <1>5, PostUnpackMoves
  <2>2. requests' = requests
    BY <1>5 DEF PostUnpack
  <2>3. \A g \in worker[w].left : g.uid \in Files
    BY DEF CallsOK, UidsOf
  <2>4. Image(fw) \notin worker[w].left
    BY <1>b, <2>3, FirmwareAssumption
  <2> QED
    BY <1>a, <2>1, <2>2, <2>4
<1>6. ASSUME NEW w \in Workers, ScheduleExtracted(w) PROVE Goal
  <2>1. PICK fo \in worker[w].left :
            /\ AtWorker(w)' = worker[w].left \ {fo}
            /\ \A v \in Workers : v # w => AtWorker(v)' = AtWorker(v)
            /\ \A i \in 1..Len(queue') :
                \/ i \in 1..Len(queue) /\ queue'[i] = queue[i]
                \/ i = Len(queue) + 1 /\ queue'[i] = fo
            /\ InQueue' = InQueue \cup {fo} /\ Waiting' \subseteq Waiting
    BY <1>6, ScheduleMoves
  <2>2. requests' = requests
    BY <1>6 DEF ScheduleExtracted
  <2>3. \A g \in worker[w].left : g.uid \in Files
    BY DEF CallsOK, UidsOf
  <2>4. Image(fw) \notin worker[w].left /\ Image(fw) # fo
    BY <1>b, <2>3, FirmwareAssumption
  <2>5. \A i, j \in 1..Len(queue') :
            queue'[i] = Image(fw) /\ queue'[j] = Image(fw) => i = j
    BY <1>a, <2>1, <2>4
  <2> QED
    BY <1>a, <2>1, <2>2, <2>4, <2>5
<1>7. ASSUME Monitor \/ EndAdd \/ ListenerDies \/ UpdateNext PROVE Goal
    BY <1>0, <1>7 DEF Monitor, EndAdd, ListenerDies, UpdateNext
<1>8. ASSUME NEW fo \in BagToSet(analyzing), EndAnalysis(fo) PROVE Goal
    BY <1>0, <1>8 DEF EndAnalysis
<1>9. ASSUME NEW g \in Updated, BeginUpdate(g) PROVE Goal
    BY <1>0, <1>9 DEF BeginUpdate
<1>10. ASSUME NEW u \in Single, UpdateSingle(u) PROVE Goal
    BY <1>0, <1>10 DEF UpdateSingle
<1>11. ASSUME UNCHANGED vars PROVE Goal
    BY <1>0, <1>11 DEF vars
<1> HIDE DEF Goal
<1>12. Goal
    BY <1>1, <1>2, <1>3, <1>4, <1>5, <1>6, <1>7, <1>8, <1>9, <1>10, <1>11
    DEF Next, UnpackStep, ListenerStep
<1> QED
    BY <1>12 DEF Goal

LEMMA NextListener == ListenerInv /\ [Next]_vars => ListenerInv'
<1> SUFFICES ASSUME ListenerInv, [Next]_vars PROVE ListenerInv'
    OBVIOUS
<1>0. ASSUME UNCHANGED listener, requests' \subseteq requests PROVE ListenerInv'
    BY <1>0 DEF ListenerInv
<1>1. ASSUME NEW fw \in Uploaded, Upload(fw) PROVE ListenerInv'
    BY <1>0, <1>1 DEF Upload
<1>2. ASSUME NEW w \in Workers, Take(w) \/ UnpackStep(w) \/ ScheduleExtracted(w)
      PROVE  ListenerInv'
    BY <1>0, <1>2
    DEF Take, UnpackStep, ScheduleExtracted, Unpack, ExtractionFails, UnpackFails, PostUnpack,
        Return
<1>3. ASSUME NEW fo \in BagToSet(analyzing), EndAnalysis(fo) PROVE ListenerInv'
    BY <1>0, <1>3 DEF EndAnalysis
<1>4. ASSUME NEW fw \in Updated, BeginUpdate(fw) PROVE ListenerInv'
  <2>1. listener'.fw = fw /\ requests' = requests \ {<<"update", fw>>}
    BY <1>4 DEF BeginUpdate
  <2> QED
    BY <2>1 DEF ListenerInv
<1>5. ASSUME NEW u \in Single, UpdateSingle(u) PROVE ListenerInv'
    BY <1>0, <1>5 DEF UpdateSingle
<1>6. CASE EndAdd
  <2>1. /\ listener' = [listener EXCEPT !.pc = "loop"] /\ listener.pc = "add"
        /\ requests' = requests
    BY <1>6 DEF EndAdd
  <2>2. listener'.fw = listener.fw
    BY <2>1
  <2> QED
    BY <2>1, <2>2 DEF ListenerInv
<1>7. CASE ListenerDies
    BY <1>7 DEF ListenerDies, ListenerInv
<1>8. CASE UpdateNext
  <2>1. /\ requests' = requests /\ listener.pc = "loop"
        /\ \/ listener' = IdleListener
           \/ \E u : listener' = [listener EXCEPT !.left = @ \ {u}]
    BY <1>8 DEF UpdateNext
  <2>2. CASE listener' = IdleListener
    BY <2>2 DEF ListenerInv, IdleListener
  <2>3. CASE \E u : listener' = [listener EXCEPT !.left = @ \ {u}]
    BY <2>1, <2>3 DEF ListenerInv
  <2> QED
    BY <2>1, <2>2, <2>3
<1>9. CASE Monitor
    BY <1>0, <1>9 DEF Monitor
<1>10. CASE UNCHANGED vars
    BY <1>0, <1>10 DEF vars
<1> QED
    BY <1>1, <1>2, <1>3, <1>4, <1>5, <1>6, <1>7, <1>8, <1>9, <1>10 DEF Next, ListenerStep

\* A set that has the image and the content of all it has that can be read,
\* has all that comes out of the image.
LEMMA LevelsInside ==
    ASSUME NEW fw \in Firmware, NEW S, fw \in S,
           \A p \in S \ Unreadable : Contents[p] \subseteq S
    PROVE  Reached(fw) \subseteq S
<1> SUFFICES ASSUME ~ (Reached(fw) \subseteq S) PROVE FALSE
    OBVIOUS
<1> USE ContentsAssumption
<1> DEFINE Good(n) == {c \in Chains(fw, n) : \A i \in 1..n : c[i - 1] \notin Unreadable}
           T == {n \in 0..MaxDepth : \E c \in Good(n) : c[n] \notin S}
           R == OpToRel(<, Nat)
<1>1. T \subseteq Nat /\ T # {}
    BY DEF Reached
<1>2. IsWellFoundedOn(R, Nat)
    BY NatLessThanWellFounded
<1>3. \A i, j \in Nat : <<i, j>> \in R <=> i < j
    BY DEF OpToRel
<1> HIDE DEF R
<1>4. PICK n \in T : \A m \in T : <<m, n>> \notin R
  <2> HIDE DEF T
  <2> QED
    BY <1>1, <1>2, WFMin
<1>5. n \in 0..MaxDepth /\ n \in Nat /\ \A m \in T : ~ (m < n)
  <2>1. n \in 0..MaxDepth /\ n \in Nat
    OBVIOUS
  <2>2. \A m \in T : m \in Nat /\ <<m, n>> \notin R
    BY <1>1, <1>4
  <2> HIDE DEF T
  <2> QED
    BY <1>3, <2>1, <2>2
<1>6. PICK c \in Good(n) : c[n] \notin S
    OBVIOUS
<1>7. n # 0
    BY <1>6 DEF Chains
<1>8. n - 1 \in 0..MaxDepth /\ n - 1 < n /\ n \in 1..n
    BY <1>5, <1>7
<1> DEFINE d == [i \in 0..(n - 1) |-> c[i]]
<1>9. d \in Good(n - 1)
  <2>1. d \in [0..(n - 1) -> Uids] /\ d[0] = fw
    BY <1>5, <1>7 DEF Chains
  <2>2. \A i \in 1..(n - 1) : /\ d[i] = c[i] /\ d[i - 1] = c[i - 1]
                              /\ i \in 1..n
    BY <1>5
  <2>3. \A i \in 1..(n - 1) : /\ d[i] \in Contents[d[i - 1]] \ {d[i - 1]}
                              /\ d[i - 1] \notin Unreadable
    BY <2>2 DEF Chains
  <2> QED
    BY <2>1, <2>3 DEF Chains
<1>10. c[n - 1] \in S
  <2>1. d[n - 1] = c[n - 1]
    BY <1>5, <1>7
  <2>2. n - 1 \notin T
    BY <1>5, <1>8
  <2>3. \A b \in Good(n - 1) : b[n - 1] \in S
    BY <1>8, <2>2
  <2> HIDE DEF d
  <2> QED
    BY <1>9, <2>1, <2>3
<1>11. c[n] \in Contents[c[n - 1]] /\ c[n - 1] \notin Unreadable
    BY <1>8 DEF Chains
<1> QED
    BY <1>6, <1>10, <1>11

\* The object of an upload that is an image is the image's own.
LEMMA ImagesAreOwn ==
    ASSUME NEW fo \in Objects, FromUpload(fo), fo.uid \in Firmware
    PROVE  fo = Image(fo.uid) /\ fo.roots = {fo.uid} /\ fo.uid \in Uploaded
<1>1. fo.roots = {fo.uid} /\ fo.kind = "upload"
    BY DEF FromUpload, Objects
<1>2. fo.depth = 0 /\ fo.uid \in Uploaded
    BY <1>1, FromUploadFacts
<1>3. fo \in [uid : Uids, roots : SUBSET Firmware, depth : Nat,
               kind : {"upload", "update", "single"}]
    BY DEF Objects
<1>4. fo = [uid |-> fo.uid, roots |-> fo.roots, depth |-> fo.depth, kind |-> fo.kind]
    BY <1>3
<1> QED
    BY <1>1, <1>2, <1>4 DEF Image, Fo

\* The bag when an object enters or leaves the analysis.
LEMMA AnalyzingMoves ==
    ASSUME NEW fo, NEW fw
    PROVE  /\ IntoAnalysis(fo) =>
                Analyzing(fw)' = Analyzing(fw) \cup {g \in {fo} : fw \in g.roots}
           /\ analyzing' = analyzing (-) SetToBag({fo}) =>
                Analyzing(fw)' \subseteq Analyzing(fw)
<1>1. IntoAnalysis(fo) => BagToSet(analyzing') = BagToSet(analyzing) \cup {fo}
    BY BagAfter
<1>2. analyzing' = analyzing (-) SetToBag({fo}) =>
        BagToSet(analyzing') \subseteq BagToSet(analyzing)
    BY BagAfter
<1> QED
    BY <1>1, <1>2 DEF Analyzing

LEMMA RequestsShrink == [Next]_vars => requests' \subseteq requests
    BY DEF Next, Upload, Take, UnpackStep, Unpack, ExtractionFails, UnpackFails, PostUnpack,
       Return, ScheduleExtracted, Monitor, EndAnalysis, BeginUpdate, ListenerStep, EndAdd,
       ListenerDies, UpdateNext, UpdateSingle, vars

\* A step that is not about an image.
Untouched(fw) ==
    /\ requests' \subseteq requests
    /\ fw \in running'.active <=> fw \in running.active
    /\ running'.entry[fw] = running.entry[fw]
    /\ fw \in finished' <=> fw \in finished
    /\ Ended(fw)' = Ended(fw)
    /\ Analyzing(fw)' \subseteq Analyzing(fw)
    /\ \A fo \in Waiting' : fw \in fo.roots => fo \in Waiting

LEMMA UntouchedKeeps ==
    ASSUME NEW fw \in Firmware, ImageInv(fw), Untouched(fw)
    PROVE  ImageInv(fw)'
<1> SUFFICES ASSUME NoUpdateYet(fw)', NotCutOff(fw)'
             PROVE  /\ \A fo \in Analyzing(fw)' : FromUpload(fo)
                    /\ Ended(fw)' \subseteq Included(fw)
                    /\ NotAnalyzed(fw)' \/ UnderAnalysis(fw)'
    BY DEF ImageInv
<1>1. NoUpdateYet(fw) /\ NotCutOff(fw)
    BY DEF NoUpdateYet, Untouched, NotCutOff
<1>2. /\ \A fo \in Analyzing(fw) : FromUpload(fo)
      /\ Ended(fw) \subseteq Included(fw)
      /\ NotAnalyzed(fw) \/ UnderAnalysis(fw)
    BY <1>1 DEF ImageInv
<1>3. fw \in Image(fw).roots
    BY DEF Image, Fo
<1>4. NotAnalyzed(fw) => NotAnalyzed(fw)'
    BY DEF NotAnalyzed, Untouched
<1>5. Known(fw)' = Known(fw) /\ Passed(fw)' \subseteq Passed(fw)
    BY DEF Known, Passed, Untouched, UidsOf
<1>6. UnderAnalysis(fw) => UnderAnalysis(fw)'
    BY <1>3, <1>5 DEF UnderAnalysis, Untouched
<1> QED
    BY <1>2, <1>4, <1>6 DEF Untouched

LEMMA UploadKeeps ==
    ASSUME NEW fw \in Firmware, ImageInv(fw), CallsOK, NEW g \in Uploaded, Upload(g)
    PROVE  ImageInv(fw)'
<1>1. /\ UNCHANGED <<statusVars, analyzing, ended>>
      /\ requests' = requests \ {<<"upload", g>>} /\ <<"upload", g>> \in requests
    BY DEF Upload
<1>2. Waiting' = Waiting \cup {Image(g)} /\ Image(g).roots = {g}
    BY UploadMoves DEF Image, Fo
<1>3. UNCHANGED <<running, finished>> /\ Ended(fw)' = Ended(fw) /\ Analyzing(fw)' = Analyzing(fw)
    BY <1>1 DEF statusVars, Ended, Analyzing
<1>4. CASE g # fw
    BY <1>1, <1>2, <1>3, <1>4, UntouchedKeeps DEF Untouched
<1>5. CASE g = fw
  <2>1. ~ UnderAnalysis(fw)
    BY <1>1, <1>5 DEF UnderAnalysis
  <2>2. NotAnalyzed(fw) => NotAnalyzed(fw)'
    BY <1>2, <1>3, <1>5 DEF NotAnalyzed
  <2>3. NoUpdateYet(fw)' => NoUpdateYet(fw)
    BY <1>1 DEF NoUpdateYet
  <2>4. NotCutOff(fw)' = NotCutOff(fw)
    BY DEF NotCutOff
  <2> QED
    BY <1>3, <2>1, <2>2, <2>3, <2>4 DEF ImageInv
<1> QED
    BY <1>4, <1>5

\* The steps of a worker that leave the analysis status alone.
LEMMA WorkerKeeps ==
    ASSUME NEW fw \in Firmware, ImageInv(fw), CallsOK, QueuedInv, NEW w \in Workers,
           \/ Take(w) \/ Unpack(w) \/ ExtractionFails(w) \/ UnpackFails(w)
           \/ Return(w) \/ ScheduleExtracted(w)
    PROVE  ImageInv(fw)'
<1>1. UNCHANGED <<statusVars, analyzing, ended, requests>>
    BY DEF Take, Unpack, ExtractionFails, UnpackFails, Return, ScheduleExtracted
<1>2. Waiting' \subseteq Waiting
    BY TakeMoves, UnpackMoves, ReturnMoves, ScheduleMoves
<1>3. UNCHANGED <<running, finished>> /\ Ended(fw)' = Ended(fw) /\ Analyzing(fw)' = Analyzing(fw)
    BY <1>1 DEF statusVars, Ended, Analyzing
<1> QED
    BY <1>1, <1>2, <1>3, UntouchedKeeps DEF Untouched

\* An image or a file of it comes to the analysis.
LEMMA AddFirmwareFacts ==
    ASSUME StatusTypeOK, NEW fw \in Firmware, NEW included, AddFirmware(fw, included)
    PROVE  /\ running'.active = running.active \cup {fw}
           /\ running'.entry[fw] = InitProgress(fw, included)
           /\ \A g \in Firmware : g # fw => running'.entry[g] = running.entry[g]
           /\ finished' = finished
    BY DEF StatusTypeOK, AddFirmware

LEMMA AddFileFacts ==
    ASSUME StatusTypeOK, NEW fw \in Firmware, NEW u, NEW included,
           AddFile(u, {fw}, included)
    PROVE  /\ running'.active = running.active
           /\ running'.entry[fw] = IF fw \in running.active
                                   THEN AfterUnpacking(running.entry[fw], u, included)
                                   ELSE running.entry[fw]
           /\ \A g \in Firmware : g # fw => running'.entry[g] = running.entry[g]
           /\ finished' = finished
    BY DEF StatusTypeOK, AddFile, Tracked

LEMMA AfterUnpackingLists ==
    ASSUME NEW e \in Progress, NEW u \in Uids, NEW included \in SUBSET Files,
           u \notin included
    PROVE  LET f == AfterUnpacking(e, u, included) IN
           /\ f.toUnpack \cup f.toAnalyze = e.toUnpack \cup e.toAnalyze \cup included
           /\ e.toAnalyze \subseteq f.toAnalyze
           /\ f.toAnalyze \subseteq e.toAnalyze \cup {u}
<1> DEFINE new == included \ (e.toUnpack \cup e.toAnalyze)
           toUnpack == e.toUnpack \cup new
           moved == IF u \in toUnpack THEN {u} ELSE {}
           f == AfterUnpacking(e, u, included)
<1>1. f = [e EXCEPT !.total = @ + Cardinality(new), !.toUnpack = toUnpack \ moved,
                    !.toAnalyze = @ \cup moved, !.unpacked = @ + Cardinality(moved)]
    BY DEF AfterUnpacking
<1> HIDE DEF f
<1>2. f.toUnpack = toUnpack \ moved /\ f.toAnalyze = e.toAnalyze \cup moved
  <2> HIDE DEF new, toUnpack, moved
  <2> QED
    BY <1>1 DEF Progress
<1>3. moved \subseteq {u} /\ moved \subseteq toUnpack
    OBVIOUS
<1> QED
    BY <1>2, <1>3 DEF f

LEMMA PostUnpackKeeps ==
    ASSUME NEW fw \in Firmware, ImageInv(fw), StatusTypeOK, CallsOK, QueuedInv, OnceInv,
           NEW w \in Workers, PostUnpack(w)
    PROVE  ImageInv(fw)'
<1> DEFINE fo == worker[w].fo
           left == worker[w].left
           included == UidsOf(left)
<1>1. /\ worker[w].pc = "post" /\ fo \in Objects /\ FromUpload(fo) /\ fo \in Waiting
      /\ Waiting' \subseteq Waiting \cup left /\ AtWorker(w) = {fo}
      /\ Outcome(fo, left) /\ left \subseteq Extracted(fo)
    BY PostUnpackMoves DEF CallsOK, QueuedInv, Busy, Outcome
<1>2. PICK g \in Uploaded : fo.roots = {g}
    BY <1>1 DEF FromUpload
<1>3. /\ AddToCurrentAnalyses(fo, included) /\ IntoAnalysis(fo)
      /\ UNCHANGED <<requests, ended>>
    BY <1>1 DEF PostUnpack
<1>4. /\ \A h \in left : FromUpload(h) /\ h.uid \in Files /\ h.roots = {g}
      /\ g \in Firmware /\ fo.uid \in Uids
      /\ fo.uid \in Firmware => fo.uid = g
      /\ NotCutOff(g) /\ fo.uid \notin Unreadable => included = Contents[fo.uid] \ {fo.uid}
    BY <1>1, <1>2, FromUploadFacts, RequestsAssumption DEF Outcome
<1>5. included \in SUBSET Files /\ fo.uid \notin included
  <2>1. included \in SUBSET Files
    BY <1>4 DEF UidsOf
  <2>2. \A h \in left : h.uid # fo.uid
    BY <1>1 DEF Extracted, Fo
  <2> QED
    BY <2>1, <2>2 DEF UidsOf
<1>6. Analyzing(fw)' = Analyzing(fw) \cup {h \in {fo} : fw \in h.roots}
    BY <1>3, AnalyzingMoves
<1>7. Ended(fw)' = Ended(fw)
    BY <1>3 DEF Ended
<1>8. fo.uid \in Firmware => AddFirmware(g, included)
    BY <1>3, <1>4 DEF AddToCurrentAnalyses
<1>9. fo.uid \notin Firmware => AddFile(fo.uid, {g}, included)
    BY <1>2, <1>3 DEF AddToCurrentAnalyses
<1> HIDE DEF fo, included, left
<1>10. CASE fw # g
  <2>1. /\ fw \in running'.active <=> fw \in running.active
        /\ running'.entry[fw] = running.entry[fw] /\ finished' = finished
    BY <1>4, <1>8, <1>9, <1>10, AddFirmwareFacts, AddFileFacts
  <2>2. Analyzing(fw)' = Analyzing(fw)
    BY <1>2, <1>6, <1>10
  <2>3. \A h \in Waiting' : fw \in h.roots => h \in Waiting
    BY <1>1, <1>4, <1>10
  <2> QED
    BY <1>3, <1>7, <2>1, <2>2, <2>3, UntouchedKeeps DEF Untouched
<1>11. ASSUME fw = g, NoUpdateYet(fw)', NotCutOff(fw)'
       PROVE  /\ \A h \in Analyzing(fw)' : FromUpload(h)
              /\ Ended(fw)' \subseteq Included(fw)
              /\ UnderAnalysis(fw)'
  <2>1. NoUpdateYet(fw) /\ NotCutOff(fw)
    BY <1>3, <1>11 DEF NoUpdateYet, NotCutOff
  <2>2. /\ \A h \in Analyzing(fw) : FromUpload(h)
        /\ Ended(fw) \subseteq Included(fw)
        /\ NotAnalyzed(fw) \/ UnderAnalysis(fw)
    BY <2>1 DEF ImageInv
  <2>3. Analyzing(fw)' = Analyzing(fw) \cup {fo}
    BY <1>2, <1>6, <1>11
  <2>4. UidsOf(Analyzing(fw)') = UidsOf(Analyzing(fw)) \cup {fo.uid}
    BY <2>3 DEF UidsOf
  <2>5. fo.uid \notin Unreadable => included = Contents[fo.uid] \ {fo.uid}
    BY <1>4, <1>11, <2>1
  <2>6. Image(fw).uid = fw /\ fw \notin Files
    BY <1>4, <1>11, FirmwareAssumption DEF Image, Fo
  <2>7. CASE fo.uid \in Firmware
    <3>1. fo = Image(fw) /\ fo.uid = fw /\ fw \in Uploaded
      BY <1>1, <1>4, <1>11, <2>7, ImagesAreOwn
    <3>2. NotAnalyzed(fw)
      BY <1>1, <2>2, <3>1 DEF UnderAnalysis
    <3>3. /\ running'.active = running.active \cup {fw} /\ finished' = finished
          /\ running'.entry[fw] = InitProgress(fw, included)
      BY <1>4, <1>8, <1>11, <2>7, AddFirmwareFacts
    <3>4. running'.entry[fw].toUnpack = included /\ running'.entry[fw].toAnalyze = {fw}
      BY <3>3 DEF InitProgress
    <3>5. Ended(fw) = {} /\ Analyzing(fw) = {} /\ fw \notin finished
      BY <3>2 DEF NotAnalyzed
    <3>6. Known(fw)' = {fw} \cup included /\ Passed(fw)' = {fw}
      <4>1. UidsOf({}) = {}
        BY DEF UidsOf
      <4> QED
        BY <1>7, <2>4, <3>1, <3>4, <3>5, <4>1 DEF Known, Passed
    <3>7. <<"upload", fw>> \notin requests'
      BY <1>1, <1>3, <3>1 DEF OnceInv
    <3>8. Image(fw) \notin Waiting'
      <4>1. Image(fw) \notin InQueue /\ \A v \in Workers : Image(fw) \in AtWorker(v) => v = w
        BY <1>1, <3>1 DEF OnceInv
      <4>2. /\ InQueue' = InQueue /\ AtWorker(w)' = left
            /\ \A v \in Workers : v # w => AtWorker(v)' = AtWorker(v)
        BY PostUnpackMoves DEF left
      <4>3. Image(fw) \notin left
        BY <1>4, <2>6
      <4> QED
        BY <4>1, <4>2, <4>3 DEF Waiting
    <3>9. UnderAnalysis(fw)'
      BY <2>5, <3>1, <3>3, <3>4, <3>5, <3>6, <3>7, <3>8 DEF UnderAnalysis
    <3> QED
      BY <1>1, <1>7, <2>2, <2>3, <3>9
  <2>8. CASE fo.uid \notin Firmware
    <3>1. UnderAnalysis(fw)
      <4>1. fo # Image(fw)
        BY <1>4, <1>11, <2>6, <2>8
      <4> QED
        BY <1>1, <1>2, <1>11, <2>2, <4>1 DEF NotAnalyzed
    <3>2. /\ running'.active = running.active /\ finished' = finished
          /\ running'.entry[fw] = IF fw \in running.active
                                  THEN AfterUnpacking(running.entry[fw], fo.uid, included)
                                  ELSE running.entry[fw]
      BY <1>4, <1>9, <1>11, <2>8, AddFileFacts
    <3>3. Image(fw) \notin Waiting' /\ <<"upload", fw>> \notin requests'
      BY <1>1, <1>3, <1>4, <2>6, <3>1 DEF UnderAnalysis
    <3>4. ASSUME fw \in running.active
          PROVE  /\ fw \in running'.entry[fw].toAnalyze \cup Ended(fw)'
                 /\ \A p \in Passed(fw)' \ Unreadable : Contents[p] \subseteq Known(fw)' \cup {p}
      <4> DEFINE e == running.entry[fw]
                 f == running'.entry[fw]
      <4>1. f = AfterUnpacking(e, fo.uid, included) /\ e \in Progress
        BY <3>2, <3>4 DEF StatusTypeOK
      <4>2. /\ f.toUnpack \cup f.toAnalyze = e.toUnpack \cup e.toAnalyze \cup included
            /\ e.toAnalyze \subseteq f.toAnalyze
            /\ f.toAnalyze \subseteq e.toAnalyze \cup {fo.uid}
        <5> HIDE DEF e, f
        <5> QED
          BY <1>4, <1>5, <4>1, AfterUnpackingLists
      <4>3. Known(fw)' = Known(fw) \cup included
        BY <1>7, <4>2 DEF Known
      <4>4. Passed(fw)' \subseteq Passed(fw) \cup {fo.uid}
        BY <1>7, <2>4, <4>2 DEF Passed
      <4>5. /\ fw \in e.toAnalyze \cup Ended(fw)
            /\ \A p \in Passed(fw) \ Unreadable : Contents[p] \subseteq Known(fw) \cup {p}
        BY <3>1, <3>4 DEF UnderAnalysis
      <4> QED
        BY <1>7, <2>5, <4>2, <4>3, <4>4, <4>5
    <3>5. UnderAnalysis(fw)'
      BY <1>7, <3>1, <3>2, <3>3, <3>4 DEF UnderAnalysis
    <3> QED
      BY <1>1, <1>7, <2>2, <2>3, <3>5
  <2> QED
    BY <2>7, <2>8
<1> QED
  <2>1. fw = g => ImageInv(fw)'
    BY <1>11 DEF ImageInv
  <2> QED
    BY <1>10, <2>1

\* What remove_from_current_analyses does to one image.
LEMMA RemoveFacts ==
    ASSUME StatusTypeOK, NEW u, NEW roots, Remove(u, roots), NEW fw \in Firmware
    PROVE  LET e == running.entry[fw]
               hit == fw \in running.active /\ fw \in roots /\ u \in e.toAnalyze
               done == hit /\ e.toUnpack = {} /\ e.toAnalyze \subseteq {u} IN
           /\ ~ hit => /\ fw \in running'.active <=> fw \in running.active
                       /\ running'.entry[fw] = e
                       /\ fw \in finished' <=> fw \in finished
           /\ hit /\ ~ done => /\ fw \in running'.active
                               /\ running'.entry[fw].toUnpack = e.toUnpack
                               /\ running'.entry[fw].toAnalyze = e.toAnalyze \ {u}
                               /\ fw \in finished' <=> fw \in finished
           /\ done => fw \notin running'.active /\ fw \in finished'
<1> DEFINE hits == {g \in Tracked(roots) : u \in running.entry[g].toAnalyze}
           entry == [g \in Firmware |-> IF g \in hits THEN AfterAnalysis(running.entry[g], u)
                                        ELSE running.entry[g]]
           ends == {g \in hits : Done(entry[g])}
<1>1. /\ running' = [active |-> running.active \ ends,
                     entry |-> [g \in Firmware |-> IF g \in ends THEN NoProgress ELSE entry[g]]]
      /\ finished' = finished \cup ends
    BY DEF Remove
<1>2. fw \in hits <=> fw \in running.active /\ fw \in roots /\ u \in running.entry[fw].toAnalyze
    BY DEF Tracked
<1>3. running.entry[fw] \in Progress
    BY DEF StatusTypeOK
<1>4. /\ AfterAnalysis(running.entry[fw], u).toUnpack = running.entry[fw].toUnpack
      /\ AfterAnalysis(running.entry[fw], u).toAnalyze = running.entry[fw].toAnalyze \ {u}
    BY <1>3 DEF AfterAnalysis, Progress
<1>5. entry[fw] = IF fw \in hits THEN AfterAnalysis(running.entry[fw], u) ELSE running.entry[fw]
    OBVIOUS
<1>6. fw \in ends <=> /\ fw \in hits /\ running.entry[fw].toUnpack = {}
                      /\ running.entry[fw].toAnalyze \subseteq {u}
  <2> HIDE DEF hits, entry
  <2> QED
    BY <1>4, <1>5 DEF Done
<1>7. /\ fw \in running'.active <=> fw \in running.active /\ fw \notin ends
      /\ fw \in finished' <=> fw \in finished \/ fw \in ends
      /\ fw \notin ends => running'.entry[fw] = entry[fw]
  <2> HIDE DEF hits, entry, ends
  <2> QED
    BY <1>1
<1> HIDE DEF hits, entry, ends
<1> QED
    BY <1>2, <1>4, <1>5, <1>6, <1>7

LEMMA EndAnalysisKeeps ==
    ASSUME NEW fw \in Firmware, ImageInv(fw), StatusTypeOK, CallsOK,
           NEW fo \in BagToSet(analyzing), EndAnalysis(fo)
    PROVE  ImageInv(fw)'
<1> DEFINE u == fo.uid
           e == running.entry[fw]
<1>1. /\ Remove(u, fo.roots) /\ analyzing' = analyzing (-) SetToBag({fo})
      /\ fo.kind = "upload" => ended' = ended \cup {<<g, u>> : g \in fo.roots}
      /\ fo.kind # "upload" => ended' = ended
      /\ UNCHANGED <<queue, worker, requests>>
    BY DEF EndAnalysis
<1>2. Analyzing(fw)' \subseteq Analyzing(fw)
    BY <1>1, AnalyzingMoves
<1>3. Waiting' = Waiting
    BY <1>1, NothingWaits
<1>4. fo \in Objects /\ u \in Uids
    BY DEF CallsOK, Objects
<1>5. CASE fw \notin fo.roots
  <2>1. /\ fw \in running'.active <=> fw \in running.active
        /\ running'.entry[fw] = running.entry[fw]
        /\ fw \in finished' <=> fw \in finished
    BY <1>1, <1>5, RemoveFacts
  <2>2. Ended(fw)' = Ended(fw)
    BY <1>1, <1>5 DEF Ended
  <2> QED
    BY <1>1, <1>2, <1>3, <2>1, <2>2, UntouchedKeeps DEF Untouched
<1>6. ASSUME fw \in fo.roots, NoUpdateYet(fw)', NotCutOff(fw)'
      PROVE  /\ \A h \in Analyzing(fw)' : FromUpload(h)
             /\ Ended(fw)' \subseteq Included(fw)
             /\ UnderAnalysis(fw)'
  <2>1. NoUpdateYet(fw) /\ NotCutOff(fw)
    BY <1>1, <1>6 DEF NoUpdateYet, NotCutOff
  <2>2. /\ \A h \in Analyzing(fw) : FromUpload(h)
        /\ Ended(fw) \subseteq Included(fw)
        /\ NotAnalyzed(fw) \/ UnderAnalysis(fw)
    BY <2>1 DEF ImageInv
  <2>3. fo \in Analyzing(fw) /\ u \in UidsOf(Analyzing(fw))
    BY <1>6 DEF Analyzing, UidsOf
  <2>4. UnderAnalysis(fw) /\ FromUpload(fo) /\ u \in Included(fw)
    BY <1>6, <2>2, <2>3, FromUploadFacts DEF NotAnalyzed
  <2>5. Ended(fw)' = Ended(fw) \cup {u}
    BY <1>1, <1>4, <1>6, <2>4 DEF Ended, FromUpload
  <2>6. UidsOf(Analyzing(fw)') \subseteq UidsOf(Analyzing(fw))
    BY <1>2 DEF UidsOf
  <2>7. Image(fw) \notin Waiting' /\ <<"upload", fw>> \notin requests'
    BY <1>1, <1>3, <2>4 DEF UnderAnalysis
  <2>8. CASE ~ (fw \in running.active /\ u \in e.toAnalyze)
    <3>1. /\ fw \in running'.active <=> fw \in running.active
          /\ running'.entry[fw] = e
          /\ fw \in finished' <=> fw \in finished
      BY <1>1, <1>6, <2>8, RemoveFacts
    <3>2. Known(fw) \subseteq Known(fw)' /\ Passed(fw)' \subseteq Passed(fw)
      BY <2>3, <2>5, <2>6, <3>1 DEF Known, Passed
    <3> QED
      BY <1>2, <2>2, <2>4, <2>5, <2>7, <3>1, <3>2 DEF UnderAnalysis
  <2>9. CASE fw \in running.active /\ u \in e.toAnalyze
    <3>1. /\ fw \notin finished /\ fw \in e.toAnalyze \cup Ended(fw)
          /\ \A p \in Passed(fw) \ Unreadable : Contents[p] \subseteq Known(fw) \cup {p}
      BY <2>4, <2>9 DEF UnderAnalysis
    <3>2. CASE e.toUnpack = {} /\ e.toAnalyze \subseteq {u}
      <4>1. fw \notin running'.active /\ fw \in finished'
        BY <1>1, <1>6, <2>9, <3>2, RemoveFacts
      <4>2. Known(fw) = Ended(fw)' /\ Ended(fw)' \subseteq Passed(fw) /\ fw \in Ended(fw)'
        BY <2>5, <2>9, <3>1, <3>2 DEF Known, Passed
      <4>3. \A p \in Ended(fw)' \ Unreadable : Contents[p] \subseteq Ended(fw)'
        BY <3>1, <4>2
      <4>4. Reached(fw) \subseteq Ended(fw)'
        BY <4>2, <4>3, LevelsInside
      <4> QED
        BY <1>2, <2>2, <2>4, <2>5, <2>7, <4>1, <4>4 DEF UnderAnalysis
    <3>3. CASE ~ (e.toUnpack = {} /\ e.toAnalyze \subseteq {u})
      <4>1. /\ fw \in running'.active /\ fw \notin finished'
            /\ running'.entry[fw].toUnpack = e.toUnpack
            /\ running'.entry[fw].toAnalyze = e.toAnalyze \ {u}
        BY <1>1, <1>6, <2>9, <3>1, <3>3, RemoveFacts
      <4>2. Known(fw)' = Known(fw) /\ Passed(fw)' \subseteq Passed(fw)
        BY <2>3, <2>5, <2>6, <2>9, <4>1 DEF Known, Passed
      <4> QED
        BY <1>2, <2>2, <2>4, <2>5, <2>7, <3>1, <4>1, <4>2 DEF UnderAnalysis
    <3> QED
      BY <3>2, <3>3
  <2> QED
    BY <2>8, <2>9
<1> QED
  <2>1. fw \in fo.roots => ImageInv(fw)'
    BY <1>6 DEF ImageInv
  <2> QED
    BY <1>5, <2>1

\* An image is below itself.
LEMMA ImageIncluded == \A fw \in Firmware : fw \in Included(fw)
    BY LevelsBelow, ContentsAssumption DEF Included

\* The images an object of an update has as roots know its file.
LEMMA RootsKnown ==
    ASSUME RootsInv, CallsOK, NEW u, NEW roots \in KnownRoots(u), NEW fw \in roots
    PROVE  u \in Included(fw) /\ fw \in Firmware
<1>1. fw \in Firmware /\ (<<fw, u>> \in ended \/ u \in OnTheWay(fw))
    BY DEF KnownRoots
<1>2. CASE <<fw, u>> \in ended
  <2>1. u \in Ended(fw)
    BY <1>2 DEF Ended, CallsOK
  <2> QED
    BY <1>1, <2>1 DEF RootsInv
<1>3. CASE u \in OnTheWay(fw)
  <2>1. PICK fo \in BagToSet(analyzing) : fw \in fo.roots /\ u = fo.uid
    BY <1>3 DEF OnTheWay
  <2> QED
    BY <1>1, <2>1 DEF RootsInv
<1> QED
    BY <1>1, <1>2, <1>3

\* What the object that is put into the analysis next by an update is.
LEMMA UpdateNextFacts ==
    ASSUME RootsInv, CallsOK, UpdateNext
    PROVE  \E u \in listener.left, roots \in SUBSET Firmware :
            /\ \A fw \in roots : u \in Included(fw)
            /\ IntoAnalysis(Fo(u, roots, 0, "update"))
<1>0. PICK u \in listener.left :
            \E roots \in IF u = listener.fw THEN {{u}} ELSE KnownRoots(u) :
                IntoAnalysis(Fo(u, roots, 0, "update"))
    BY DEF UpdateNext
<1>1. PICK roots \in IF u = listener.fw THEN {{u}} ELSE KnownRoots(u) :
            IntoAnalysis(Fo(u, roots, 0, "update"))
    BY <1>0
<1>2. CASE u = listener.fw
  <2>1. u \in Firmware /\ roots = {u}
    BY <1>1, <1>2 DEF UpdateNext, CallsOK
  <2> QED
    BY <1>1, <2>1, ImageIncluded
<1>3. CASE u # listener.fw
  <2>1. roots \in KnownRoots(u)
    BY <1>1, <1>3
  <2>2. roots \in SUBSET Firmware
    BY <2>1 DEF KnownRoots
  <2> QED
    BY <1>1, <2>1, <2>2, RootsKnown
<1> QED
    BY <1>2, <1>3

\* An update ends what is said of an image and of those it shares a file with;
\* for the others nothing changes.
LEMMA ListenerKeeps ==
    ASSUME NEW fw \in Firmware, ImageInv(fw), StatusTypeOK, CallsOK, ListenerInv, RootsInv,
           (\E g \in Updated : BeginUpdate(g)) \/ ListenerStep
    PROVE  ImageInv(fw)'
<1>a. ASSUME NEW g \in Updated, <<"update", g>> \notin requests',
             NEW u \in Included(g), u \in Included(fw)
      PROVE  ImageInv(fw)'
  <2>1. ~ NoUpdateYet(fw)'
    BY <1>a DEF NoUpdateYet
  <2> QED
    BY <2>1 DEF ImageInv
<1>b. ASSUME fw \in Updated, <<"update", fw>> \notin requests' PROVE ImageInv(fw)'
    BY <1>a, <1>b, ImageIncluded
<1>1. ASSUME NEW g \in Updated, BeginUpdate(g) PROVE ImageInv(fw)'
  <2>1. /\ requests' = requests \ {<<"update", g>>}
        /\ UNCHANGED <<queue, worker, analyzing, ended>>
    BY <1>1 DEF BeginUpdate
  <2>2. PICK included : BeginAddUpdate(g, included)
    BY <1>1 DEF BeginUpdate
  <2>3. CASE fw = g
    BY <1>b, <2>1, <2>3
  <2>4. CASE fw # g
    <3>1. /\ fw \in running'.active <=> fw \in running.active
          /\ running'.entry[fw] = running.entry[fw] /\ finished' = finished
      BY <2>2, <2>4, RequestsAssumption DEF BeginAddUpdate, StatusTypeOK
    <3>2. Waiting' = Waiting
      BY <2>1, NothingWaits
    <3>3. Ended(fw)' = Ended(fw) /\ Analyzing(fw)' = Analyzing(fw)
      BY <2>1 DEF Ended, Analyzing
    <3> QED
      BY <2>1, <3>1, <3>2, <3>3, UntouchedKeeps DEF Untouched
  <2> QED
    BY <2>3, <2>4
<1>2. ASSUME ListenerStep PROVE ImageInv(fw)'
  <2>1. /\ listener.pc \in {"add", "loop"} /\ requests' = requests
        /\ UNCHANGED <<queue, worker, ended>>
    BY <1>2 DEF ListenerStep, EndAdd, ListenerDies, UpdateNext
  <2>2. listener.fw \in Updated /\ <<"update", listener.fw>> \notin requests'
    BY <2>1 DEF ListenerInv
  <2>3. CASE fw = listener.fw
    BY <1>b, <2>2, <2>3
  <2>4. CASE fw # listener.fw
    <3> SUFFICES ASSUME ~ (\E u \in Included(listener.fw) : u \in Included(fw))
                 PROVE  ImageInv(fw)'
      BY <1>a, <2>2
    <3>1. /\ fw \in running'.active <=> fw \in running.active
          /\ running'.entry[fw] = running.entry[fw] /\ finished' = finished
      <4>1. CASE EndAdd
        BY <4>1, <2>4 DEF EndAdd, EndAddUpdate, StatusTypeOK
      <4>2. CASE ListenerDies
        BY <4>2 DEF ListenerDies, FailAddUpdate
      <4>3. CASE UpdateNext
        BY <4>3 DEF UpdateNext, statusVars
      <4> QED
        BY <1>2, <4>1, <4>2, <4>3 DEF ListenerStep
    <3>2. Waiting' = Waiting
      BY <2>1, NothingWaits
    <3>3. Ended(fw)' = Ended(fw)
      BY <2>1 DEF Ended
    <3>4. Analyzing(fw)' = Analyzing(fw)
      <4>1. CASE EndAdd \/ ListenerDies
        BY <4>1 DEF EndAdd, ListenerDies, Analyzing
      <4>2. CASE UpdateNext
        <5>1. PICK u \in listener.left, roots \in SUBSET Firmware :
                /\ \A g \in roots : u \in Included(g)
                /\ IntoAnalysis(Fo(u, roots, 0, "update"))
          BY <4>2, UpdateNextFacts
        <5>4. u \in Included(listener.fw)
          BY <2>1, <5>1 DEF RootsInv
        <5>2. PICK fo : IntoAnalysis(fo) /\ fw \notin fo.roots
          BY <5>1, <5>4 DEF Fo
        <5>3. Analyzing(fw)' = Analyzing(fw) \cup {h \in {fo} : fw \in h.roots}
          BY <5>2, AnalyzingMoves
        <5> QED
          BY <5>2, <5>3
      <4> QED
        BY <1>2, <4>1, <4>2 DEF ListenerStep
    <3> QED
      BY <2>1, <3>1, <3>2, <3>3, <3>4, UntouchedKeeps DEF Untouched
  <2> QED
    BY <2>3, <2>4
<1> QED
    BY <1>1, <1>2

LEMMA UpdateSingleKeeps ==
    ASSUME NEW fw \in Firmware, ImageInv(fw), CallsOK, RootsInv, NEW u \in Single, UpdateSingle(u)
    PROVE  ImageInv(fw)'
<1>1. /\ requests' = requests \ {<<"single", u>>}
      /\ UNCHANGED <<statusVars, queue, worker, ended>>
    BY DEF UpdateSingle
<1>4. PICK roots \in KnownRoots(u) : IntoAnalysis(Fo(u, roots, 0, "single"))
    BY DEF UpdateSingle
<1>2. Waiting' = Waiting
    BY <1>1, NothingWaits
<1>3. UNCHANGED <<running, finished>> /\ Ended(fw)' = Ended(fw)
    BY <1>1 DEF statusVars, Ended
<1>5. CASE fw \notin roots
  <2>1. PICK fo : IntoAnalysis(fo) /\ fo.roots = roots
    BY <1>4 DEF Fo
  <2>2. Analyzing(fw)' = Analyzing(fw) \cup {h \in {fo} : fw \in h.roots}
    BY <2>1, AnalyzingMoves
  <2>3. Analyzing(fw)' = Analyzing(fw)
    BY <1>5, <2>1, <2>2
  <2> QED
    BY <1>1, <1>2, <1>3, <2>3, UntouchedKeeps DEF Untouched
<1>6. CASE fw \in roots
  <2> SUFFICES ASSUME NoUpdateYet(fw)', NotCutOff(fw)' PROVE FALSE
    BY DEF ImageInv
  <2>1. NoUpdateYet(fw) /\ NotCutOff(fw) /\ u \notin Included(fw)
    BY <1>1 DEF NoUpdateYet, NotCutOff
  <2> QED
    BY <1>6, <2>1, RootsKnown
<1> QED
    BY <1>5, <1>6

(***************************************************************************)
(* Whatever is under analysis, or was, lies below its images.              *)
(***************************************************************************)
LEMMA InitRoots == Init => RootsInv
<1> SUFFICES ASSUME Init PROVE RootsInv
    OBVIOUS
<1>1. BagToSet(analyzing) = {}
    BY DEF Init, EmptyBag, SetToBag, BagToSet
<1>2. listener.pc = "idle" /\ ended = {}
    BY DEF Init, IdleListener
<1> QED
    BY <1>1, <1>2 DEF RootsInv, Ended

LEMMA NextRoots == CallsOK /\ QueuedInv /\ RootsInv /\ [Next]_vars => RootsInv'
<1> SUFFICES ASSUME CallsOK, QueuedInv, RootsInv, [Next]_vars PROVE RootsInv'
    OBVIOUS
<1>0. ASSUME UNCHANGED <<analyzing, listener, ended>> PROVE RootsInv'
    BY <1>0 DEF RootsInv, Ended
<1>a. ASSUME NEW fo, IntoAnalysis(fo), UNCHANGED <<listener, ended>>,
             \A fw \in fo.roots : fo.uid \in Included(fw)
      PROVE  RootsInv'
  <2>1. BagToSet(analyzing') = BagToSet(analyzing) \cup {fo}
    BY <1>a, BagAfter
  <2> QED
    BY <1>a, <2>1 DEF RootsInv, Ended
<1>1. ASSUME NEW fw \in Uploaded, Upload(fw) PROVE RootsInv'
    BY <1>0, <1>1 DEF Upload
<1>2. ASSUME NEW w \in Workers,
             \/ Take(w) \/ Unpack(w) \/ ExtractionFails(w) \/ UnpackFails(w)
             \/ Return(w) \/ ScheduleExtracted(w)
      PROVE  RootsInv'
    BY <1>0, <1>2 DEF Take, Unpack, ExtractionFails, UnpackFails, Return, ScheduleExtracted
<1>3. ASSUME NEW w \in Workers, PostUnpack(w) PROVE RootsInv'
  <2>1. FromUpload(worker[w].fo) /\ worker[w].fo.roots \subseteq Firmware
    <3>1. FromUpload(worker[w].fo)
      BY <1>3 DEF PostUnpack, QueuedInv
    <3> QED
      BY <3>1, RequestsAssumption DEF FromUpload
  <2>2. \A fw \in worker[w].fo.roots : worker[w].fo.uid \in Included(fw)
    BY <2>1, FromUploadFacts
  <2> QED
    BY <1>3, <1>a, <2>2 DEF PostUnpack
<1>4. ASSUME NEW fo \in BagToSet(analyzing), EndAnalysis(fo) PROVE RootsInv'
  <2>1. BagToSet(analyzing') \subseteq BagToSet(analyzing) /\ listener' = listener
    BY <1>4, BagAfter DEF EndAnalysis
  <2>2. ended' \subseteq ended \cup {<<fw, fo.uid>> : fw \in fo.roots}
    BY <1>4 DEF EndAnalysis
  <2>3. \A fw \in Firmware : Ended(fw)' \subseteq Included(fw)
    BY <2>2 DEF Ended, RootsInv
  <2> QED
    BY <2>1, <2>3 DEF RootsInv
<1>5. ASSUME NEW fw \in Updated, BeginUpdate(fw) PROVE RootsInv'
  <2>1. PICK some \in SUBSET OnTheWay(fw) :
            listener' = [pc |-> "add", fw |-> fw, included |-> Analyzed(fw) \cup some,
                         left |-> (Analyzed(fw) \cup some) \cup {fw}]
    BY <1>5 DEF BeginUpdate
  <2>2. fw \in Firmware /\ fw \in Included(fw)
    BY RequestsAssumption, ImageIncluded
  <2>3. Analyzed(fw) \subseteq Included(fw)
    BY <2>2 DEF Analyzed, Ended, RootsInv, Uids
  <2>4. OnTheWay(fw) \subseteq Included(fw)
    BY DEF OnTheWay, RootsInv
  <2>5. UNCHANGED <<analyzing, ended>>
    BY <1>5 DEF BeginUpdate
  <2> QED
    BY <2>1, <2>2, <2>3, <2>4, <2>5 DEF RootsInv, Ended
<1>6. CASE EndAdd
  <2>1. /\ listener' = [listener EXCEPT !.pc = "loop"] /\ listener.pc = "add"
        /\ UNCHANGED <<analyzing, ended>>
    BY <1>6 DEF EndAdd
  <2>2. /\ listener'.fw = listener.fw /\ listener'.included = listener.included
        /\ listener'.left = listener.left
    BY <2>1
  <2> QED
    BY <2>1, <2>2 DEF RootsInv, Ended
<1>7. CASE ListenerDies
    BY <1>7 DEF ListenerDies, RootsInv, Ended
<1>8. CASE UpdateNext
  <2>1. PICK u \in listener.left, roots \in SUBSET Firmware :
            /\ \A fw \in roots : u \in Included(fw)
            /\ IntoAnalysis(Fo(u, roots, 0, "update"))
    BY <1>8, UpdateNextFacts
  <2>2. Fo(u, roots, 0, "update").uid = u /\ Fo(u, roots, 0, "update").roots = roots
    BY DEF Fo
  <2>3. BagToSet(analyzing') = BagToSet(analyzing) \cup {Fo(u, roots, 0, "update")}
    BY <2>1, BagAfter
  <2>4. /\ ended' = ended /\ listener.pc = "loop"
        /\ \/ listener' = IdleListener
           \/ \E v : listener' = [listener EXCEPT !.left = @ \ {v}]
    BY <1>8 DEF UpdateNext
  <2>5. /\ \A fo \in BagToSet(analyzing') : \A fw \in fo.roots : fo.uid \in Included(fw)
        /\ \A fw \in Firmware : Ended(fw)' \subseteq Included(fw)
    BY <2>1, <2>2, <2>3, <2>4 DEF RootsInv, Ended
  <2>6. CASE listener' = IdleListener
    BY <2>5, <2>6 DEF RootsInv, IdleListener
  <2>7. CASE \E v : listener' = [listener EXCEPT !.left = @ \ {v}]
    <3>1. /\ listener'.fw = listener.fw /\ listener'.included = listener.included
          /\ listener'.left \subseteq listener.left
      BY <2>7
    <3> QED
      BY <2>4, <2>5, <3>1 DEF RootsInv
  <2> QED
    BY <2>4, <2>6, <2>7
<1>9. ASSUME NEW u \in Single, UpdateSingle(u) PROVE RootsInv'
  <2>1. PICK roots \in KnownRoots(u) : IntoAnalysis(Fo(u, roots, 0, "single"))
    BY <1>9 DEF UpdateSingle
  <2>2. \A fw \in roots : u \in Included(fw)
    BY <2>1, RootsKnown
  <2>3. UNCHANGED <<listener, ended>>
    BY <1>9 DEF UpdateSingle
  <2> QED
    BY <1>a, <2>1, <2>2, <2>3 DEF Fo
<1>10. CASE Monitor
    BY <1>0, <1>10 DEF Monitor
<1>11. CASE UNCHANGED vars
    BY <1>0, <1>11 DEF vars
<1> QED
    BY <1>1, <1>2, <1>3, <1>4, <1>5, <1>6, <1>7, <1>8, <1>9, <1>10, <1>11
    DEF Next, UnpackStep, ListenerStep

LEMMA NextImages ==
    StatusTypeOK /\ CallsOK /\ QueuedInv /\ OnceInv /\ ListenerInv /\ RootsInv /\
        ImagesInv /\ [Next]_vars
        => ImagesInv'
<1> SUFFICES ASSUME StatusTypeOK, CallsOK, QueuedInv, OnceInv, ListenerInv, RootsInv, ImagesInv,
                    [Next]_vars, NEW fw \in Firmware
             PROVE  ImageInv(fw)'
    BY DEF ImagesInv
<1>0. ImageInv(fw)
    BY DEF ImagesInv
<1>1. ASSUME NEW g \in Uploaded, Upload(g) PROVE ImageInv(fw)'
    BY <1>0, <1>1, UploadKeeps
<1>2. ASSUME NEW w \in Workers,
             \/ Take(w) \/ Unpack(w) \/ ExtractionFails(w) \/ UnpackFails(w)
             \/ Return(w) \/ ScheduleExtracted(w)
      PROVE  ImageInv(fw)'
    BY <1>0, <1>2, WorkerKeeps
<1>3. ASSUME NEW w \in Workers, PostUnpack(w) PROVE ImageInv(fw)'
    BY <1>0, <1>3, PostUnpackKeeps
<1>4. ASSUME NEW fo \in BagToSet(analyzing), EndAnalysis(fo) PROVE ImageInv(fw)'
    BY <1>0, <1>4, EndAnalysisKeeps
<1>5. CASE (\E g \in Updated : BeginUpdate(g)) \/ ListenerStep
    BY <1>0, <1>5, ListenerKeeps
<1>6. ASSUME NEW u \in Single, UpdateSingle(u) PROVE ImageInv(fw)'
    BY <1>0, <1>6, UpdateSingleKeeps
<1>7. CASE Monitor \/ UNCHANGED vars
  <2>1. UNCHANGED <<running, finished, requests, queue, worker, analyzing, ended>>
    BY <1>7 DEF Monitor, vars, statusVars
  <2>2. Waiting' = Waiting
    BY <2>1, NothingWaits
  <2>3. Ended(fw)' = Ended(fw) /\ Analyzing(fw)' = Analyzing(fw)
    BY <2>1 DEF Ended, Analyzing
  <2> QED
    BY <1>0, <2>1, <2>2, <2>3, UntouchedKeeps DEF Untouched
<1> QED
    BY <1>1, <1>2, <1>3, <1>4, <1>5, <1>6, <1>7 DEF Next, UnpackStep

LEMMA InitImages == Init => ImagesInv
<1> SUFFICES ASSUME Init, NEW fw \in Firmware PROVE ImageInv(fw)
    BY DEF ImagesInv
<1>1. BagToSet(analyzing) = {}
    BY DEF Init, EmptyBag, SetToBag, BagToSet
<1>2. Ended(fw) = {} /\ Analyzing(fw) = {}
    BY <1>1 DEF Init, Ended, Analyzing
<1>3. fw \notin running.active /\ fw \notin finished
    BY DEF Init, InitStatus
<1>4. Waiting = {}
  <2>1. queue = << >> /\ Len(queue) = 0
    BY DEF Init
  <2>2. \A w \in Workers : AtWorker(w) = {}
    BY DEF Init, AtWorker, IdleWorker
  <2> QED
    BY <2>1, <2>2 DEF Waiting, InQueue
<1> QED
    BY <1>2, <1>3, <1>4 DEF ImageInv, NotAnalyzed

(***************************************************************************)
(* An image that is shown as finished was analyzed to the last file that   *)
(* comes out of it, in whatever order its files and their copies were      *)
(* unpacked and analyzed, by any number of workers, unless an update came  *)
(* into it or the depth limit cut a copy off (_update_current_analysis).   *)
(***************************************************************************)
THEOREM FinishedMeansAnalyzedTheorem == Spec => []FinishedMeansAnalyzed
<1> DEFINE Inv == CallsOK /\ PcOK /\ QueuedInv /\ OnceInv /\ ListenerInv /\ RootsInv /\
                  ImagesInv
<1>1. Init => Inv
    BY InitCalls, InitPc, InitQueued, InitRoots, InitImages
<1>2. StatusTypeOK /\ Inv /\ [Next]_vars => Inv'
    BY NextCalls, NextPc, NextQueued, NextOnce, NextListener, NextRoots, NextImages
<1>3. StatusTypeOK /\ Inv => FinishedMeansAnalyzed
  <2> SUFFICES ASSUME StatusTypeOK, CallsOK, PcOK, ImagesInv PROVE FinishedMeansAnalyzed
    OBVIOUS
  <2>1. TypeOK
    BY TypesFollow
  <2>2. ASSUME NEW fw \in finished, NoUpdateYet(fw), NotCutOff(fw), NEW u \in Reached(fw)
        PROVE  <<fw, u>> \in ended
    <3>1. fw \in Firmware
      BY DEF StatusTypeOK
    <3>2. NotAnalyzed(fw) \/ UnderAnalysis(fw)
      BY <2>2, <3>1 DEF ImagesInv, ImageInv
    <3>3. u \in Ended(fw)
      BY <2>2, <3>2 DEF NotAnalyzed, UnderAnalysis
    <3> QED
      BY <3>3 DEF Ended
  <2> QED
    BY <2>1, <2>2 DEF FinishedMeansAnalyzed
<1>4. Spec => []StatusTypeOK
    BY ImplementsStatus, SomethingLeftTheorem, PTL
<1> QED
    BY <1>1, <1>2, <1>3, <1>4, PTL DEF Spec
============================================================================
