--------------------------- MODULE AnalysisStatus ---------------------------
(***************************************************************************)
(* The progress of each firmware image that the web interface shows        *)
(* (scheduler/analysis_status.py): a dictionary shared by the processes of *)
(* the backend, whose methods hold currently_running_lock.  Here any       *)
(* caller may call any method at any time; UnpackingScheduler has the      *)
(* calls the backend makes.                                                *)
(***************************************************************************)
EXTENDS Naturals, FiniteSets

CONSTANTS
    Firmware,       \* uids of firmware images
    Files           \* uids of the files that images include

Uids == Firmware \cup Files

ASSUME UidsAssumption == IsFiniteSet(Uids)
ASSUME FirmwareAssumption == Firmware \cap Files = {}

VARIABLES
    running,        \* currently_running: which images it has, and their entries
    finished,       \* recently_finished: the images in it
    updating,       \* images whose add_update_to_current_analyses is half done
    locked          \* currently_running_lock was left locked by an exception

statusVars == <<running, finished, updating, locked>>

\* The lists are duplicate-free, so each is kept as a set.
Progress == [toUnpack : SUBSET Uids, toAnalyze : SUBSET Uids,
             unpacked : Nat, analyzed : Nat, total : Nat]

NoProgress == [toUnpack |-> {}, toAnalyze |-> {},
               unpacked |-> 0, analyzed |-> 0, total |-> 0]

InitStatus ==
    /\ running = [active |-> {}, entry |-> [fw \in Firmware |-> NoProgress]]
    /\ finished = {}
    /\ updating = {}
    /\ locked = FALSE

\* _find_currently_analyzed_parents; for an image, roots is its own uid.
Tracked(roots) == running.active \cap roots

InitProgress(fw, included) ==
    [toUnpack |-> included, toAnalyze |-> {fw},
     unpacked |-> 1, analyzed |-> 0, total |-> 1 + Cardinality(included)]

UpdateProgress(fw, included) ==
    [toUnpack |-> {}, toAnalyze |-> {fw} \cup included,
     unpacked |-> Cardinality(included) + 1, analyzed |-> 0,
     total |-> Cardinality(included) + 1]

\* Mutant: files that are about to be analyzed count as new.
AfterUnpackingAll(e, u, included) ==
    LET new == included \ e.toUnpack
        toUnpack == e.toUnpack \cup new
        moved == IF u \in toUnpack THEN {u} ELSE {} IN
    [e EXCEPT !.total = @ + Cardinality(new), !.toUnpack = toUnpack \ moved,
              !.toAnalyze = @ \cup moved, !.unpacked = @ + Cardinality(moved)]

\* _update_current_analysis, for one image.
AfterUnpacking(e, u, included) ==
    LET new == included \ (e.toUnpack \cup e.toAnalyze)
        toUnpack == e.toUnpack \cup new
        moved == IF u \in toUnpack THEN {u} ELSE {} IN
    [e EXCEPT !.total = @ + Cardinality(new), !.toUnpack = toUnpack \ moved,
              !.toAnalyze = @ \cup moved, !.unpacked = @ + Cardinality(moved)]

\* remove_from_current_analyses, for one image.
AfterAnalysis(e, u) == [e EXCEPT !.toAnalyze = @ \ {u}, !.analyzed = @ + 1]

\* Mutant: the files still to unpack are not looked at.
DoneAnalyzing(e) == e.toAnalyze = {}

Done(e) == e.toUnpack = {} /\ e.toAnalyze = {}

----------------------------------------------------------------------------
(* The methods. *)

AddFirmware(fw, included) ==
    /\ ~ locked
    /\ running' = [active |-> running.active \cup {fw},
                   entry |-> [running.entry EXCEPT ![fw] = InitProgress(fw, included)]]
    /\ UNCHANGED <<finished, updating, locked>>

AddFile(u, roots, included) ==
    /\ ~ locked
    /\ running' = [running EXCEPT !.entry =
        [fw \in Firmware |-> IF fw \in Tracked(roots)
                             THEN AfterUnpacking(running.entry[fw], u, included)
                             ELSE running.entry[fw]]]
    /\ UNCHANGED <<finished, updating, locked>>

(***************************************************************************)
(* add_update_to_current_analyses locks twice: to add the image as one that*)
(* was just unpacked (files_included), and to correct that.  If the image  *)
(* is gone in between, a KeyError leaves the lock locked.                  *)
(***************************************************************************)
BeginAddUpdate(fw, included) ==
    /\ ~ locked /\ fw \notin updating
    /\ running' = [active |-> running.active \cup {fw},
                   entry |-> [running.entry EXCEPT ![fw] = InitProgress(fw, included)]]
    /\ updating' = updating \cup {fw}
    /\ UNCHANGED <<finished, locked>>

EndAddUpdate(fw, included) ==
    /\ ~ locked /\ fw \in updating /\ fw \in running.active
    /\ running' = [running EXCEPT !.entry[fw] = UpdateProgress(fw, included)]
    /\ updating' = updating \ {fw}
    /\ UNCHANGED <<finished, locked>>

FailAddUpdate(fw) ==
    /\ ~ locked /\ fw \in updating /\ fw \notin running.active
    /\ locked' = TRUE
    /\ updating' = updating \ {fw}
    /\ UNCHANGED <<running, finished>>

\* Mutant: a finished image stays in currently_running.
RemoveWithoutPop(u, roots) ==
    LET hit == {fw \in Tracked(roots) : u \in running.entry[fw].toAnalyze}
        entry == [fw \in Firmware |-> IF fw \in hit
                                      THEN AfterAnalysis(running.entry[fw], u)
                                      ELSE running.entry[fw]] IN
    /\ ~ locked
    /\ running' = [running EXCEPT !.entry = entry]
    /\ finished' = finished \cup {fw \in hit : Done(entry[fw])}
    /\ UNCHANGED <<updating, locked>>

Remove(u, roots) ==
    LET hit == {fw \in Tracked(roots) : u \in running.entry[fw].toAnalyze}
        entry == [fw \in Firmware |-> IF fw \in hit
                                      THEN AfterAnalysis(running.entry[fw], u)
                                      ELSE running.entry[fw]]
        done == {fw \in hit : Done(entry[fw])} IN
    /\ ~ locked
    /\ running' = [active |-> running.active \ done,
                   entry |-> [fw \in Firmware |-> IF fw \in done THEN NoProgress
                                                  ELSE entry[fw]]]
    /\ finished' = finished \cup done
    /\ UNCHANGED <<updating, locked>>

\* clear_recently_finished, of an image that finished 300 seconds ago.
ClearFinished(fw) ==
    /\ ~ locked /\ fw \in finished
    /\ finished' = finished \ {fw}
    /\ UNCHANGED <<running, updating, locked>>

----------------------------------------------------------------------------
NextStatus ==
    \/ \E fw \in Firmware, included \in SUBSET Files :
        \/ AddFirmware(fw, included)
        \/ BeginAddUpdate(fw, included)
        \/ EndAddUpdate(fw, included)
    \/ \E u \in Files, roots \in SUBSET Firmware, included \in SUBSET Files :
        AddFile(u, roots, included)
    \/ \E fw \in Firmware : FailAddUpdate(fw) \/ ClearFinished(fw)
    \/ \E fw \in Firmware : Remove(fw, {fw})
    \/ \E u \in Files, roots \in SUBSET Firmware : Remove(u, roots)

SpecStatus == InitStatus /\ [][NextStatus]_statusVars
----------------------------------------------------------------------------
StatusTypeOK ==
    /\ running \in [active : SUBSET Firmware, entry : [Firmware -> Progress]]
    /\ finished \subseteq Firmware
    /\ updating \subseteq Firmware
    /\ locked \in BOOLEAN

(***************************************************************************)
(* The numbers of the progress bar agree with the lists they summarise,    *)
(* after any sequence of calls, duplicates and repetitions included:       *)
(* unpacked_files_count and total_files_count differ by the files still to *)
(* unpack, analyzed_files_count and unpacked_files_count by those still to *)
(* analyze, and no file is in both lists                                   *)
(* (add_to_current_analyses, remove_from_current_analyses).                *)
(***************************************************************************)
CountsAgree(e) ==
    /\ e.toUnpack \cap e.toAnalyze = {}
    /\ e.unpacked + Cardinality(e.toUnpack) = e.total
    /\ e.analyzed + Cardinality(e.toAnalyze) = e.unpacked

CountersAgree == \A fw \in Firmware : CountsAgree(running.entry[fw])

(***************************************************************************)
(* An image under analysis has something left to do: it is taken out by    *)
(* the call that ends its last file, and no call leaves an image at 100%   *)
(* that no later call would take out (remove_from_current_analyses).       *)
(***************************************************************************)
SomethingLeft == \A fw \in running.active : ~ Done(running.entry[fw])
============================================================================
