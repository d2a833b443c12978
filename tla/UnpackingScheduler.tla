------------------------- MODULE UnpackingScheduler -------------------------
(***************************************************************************)
(* The unpacking scheduler (scheduler/unpacking_scheduler.py) and how it   *)
(* and the analysis scheduler's entry points and completions drive the     *)
(* analysis status.  What the analyses do is in AnalysisScheduler; here a  *)
(* file object is somewhere in the analysis scheduler until it leaves it.  *)
(***************************************************************************)
EXTENDS AnalysisStatus, Sequences, Bags

CONSTANTS
    Workers,        \* unpack workers (unpack.threads)
    Contents,       \* per uid: the files its extraction yields
    MaxDepth,       \* unpack.max_depth
    ThrottleLimit,  \* expert_settings.unpack_throttle_limit
    Breaking,       \* uids whose unpacking may raise an exception
    Unreadable,     \* uids of which the extractor may fail, and nothing comes
    Uploaded,       \* images a user uploads
    Updated,        \* images whose analyses a user updates
    Single          \* files of which a user updates the analyses alone

ASSUME ContentsAssumption == Contents \in [Uids -> SUBSET Files] /\ MaxDepth \in Nat
ASSUME RequestsAssumption ==
    Uploaded \subseteq Firmware /\ Updated \subseteq Firmware /\ Single \subseteq Files

VARIABLES
    queue,          \* in_queue
    worker,         \* per worker: statement, file object, objects extracted
    throttle,       \* throttle_condition
    analyzing,      \* bag of the file objects in the analysis scheduler
    listener,       \* the process that handles updates
    requests,       \* requests users have not made yet
    ended           \* history: <<image, uid>> of the uploaded and extracted
                    \*   file objects that left it

vars == <<statusVars, queue, worker, throttle, analyzing, listener, requests, ended>>

\* A file object; its roots are parent_firmware_uids (an image's own uid).
Fo(u, roots, depth, kind) == [uid |-> u, roots |-> roots, depth |-> depth, kind |-> kind]

IdleWorker == [pc |-> "idle", left |-> {}]
IdleListener == [pc |-> "idle", left |-> {}]

Init ==
    /\ InitStatus
    /\ queue = << >>
    /\ worker = [w \in Workers |-> IdleWorker]
    /\ throttle = FALSE
    /\ analyzing = EmptyBag
    /\ listener = IdleListener
    /\ requests = {<<"upload", fw>> : fw \in Uploaded}
                    \cup {<<"update", fw>> : fw \in Updated}
                    \cup {<<"single", u>> : u \in Single}
    /\ ended = {}

IntoAnalysis(fo) == analyzing' = analyzing (+) SetToBag({fo})

\* add_task, by the intercom listener for uploads.
Upload(fw) ==
    /\ <<"upload", fw>> \in requests
    /\ queue' = Append(queue, Fo(fw, {fw}, 0, "upload"))
    /\ requests' = requests \ {<<"upload", fw>>}
    /\ UNCHANGED <<statusVars, worker, throttle, analyzing, listener, ended>>

(***************************************************************************)
(* One turn of unpack_worker: take a file object, unpack it, pass it on to *)
(* the analysis (post_unpack) and put the extracted objects into the queue *)
(* one by one, waiting while the throttle is on.                           *)
(***************************************************************************)
Take(w) ==
    /\ worker[w].pc = "idle" /\ queue # << >>
    /\ worker' = [worker EXCEPT ![w] = [pc |-> "unpack", fo |-> Head(queue), left |-> {}]]
    /\ queue' = Tail(queue)
    /\ UNCHANGED <<statusVars, throttle, analyzing, listener, requests, ended>>

\* unpack and add_included_file; a file is not included in itself.
Extracted(fo) ==
    IF fo.depth >= MaxDepth THEN {}
    ELSE {Fo(u, fo.roots, fo.depth + 1, "upload") : u \in Contents[fo.uid] \ {fo.uid}}

UidsOf(fos) == {fo.uid : fo \in fos}

Unpack(w) ==
    /\ worker[w].pc = "unpack"
    /\ worker' = [worker EXCEPT ![w].pc = "post", ![w].left = Extracted(worker[w].fo)]
    /\ UNCHANGED <<statusVars, queue, throttle, analyzing, listener, requests, ended>>

\* The extractor raises or takes too long: extracted_files is None.
ExtractionFails(w) ==
    /\ worker[w].pc = "unpack" /\ worker[w].fo.uid \in Unreadable
    /\ worker' = [worker EXCEPT ![w].pc = "post", ![w].left = {}]
    /\ UNCHANGED <<statusVars, queue, throttle, analyzing, listener, requests, ended>>

\* The worker is started again, without the file object.
UnpackFails(w) ==
    /\ worker[w].pc = "unpack" /\ worker[w].fo.uid \in Breaking
    /\ worker' = [worker EXCEPT ![w] = IdleWorker]
    /\ UNCHANGED <<statusVars, queue, throttle, analyzing, listener, requests, ended>>

\* add_to_current_analyses.
AddToCurrentAnalyses(fo, included) ==
    IF fo.uid \in Firmware
    THEN AddFirmware(fo.uid, included)
    ELSE AddFile(fo.uid, fo.roots, included)

PostUnpack(w) ==
    LET fo == worker[w].fo IN
    /\ worker[w].pc = "post"
    /\ AddToCurrentAnalyses(fo, UidsOf(worker[w].left))
    /\ IntoAnalysis(fo)
    /\ worker' = [worker EXCEPT ![w].pc = "schedule"]
    /\ UNCHANGED <<queue, throttle, listener, requests, ended>>

\* Mutant: objects are dropped while the throttle is on.
ScheduleOrDrop(w) ==
    /\ worker[w].pc = "schedule"
    /\ \E fo \in worker[w].left :
        /\ queue' = IF throttle THEN queue ELSE Append(queue, fo)
        /\ worker' = [worker EXCEPT ![w].left = @ \ {fo}]
    /\ UNCHANGED <<statusVars, throttle, analyzing, listener, requests, ended>>

ScheduleExtracted(w) ==
    /\ worker[w].pc = "schedule" /\ ~ throttle
    /\ \E fo \in worker[w].left :
        /\ queue' = Append(queue, fo)
        /\ worker' = [worker EXCEPT ![w].left = @ \ {fo}]
    /\ UNCHANGED <<statusVars, throttle, analyzing, listener, requests, ended>>

Return(w) ==
    /\ worker[w].pc = "schedule" /\ worker[w].left = {}
    /\ worker' = [worker EXCEPT ![w] = IdleWorker]
    /\ UNCHANGED <<statusVars, queue, throttle, analyzing, listener, requests, ended>>

\* One turn of _work_load_monitor that changes the throttle.
Monitor ==
    /\ throttle' = (BagCardinality(analyzing) >= ThrottleLimit)
    /\ throttle' # throttle
    /\ UNCHANGED <<statusVars, queue, worker, analyzing, listener, requests, ended>>

(***************************************************************************)
(* A file object leaves the analysis scheduler, completed or because it    *)
(* could not be added to the database.                                     *)
(***************************************************************************)
EndAnalysis(fo) ==
    /\ BagIn(fo, analyzing)
    /\ Remove(fo.uid, fo.roots)
    /\ analyzing' = analyzing (-) SetToBag({fo})
    /\ ended' = IF fo.kind = "upload" THEN ended \cup {<<fw, fo.uid>> : fw \in fo.roots}
                ELSE ended
    /\ UNCHANGED <<queue, worker, throttle, listener, requests>>

(***************************************************************************)
(* update_analysis_of_object_and_children, in its listener process.  The   *)
(* included files are those in the database: the ones analyzed and some of *)
(* those on their way through the analysis scheduler.                      *)
(***************************************************************************)
Analyzed(fw) == {u \in Files : <<fw, u>> \in ended}
OnTheWay(fw) == {fo.uid : fo \in {f \in BagToSet(analyzing) : fw \in f.roots}} \ Firmware

\* The images the database knows a file of: it has a path in each of them
\* (parent_firmware_uids, from virtual_file_paths).
KnownRoots(u) ==
    {roots \in SUBSET {fw \in Firmware : <<fw, u>> \in ended \/ u \in OnTheWay(fw)} :
        {fw \in Firmware : <<fw, u>> \in ended} \subseteq roots}

BeginUpdate(fw) ==
    /\ <<"update", fw>> \in requests /\ listener.pc = "idle"
    /\ \E u \in Uids : <<fw, u>> \in ended \/ \E fo \in BagToSet(analyzing) : fw \in fo.roots
    /\ \E some \in SUBSET OnTheWay(fw) :
        LET included == Analyzed(fw) \cup some IN
        /\ BeginAddUpdate(fw, included \cap Contents[fw])
        /\ listener' = [pc |-> "add", fw |-> fw, included |-> included,
                        left |-> included \cup {fw}]
    /\ requests' = requests \ {<<"update", fw>>}
    /\ UNCHANGED <<queue, worker, throttle, analyzing, ended>>

EndAdd ==
    /\ listener.pc = "add"
    /\ EndAddUpdate(listener.fw, listener.included)
    /\ listener' = [listener EXCEPT !.pc = "loop"]
    /\ UNCHANGED <<queue, worker, throttle, analyzing, requests, ended>>

ListenerDies ==
    /\ listener.pc = "add"
    /\ FailAddUpdate(listener.fw)
    /\ listener' = [pc |-> "dead", left |-> {}]
    /\ UNCHANGED <<queue, worker, throttle, analyzing, requests, ended>>

\* A turn of the loop; the object itself comes last.
UpdateNext ==
    /\ listener.pc = "loop"
    /\ \E u \in listener.left :
        /\ u = listener.fw => listener.left = {u}
        /\ \E roots \in IF u = listener.fw THEN {{u}} ELSE KnownRoots(u) :
              /\ listener.fw \in roots
              /\ IntoAnalysis(Fo(u, roots, 0, "update"))
        /\ listener' = IF listener.left = {u} THEN IdleListener
                       ELSE [listener EXCEPT !.left = @ \ {u}]
    /\ UNCHANGED <<statusVars, queue, worker, throttle, requests, ended>>

\* update_analysis_of_single_object.
UpdateSingle(u) ==
    /\ <<"single", u>> \in requests
    /\ \E roots \in KnownRoots(u) \ {{}} : IntoAnalysis(Fo(u, roots, 0, "single"))
    /\ requests' = requests \ {<<"single", u>>}
    /\ UNCHANGED <<statusVars, queue, worker, throttle, listener, ended>>

\* clear_recently_finished is left out: no image finished 300 seconds ago.
UnpackStep(w) ==
    \/ Unpack(w)
    \/ ExtractionFails(w)
    \/ UnpackFails(w)
    \/ PostUnpack(w)
    \/ Return(w)

ListenerStep ==
    \/ EndAdd
    \/ ListenerDies
    \/ UpdateNext

Next ==
    \/ \E fw \in Uploaded : Upload(fw)
    \/ \E fw \in Updated : BeginUpdate(fw)
    \/ \E u \in Single : UpdateSingle(u)
    \/ \E w \in Workers : Take(w) \/ UnpackStep(w) \/ ScheduleExtracted(w)
    \/ Monitor
    \/ \E fo \in BagToSet(analyzing) : EndAnalysis(fo)
    \/ ListenerStep

Spec == Init /\ [][Next]_vars

(***************************************************************************)
(* The processes keep running.  A worker that waits for the throttle wakes *)
(* every 5 seconds and may find it on each time: strong fairness says that *)
(* it is off often enough when it looks.  Every analysis ends.             *)
(***************************************************************************)
Fairness ==
    /\ \A w \in Workers : /\ WF_vars(Take(w)) /\ WF_vars(UnpackStep(w))
                          /\ SF_vars(ScheduleExtracted(w))
    /\ WF_vars(Monitor)
    /\ WF_vars(ListenerStep)
    /\ WF_vars(\E fo \in BagToSet(analyzing) : EndAnalysis(fo))

FairSpec == Spec /\ Fairness
----------------------------------------------------------------------------
Objects ==
    {fo \in [uid : Uids, roots : SUBSET Firmware, depth : Nat,
             kind : {"upload", "update", "single"}] :
        fo.uid \in Firmware => fo.roots = {fo.uid}}

TypeOK ==
    /\ queue \in Seq(Objects)
    /\ \A w \in Workers :
        /\ worker[w].pc \in {"idle", "unpack", "post", "schedule"}
        /\ worker[w].pc # "idle" => worker[w].fo \in Objects
        /\ worker[w].left \subseteq Objects /\ UidsOf(worker[w].left) \subseteq Files
    /\ throttle \in BOOLEAN
    /\ BagToSet(analyzing) \subseteq Objects
    /\ listener.pc \in {"idle", "add", "loop", "dead"}
    /\ listener.pc \in {"add", "loop"} =>
        /\ listener.fw \in Firmware /\ listener.included \subseteq Files
        /\ listener.left \subseteq listener.included \cup {listener.fw}
    /\ ended \subseteq Firmware \X Uids

\* The ways down from an image to a file n levels below it.
Chains(fw, n) ==
    {c \in [0..n -> Uids] : /\ c[0] = fw
                            /\ \A i \in 1..n : c[i] \in Contents[c[i - 1]] \ {c[i - 1]}}

\* The files of an image, by the level at which they are.
Below == [fw \in Firmware |-> [n \in 0..MaxDepth |-> {c[n] : c \in Chains(fw, n)}]]

\* The files an image includes, directly or not, within MaxDepth.
Included(fw) == UNION {Below[fw][n] : n \in 0..MaxDepth}

\* The files that come out of an image whatever extraction fails: each lies in
\* files of which the extractor never fails.
Reached(fw) ==
    UNION {{c[n] : c \in {d \in Chains(fw, n) : \A i \in 1..n : d[i - 1] \notin Unreadable}} :
           n \in 0..MaxDepth}

\* Neither the image, nor one it shares a file with, nor a file of it alone was
\* updated so far.
NoUpdateYet(fw) ==
    /\ \A g \in Updated : Included(g) \cap Included(fw) # {} => <<"update", g>> \in requests
    /\ \A u \in Included(fw) \cap Single : <<"single", u>> \in requests

\* An image of whose files none breaks the unpacking and none was updated.
Undisturbed(fw) == Included(fw) \cap Breaking = {} /\ NoUpdateYet(fw)

\* The depth limit cuts nothing off, in no copy of a file.
NotCutOff(fw) == \A u \in Below[fw][MaxDepth] : Contents[u] \subseteq {u}

(***************************************************************************)
(* An upload that is shown as finished was analyzed: every file that comes *)
(* out of the image was passed on by the unpacking and left the analysis   *)
(* scheduler, whichever of its copies came first (_update_current_analysis:*)
(* "could be duplicate!", analysis_status.py:48).  What lies in a file of  *)
(* which the extractor fails may not come out (unpack.py:41-43); when the  *)
(* depth limit cuts a copy off, another copy of the same file may be       *)
(* unpacked after the image is finished.  An update is excepted, of the    *)
(* image, of a file of it or of an image it shares a file with: the object *)
(* of the update has all its images as roots, and when it ends, it takes   *)
(* the file off the lists of all of them, one whose own copy is still      *)
(* under analysis included (remove_from_current_analyses).                 *)
(***************************************************************************)
FinishedMeansAnalyzed ==
    /\ TypeOK
    /\ \A fw \in finished :
          NoUpdateYet(fw) /\ NotCutOff(fw) => \A u \in Reached(fw) : <<fw, u>> \in ended

(***************************************************************************)
(* Every image under analysis is shown as finished some day: its counters  *)
(* do not wait for a file that comes no more, and neither the throttle nor *)
(* an unpacking that breaks elsewhere nor an extractor that fails stops    *)
(* the workers for good.  Excepted are an image with a file that breaks    *)
(* its worker, one an update comes into, and every image once an update    *)
(* left currently_running_lock locked (add_update_to_current_analyses).    *)
(***************************************************************************)
EveryImageFinishes ==
    \A fw \in Firmware :
        fw \in running.active ~> fw \in finished \/ ~Undisturbed(fw) \/ locked

============================================================================
