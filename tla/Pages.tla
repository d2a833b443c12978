------------------------------- MODULE Pages -------------------------------
(***************************************************************************)
(* The requests of the web interface that only read, in many statements:   *)
(* PostgreSQL commits what others write between any two of them.  A step   *)
(* is one statement or one question to the backend; the writers are the    *)
(* backend, which stores files, analyses and comparisons, and the          *)
(* deletion of a firmware image (see Storage for how they do it).          *)
(*                                                                         *)
(* An object is stored with its analyses; a result of an analysis is       *)
(* [failed, summary, tags], its tags being [type, value, propagate].  A    *)
(* file that several images hold is stored once, with all of them.         *)
(***************************************************************************)
EXTENDS DependencyGraph, FiniteSets, TLC

CONSTANTS
    Firmwares,      \* the firmware images
    Files,          \* the files in them
    Contents,       \* <<image, container, file>>: where the unpacking of an image finds a file
    Inside,         \* the files in an object, in its files, and so on
    Plugins,        \* the analysis plugins, file_type among them
    Results,        \* the results an analysis may have
    PLUGINS_WITH_TAG_PROPAGATION,
    Layout,         \* the data of a file for the dependency graph
    Comparisons,    \* the comparisons that may be stored: sets of uids
    Starts,         \* what may be stored when the request comes in: [rows, links]
    MaxWrites       \* bound: changes of the database during a request

PUids == Firmwares \cup Files

\* No object has endlessly many tags.
Storable(r) ==
    /\ DOMAIN r \subseteq PUids
    /\ \A u \in DOMAIN r : /\ DOMAIN r[u] \subseteq Plugins
                          /\ \A p \in DOMAIN r[u] : IsFiniteSet(r[u][p].tags)

\* The tables included_files and fw_files: pairs that an unpacking has found.
Linked(l) ==
    /\ \A e \in l.included : \E x \in Contents : e = <<x[2], x[3]>>
    /\ \A e \in l.fw_files : \E x \in Contents : e = <<x[1], x[3]>>

ASSUME PagesConstants ==
    /\ MaxWrites \in Nat /\ "file_type" \in Plugins
    /\ Firmwares \cap Files = {} /\ IsFiniteSet(Files) /\ IsFiniteSet(Plugins)
    /\ Contents \subseteq Firmwares \X PUids \X Files /\ Inside \in [PUids -> SUBSET Files]
    /\ \A x \in Contents : x[3] \in Inside[x[1]] \cap Inside[x[2]]
    /\ \A u \in PUids : \A f \in Inside[u] : Inside[f] \subseteq Inside[u]
    /\ Comparisons \subseteq (SUBSET PUids) \ {{}} /\ Comparisons \cap PUids = {}
    /\ \A r \in Results : IsFiniteSet(r.tags)
    /\ \A s \in Starts : Storable(s.rows) /\ Linked(s.links)

VARIABLES
    rows,           \* the stored objects: a function from uids to their analyses
    links,          \* the tables included_files and fw_files, and the images that the
                    \* virtual paths of a file name: [included, fw_files, paths]
    compared,       \* the stored comparisons: sets of uids
    available,      \* the plugins the backend has published
    request,        \* the request that is served
    past,           \* history: what was stored since the request came in
    writes          \* bound used up

pageVars == <<rows, links, compared, available, request, past, writes>>

Stored(u) == u \in DOMAIN rows
Included(u) == {f \in Files \cap DOMAIN rows : <<u, f>> \in links.included}
AllUnder(fw) == {f \in Files \cap DOMAIN rows : <<fw, f>> \in links.fw_files}

\* The images in the virtual paths of an entry; an image has its own uid there.
RootsOf(u) == {r \in Firmwares : <<r, u>> \in links.paths}
RootUids(u) == IF RootsOf(u) = {} THEN {u} ELSE RootsOf(u)

NoRequest == [kind |-> "none"]
NoObject == [stored |-> FALSE]

\* What each request does, in the order of its statements.
get_object == <<"is_firmware", "get_entry", "collect_tags">>
get_comparison_result == <<"comparison_exists", "comparison_entry">>
get_summary == <<"included_files", "files_in_files", "collect_summary">>

show_analysis == <<"page_comparisons">> \o get_object
    \o <<"check_found", "check_selected", "all_uids_found", "plugins", "show">>
get_update_analysis == get_object \o <<"check_found", "plugins", "preset", "show">>
show_elf_dependency_graph == get_object \o <<"name_root">> \o get_object
    \o <<"libraries", "graph_data", "show">>
compare_text_files == get_object
    \o <<"name_root", "root_object", "use_object", "mime", "backend", "show">>
prepare_file_download == <<"exists", "backend", "show">>
show_radare == <<"exists", "backend", "radare", "show">>
rest_get_binary == <<"exists", "backend", "show">>
ajax_get_binary == <<"backend", "show">>
download_pdf_report == <<"exists">> \o get_object \o <<"use_object">> \o get_summary \o <<"show">>
rest_get_firmware == get_object \o <<"rest_firmware", "show">>
rest_get_firmware_with_summary == get_object \o <<"use_object">> \o get_summary
    \o <<"rest_firmware", "show">>
rest_get_file_object == get_object \o <<"check_found", "show">>
show_compare_result == <<"objects_exist">> \o get_comparison_result \o <<"show">>
rest_get_compare == <<"comparison_exists">> \o get_comparison_result \o <<"show">>
ajax_get_common_files == get_comparison_result \o <<"nice_list", "hid_dict", "show">>
ajax_get_tree_children == get_comparison_result \o get_object \o <<"use_object", "show">>
ajax_get_summary == get_object \o <<"use_object">> \o get_summary \o <<"show">>
find_missing_analyses == <<"firmware_plugins", "missing", "failed", "show">>
rest_get_missing == <<"firmware_plugins", "missing", "failed", "show">>

Program ==
    [show_analysis |-> show_analysis, get_update_analysis |-> get_update_analysis,
     show_elf_dependency_graph |-> show_elf_dependency_graph,
     compare_text_files |-> compare_text_files, prepare_file_download |-> prepare_file_download,
     download_pdf_report |-> download_pdf_report, rest_firmware |-> rest_get_firmware,
     rest_firmware_with_summary |-> rest_get_firmware_with_summary,
     rest_file_object |-> rest_get_file_object, show_compare_result |-> show_compare_result,
     rest_compare |-> rest_get_compare, ajax_get_common_files |-> ajax_get_common_files,
     ajax_get_tree_children |-> ajax_get_tree_children, ajax_get_summary |-> ajax_get_summary,
     find_missing_analyses |-> find_missing_analyses, rest_missing |-> rest_get_missing,
     show_radare |-> show_radare, rest_binary |-> rest_get_binary,
     ajax_get_binary |-> ajax_get_binary]

PageKinds == DOMAIN Program
AjaxKinds == {"ajax_get_common_files", "ajax_get_tree_children"}
ComparisonKinds == {"show_compare_result", "rest_compare"} \cup AjaxKinds

PagesInit ==
    /\ \E s \in Starts : rows = s.rows /\ links = s.links
    /\ compared \in SUBSET {c \in Comparisons : c \subseteq DOMAIN rows}
    /\ available = Plugins
    /\ request = NoRequest
    /\ past = [always |-> {}, ever |-> {}, had |-> {}, has |-> {}, items |-> {},
               under |-> {}, everUnder |-> {}, available |-> Plugins]
    /\ writes = 0

-----------------------------------------------------------------------------
(* The writers                                                             *)

ItemsOf(r) ==
    UNION {UNION {{<<u, p, i>> : i \in r[u][p].summary} : p \in DOMAIN r[u]} : u \in DOMAIN r}

\* The analyses that are stored.
Analyses(r) == UNION {{u} \X DOMAIN r[u] : u \in DOMAIN r}

\* The uids and comparisons that are there.
Things(r, c) == DOMAIN r \cup c

RememberWrite ==
    past' = [always |-> past.always \cap Things(rows', compared'),
             ever |-> past.ever \cup Things(rows', compared'),
             had |-> past.had \cap Analyses(rows'),
             has |-> past.has \cup Analyses(rows'),
             items |-> past.items \cup ItemsOf(rows'),
             under |-> past.under \cap links'.fw_files,
             everUnder |-> past.everUnder \cup links'.fw_files,
             available |-> past.available \cap available']

Written ==
    /\ request.kind # "none" /\ request.answer = "none" /\ writes < MaxWrites
    /\ writes' = writes + 1
    /\ UNCHANGED request
    /\ RememberWrite

StoreFirmware(fw) ==
    /\ ~Stored(fw)
    /\ rows' = [u \in DOMAIN rows \cup {fw} |-> IF u = fw THEN << >> ELSE rows[u]]
    /\ UNCHANGED <<links, compared, available>>
    /\ Written

\* add_object: a file that is stored already gets another container or image.
StoreFile(root, container, f) ==
    /\ Stored(root) /\ Stored(container)
    /\ rows' = [u \in DOMAIN rows \cup {f} |-> IF Stored(u) THEN rows[u] ELSE << >>]
    /\ links' = [included |-> links.included \cup {<<container, f>>},
                 fw_files |-> links.fw_files \cup {<<root, f>>},
                 paths |-> links.paths \cup {<<root, f>>}]
    /\ rows' # rows \/ links' # links
    /\ UNCHANGED <<compared, available>>
    /\ Written

StoreAnalysis(u, p, result) ==
    /\ Stored(u)
    /\ p \notin DOMAIN rows[u]
    /\ rows' = [rows EXCEPT ![u] = [q \in DOMAIN @ \cup {p} |-> IF q = p THEN result ELSE @[q]]]
    /\ UNCHANGED <<links, compared, available>>
    /\ Written

StoreComparison(c) ==
    /\ c \subseteq DOMAIN rows /\ c \notin compared
    /\ compared' = compared \cup {c}
    /\ UNCHANGED <<rows, links, available>>
    /\ Written

\* delete_file_orphans: with an object go the files that are left without container.
Containers(f) == {u \in DOMAIN rows : f \in Included(u)}
Cascade(fw) ==
    {u \in DOMAIN rows : \A gone \in SUBSET DOMAIN rows :
        /\ fw \in gone
        /\ \A f \in Files \cap DOMAIN rows : Containers(f) \subseteq gone => f \in gone
        => u \in gone}

\* A file that other images hold loses its paths in this one.  With the objects go
\* their analyses and their comparisons.
DeletionOf(fw) ==
    /\ Stored(fw)
    /\ rows' = [u \in DOMAIN rows \ Cascade(fw) |-> rows[u]]
    /\ LET Remaining(table) == {e \in table : {e[1], e[2]} \cap Cascade(fw) = {}}
       IN  links' = [included |-> Remaining(links.included), fw_files |-> Remaining(links.fw_files),
                     paths |-> {e \in links.paths : /\ e[2] \notin Cascade(fw)
                                                    /\ e[1] = fw => RootsOf(e[2]) = {fw}}]
    /\ compared' = {c \in compared : c \subseteq DOMAIN rows'}
    /\ UNCHANGED available
    /\ Written

\* The backend is started with another set of plugins.
RestartBackend(plugins) ==
    /\ plugins # available
    /\ available' = plugins
    /\ UNCHANGED <<rows, links, compared>>
    /\ Written

-----------------------------------------------------------------------------
(* The requests                                                            *)

ReceivePage(kind, uids, selected, root) ==
    /\ request.kind = "none"
    /\ request' = [kind |-> kind, at |-> 1, uid |-> CHOOSE u \in uids : TRUE, uids |-> uids,
                   selected |-> selected, root |-> root, isFirmware |-> FALSE, object |-> NoObject,
                   tags |-> << >>, todo |-> {}, files |-> {}, summary |-> {}, complete |-> FALSE,
                   answer |-> "none"]
    /\ past' = [always |-> Things(rows, compared), ever |-> Things(rows, compared),
                had |-> Analyses(rows), has |-> Analyses(rows), items |-> ItemsOf(rows),
                under |-> links.fw_files, everUnder |-> links.fw_files, available |-> available]
    /\ UNCHANGED <<rows, links, compared, available, writes>>

At(op) ==
    /\ request.kind # "none" /\ request.answer = "none"
    /\ Program[request.kind][request.at] = op

ReadOnly == UNCHANGED <<rows, links, compared, available, past, writes>>

\* The next statement, with what this one read.
Continue(r) == request' = [r EXCEPT !.at = @ + 1] /\ ReadOnly
AnswerPage(a) == request' = [request EXCEPT !.answer = a] /\ ReadOnly

\* An exception that no handler of the request catches: status 500.
Raise == AnswerPage("raised")

is_firmware ==
    /\ At("is_firmware")
    /\ Continue([request EXCEPT !.isFirmware = request.uid \in Firmwares /\ Stored(request.uid)])

\* Mutant: only firmware images are read.
FirmwareOnly_get_entry ==
    /\ At("get_entry")
    /\ Continue([request EXCEPT !.object =
           IF Stored(request.uid) /\ request.isFirmware
           THEN [stored |-> TRUE, firmware |-> TRUE, analyses |-> rows[request.uid],
                 included |-> Included(request.uid), roots |-> RootUids(request.uid)]
           ELSE NoObject])

\* get_firmware or get_file_object: an image that was stored after is_firmware
\* is read as a file.
get_entry ==
    /\ At("get_entry")
    /\ Continue([request EXCEPT !.object =
           IF Stored(request.uid)
           THEN [stored |-> TRUE, firmware |-> request.isFirmware, analyses |-> rows[request.uid],
                 included |-> Included(request.uid), roots |-> RootUids(request.uid)]
           ELSE NoObject])

\* The tags of the files in the image that are propagated, in the order of the
\* rows: a second value of a type gets a name of its own, unless it is already
\* listed under another name, which replaces the first.
AddTag(tags, found) ==
    LET mine == {k \in DOMAIN tags : k[1] = found.plugin}
        plain == <<found.plugin, found.tag.type, 0>>
        new == plain \in mine /\ \A k \in mine : tags[k] # found.tag
        name == IF new THEN <<found.plugin, found.tag.type, Cardinality(mine)>> ELSE plain
    IN  [k \in DOMAIN tags \cup {name} |-> IF k = name THEN found.tag ELSE tags[k]]

PropagatedTags(u) ==
    UNION {{[uid |-> u, plugin |-> p, tag |-> t] : t \in {t \in rows[u][p].tags : t.propagate}} :
           p \in DOMAIN rows[u] \cap PLUGINS_WITH_TAG_PROPAGATION}

collect_analysis_tags_from_children(order) ==
    LET tags[n \in 0 .. Len(order)] == IF n = 0 THEN << >> ELSE AddTag(tags[n - 1], order[n])
    IN  tags[Len(order)]

collect_tags ==
    /\ At("collect_tags")
    /\ IF request.object.stored /\ request.object.firmware
       THEN LET tagged == UNION {PropagatedTags(f) : f \in AllUnder(request.uid)}
            IN  \E order \in SetToSeqs(tagged) :
                   Continue([request EXCEPT !.tags = collect_analysis_tags_from_children(order)])
       ELSE Continue(request)

\* show_analysis reads the comparisons first.
page_comparisons ==
    /\ At("page_comparisons")
    /\ Continue([request EXCEPT !.files = UNION {c \in compared : request.uid \in c}])

check_found ==
    /\ At("check_found")
    /\ IF request.object.stored THEN Continue(request) ELSE AnswerPage("not found")

check_selected ==
    /\ At("check_selected")
    /\ IF request.selected # "none" /\ request.selected \notin DOMAIN request.object.analyses
       THEN AnswerPage("not analysed") ELSE Continue(request)

\* The flag all_analyzed_flag of the page.
all_uids_found ==
    /\ At("all_uids_found")
    /\ Continue([request EXCEPT !.complete = request.object.included \subseteq DOMAIN rows])

plugins ==
    /\ At("plugins")
    /\ Continue([request EXCEPT !.files = available])

\* _add_preset_from_firmware: a plugin the backend no longer has is a KeyError.
add_preset_from_firmware ==
    /\ At("preset")
    /\ IF DOMAIN request.object.analyses \subseteq request.files THEN Continue(request) ELSE Raise

\* The object is used without asking whether it was found.
use_object ==
    /\ At("use_object")
    /\ IF request.object.stored THEN Continue(request) ELSE Raise

\* Without an image in the URL it is the first one in the virtual paths of the object.
name_root ==
    /\ At("name_root")
    /\ IF request.root # "none" THEN Continue(request)
       ELSE IF request.object.stored
       THEN \E r \in request.object.roots : Continue([request EXCEPT !.root = r])
       ELSE Raise

\* _get_data_for_file_diff: the name of the image, which may be gone.
root_object ==
    /\ At("root_object")
    /\ IF Stored(request.root) THEN Continue(request) ELSE Raise

mime ==
    /\ At("mime")
    /\ IF "file_type" \in DOMAIN request.object.analyses THEN Continue(request)
       ELSE AnswerPage("not analysed")

exists ==
    /\ At("exists")
    /\ IF Stored(request.uid) THEN Continue(request) ELSE AnswerPage("not found")

\* A question to the backend: no answer in time is an error page, or an
\* exception where the missing pair is taken apart.
backend ==
    /\ At("backend")
    /\ \/ Continue(request)
       \/ AnswerPage(IF request.kind \in {"rest_binary", "ajax_get_binary"} THEN "timeout raised"
                     ELSE "timeout")

radare ==
    /\ At("radare")
    /\ Continue(request) \/ AnswerPage("no radare")

\* The children of the object that is looked at, if it is there still.
libraries ==
    /\ At("libraries")
    /\ Continue([request EXCEPT !.files =
           IF request.object.stored
           THEN {f \in request.object.included \cap DOMAIN rows : "elf_analysis" \in DOMAIN rows[f]}
           ELSE {}])

graph_data ==
    /\ At("graph_data")
    /\ LET found == {f \in request.object.included \cap DOMAIN rows :
                        "file_type" \in DOMAIN rows[f]}
           Entry(f) == [Layout[f] EXCEPT
               !.libraries = IF f \in request.files THEN @ ELSE NoElfAnalysis,
               !.paths = [r \in DOMAIN @ \cap RootsOf(f) |-> @[r]]]
           data == SetToSeq({Entry(f) : f \in found})
           nodes == create_data_graph_nodes(data, request.uid, request.root)
       IN  IF ~request.object.stored \/ nodes = << >> THEN AnswerPage("no graph")
           ELSE Continue([request EXCEPT !.files = found,
                                         !.summary = create_data_graph_edges(nodes)])

\* All files of an image by one query, those of a file level by level.
included_files ==
    /\ At("included_files")
    /\ LET found == IF request.object.firmware THEN AllUnder(request.uid)
                    ELSE request.object.included
       IN  Continue([request EXCEPT !.files = {request.uid} \cup found,
                                    !.todo = IF request.object.firmware THEN {} ELSE found])

\* _get_files_in_files, until a level is empty.
files_in_files ==
    /\ At("files_in_files")
    /\ IF request.todo = {} THEN Continue(request)
       ELSE LET below == UNION {Included(u) : u \in request.todo}
            IN  request' = [request EXCEPT !.todo = below, !.files = @ \cup below] /\ ReadOnly

\* The items of the summary with the files they come from; nothing for an
\* analysis the object itself does not have.
collect_summary ==
    /\ At("collect_summary")
    /\ Continue([request EXCEPT !.summary =
           IF request.selected \notin DOMAIN request.object.analyses THEN {}
           ELSE {x \in ItemsOf(rows) : x[1] \in request.files /\ x[2] = request.selected}])

rest_firmware ==
    /\ At("rest_firmware")
    /\ IF request.object.stored /\ request.object.firmware THEN Continue(request)
       ELSE AnswerPage("not found")

objects_exist ==
    /\ At("objects_exist")
    /\ IF request.uids \subseteq DOMAIN rows THEN Continue(request) ELSE AnswerPage("not found")

\* Without a result the page asks to wait, REST says so, and ajax fails on it.
comparison_exists ==
    /\ At("comparison_exists")
    /\ IF request.uids \in compared THEN Continue(request)
       ELSE IF request.kind \in AjaxKinds THEN Raise ELSE AnswerPage("not found")

comparison_entry ==
    /\ At("comparison_entry")
    /\ IF request.uids \in compared THEN Continue(request) ELSE Raise

\* get_data_for_nice_list, and the names of the containers in the paths.
nice_list ==
    /\ At("nice_list")
    /\ Continue([request EXCEPT !.files = request.uids \cap DOMAIN rows])

hid_dict ==
    /\ At("hid_dict")
    /\ Continue([request EXCEPT !.complete = request.files \subseteq DOMAIN rows])

firmware_plugins ==
    /\ At("firmware_plugins")
    /\ Continue([request EXCEPT !.todo =
           {[uid |-> fw, plugins |-> DOMAIN rows[fw]] :
               fw \in {fw \in Firmwares \cap DOMAIN rows : rows[fw] # << >>}}])

Analysed(fw) == {f \in AllUnder(fw) : rows[f] # << >>}

\* Mutant: the difference of the plugins the wrong way round.
Swapped_missing ==
    /\ At("missing")
    /\ IF request.todo = {} THEN Continue(request)
       ELSE \E t \in request.todo :
              /\ request' = [request EXCEPT
                    !.todo = @ \ {t},
                    !.files = @ \cup {f \in Analysed(t.uid) : DOMAIN rows[f] \ t.plugins # {}}]
              /\ ReadOnly

\* One query for each image; a file without any analysis is in none of them.
missing ==
    /\ At("missing")
    /\ IF request.todo = {} THEN Continue(request)
       ELSE \E t \in request.todo :
              /\ request' = [request EXCEPT
                    !.todo = @ \ {t},
                    !.files = @ \cup {f \in Analysed(t.uid) : t.plugins \ DOMAIN rows[f] # {}}]
              /\ ReadOnly

failed ==
    /\ At("failed")
    /\ Continue([request EXCEPT !.summary = {a \in Analyses(rows) : rows[a[1]][a[2]].failed}])

show ==
    /\ At("show")
    /\ AnswerPage("page")

Statement ==
    \/ is_firmware \/ get_entry \/ collect_tags \/ page_comparisons \/ check_found
    \/ check_selected \/ all_uids_found \/ plugins \/ add_preset_from_firmware \/ use_object
    \/ name_root \/ root_object \/ mime \/ exists \/ backend \/ radare \/ libraries \/ graph_data
    \/ included_files \/ files_in_files \/ collect_summary \/ rest_firmware \/ objects_exist
    \/ comparison_exists \/ comparison_entry \/ nice_list \/ hid_dict \/ firmware_plugins
    \/ missing \/ failed \/ show

PageWriter ==
    \/ \E fw \in Firmwares : StoreFirmware(fw)
    \/ \E x \in Contents : StoreFile(x[1], x[2], x[3])
    \/ \E u \in PUids, p \in Plugins, r \in Results : StoreAnalysis(u, p, r)
    \/ \E c \in Comparisons : StoreComparison(c)
    \/ \E fw \in Firmwares : DeletionOf(fw)
    \/ \E p \in Plugins : RestartBackend(Plugins \ {p})

SummaryKinds == {"show_analysis", "download_pdf_report", "rest_firmware_with_summary",
                 "ajax_get_summary"}

\* These two may have the image in the URL.
RootKinds == {"compare_text_files", "show_elf_dependency_graph"}

PageReader ==
    \/ \E kind \in SummaryKinds, u \in PUids, p \in Plugins : ReceivePage(kind, {u}, p, "none")
    \/ \E kind \in (PageKinds \ ComparisonKinds) \ (SummaryKinds \ {"show_analysis"}), u \in PUids :
          ReceivePage(kind, {u}, "none", "none")
    \/ \E kind \in RootKinds, u \in PUids, r \in Firmwares : ReceivePage(kind, {u}, "none", r)
    \/ \E kind \in ComparisonKinds, c \in Comparisons : ReceivePage(kind, c, "none", "none")

PagesNext == PageWriter \/ PageReader \/ Statement

-----------------------------------------------------------------------------
(* Properties                                                              *)

\* The things a request is about.
Asked ==
    IF request.kind \in {"find_missing_analyses", "rest_missing", "ajax_get_binary"} THEN {}
    ELSE IF request.kind \in ComparisonKinds THEN request.uids \cup {request.uids}
    ELSE {request.uid}

Answered == request.kind # "none" /\ request.answer # "none"

\* However others write between its statements, a request about something that
\* is stored all the time is answered: it neither raises nor calls it unknown.
\* There are four exceptions.  The comparison of two texts raises when the image in
\* the URL, or the one that the entry of the file names first, is not stored all the
\* time, even if another image keeps the file (compare_routes.py:205-207).  The form
\* for an update raises when the backend no longer has a plugin that analysed the
\* image.  The REST request for an image does not find the uid of a file.  And two
\* requests for a binary raise when the backend does not answer in time.
StoredIsServed ==
    Answered /\ Asked \subseteq past.always
        => \/ request.answer \notin {"raised", "not found", "timeout raised"}
           \/ request.answer = "raised" /\ request.kind = "compare_text_files"
              /\ request.root \notin past.always
           \/ request.answer = "raised" /\ request.kind = "get_update_analysis"
              /\ past.available # Plugins
           \/ request.answer = "not found" /\ request.uid \in Files
              /\ request.kind \in {"rest_firmware", "rest_firmware_with_summary"}
           \/ request.answer = "timeout raised"
              /\ request.kind \in {"rest_binary", "ajax_get_binary"}

\* A page shows nothing that was not there while the request was served: not an
\* object or a comparison that is unknown, in a summary no file that is not in the
\* object, and no item that no analysis stored.
NothingInvented ==
    Answered /\ request.answer = "page"
        => /\ Asked \subseteq past.ever
           /\ "collect_summary" \in {Program[request.kind][i] : i \in DOMAIN Program[request.kind]}
                 => \A x \in request.summary :
                       x \in past.items /\ x[1] \in {request.uid} \cup Inside[request.uid]
           /\ \A k \in DOMAIN request.tags : request.tags[k].propagate

\* ... and the list of missing analyses has every file that lacked, all the time, an
\* analysis that an image it was in had all the time (and was analysed otherwise), and
\* no file that had, all the time, all the analyses of every image it was in.
MissingIsReported ==
    Answered /\ request.kind \in {"find_missing_analyses", "rest_missing"}
        => \A f \in Files :
              LET Had(u) == {p \in Plugins : <<u, p>> \in past.had}
                  Has(u) == {p \in Plugins : <<u, p>> \in past.has}
              IN  /\ \A fw \in Firmwares :
                       /\ <<fw, f>> \in past.under /\ {f, fw} \subseteq past.always
                       /\ Had(f) # {} /\ ~(Had(fw) \subseteq Has(f))
                       => f \in request.files
                  /\ (\A fw \in Firmwares :
                          <<fw, f>> \in past.everUnder => Has(fw) \subseteq Had(f))
                       => f \notin request.files

AnswersAgree == NothingInvented /\ MissingIsReported
=============================================================================
