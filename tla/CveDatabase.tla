---------------------------- MODULE CveDatabase ----------------------------
(***************************************************************************)
(* The SQLite database of the plugin cve_lookup while setup_repository.py  *)
(* imports or updates it and an analysis looks a component up in it.       *)
(*                                                                         *)
(* The two are different processes with a connection each.  SQLite locks   *)
(* the file: a process that iterates over a query keeps the others from    *)
(* committing, and get_cursor logs the "database is locked" that a         *)
(* statement ends with after five seconds and goes on without it.  A       *)
(* statement that defines a table commits by itself unless a transaction   *)
(* is open; a DELETE opens one; insert_rows commits.                       *)
(*                                                                         *)
(* The publisher of the feeds (NVD) is external.                           *)
(***************************************************************************)
EXTENDS CveLookup, FiniteSetsExt

CONSTANTS
    Cves,            \* the CVEs that exist
    YearOf,          \* the year in the id of a CVE
    Entries,         \* what may be published about a CVE: a set of
                     \*   [published, rejected, nodes, summary, score]
    CpeRows,         \* the published CPE dictionary
    Published,       \* the entries that may be published about each CVE
    ComponentLists,  \* the lists of components that analyses look up
    StartFeeds,      \* the publications a behaviour may begin with
    StartYears,      \* the years an import may be asked for
    Targets,         \* the values of --target that are used
    MaxNesting,      \* bound: how deep the nodes of a configuration are nested
    MaxPublish,      \* bound: changes of the publication
    MaxRuns,         \* bound: starts of setup_repository.py
    MaxFaults,       \* bound: how often it is killed or a download fails
    MaxLookups       \* bound: lookups

ASSUME CveConstants ==
    /\ YearOf \in [Cves -> Nat]
    /\ StartFeeds \subseteq [Cves -> Entries]
    /\ Published \in [Cves -> SUBSET Entries]
    /\ Targets \subseteq {"cpe", "cve", "both"}
    /\ MaxNesting \in Nat /\ MaxPublish \in Nat /\ MaxRuns \in Nat
    /\ MaxFaults \in Nat /\ MaxLookups \in Nat

Tables == {"cpe_table", "cve_table", "summary_table", "temp_feeds", "temp_sum"}

VARIABLES
    nvd,             \* what is published: a function on Cves
    modified,        \* the CVEs of the feed 'modified'
    db,              \* the committed tables: [exists, rows] for each
    work,            \* the tables as the connection of the setup sees them
    open,            \* a transaction of the setup is open
    files,           \* the feeds in the extraction path
    job,             \* the run of setup_repository.py
    lookup,          \* process_object of an analysis
    seen,            \* history: what the tables held for the product looked up
    spent            \* the bounds used up

cveVars == <<nvd, modified, db, work, open, files, job, lookup, seen, spent>>

dbVars == <<db, work, open>>

NoTable == [exists |-> FALSE, rows |-> {}]

Ids(table) == {r.id : r \in table.rows}

Years(table) == {r.year : r \in table.rows}

-----------------------------------------------------------------------------
(* The statements of database_interface.py, on the tables d a connection   *)
(* sees.  A statement about a table that is missing fails and is logged.   *)

table_exists(d, t) == d[t].exists

drop_table(d, t) == [d EXCEPT ![t] = NoTable]

create(d, t) == [d EXCEPT ![t].exists = TRUE]

\* The rows that have a value for each column; insert_rows ignores the others.
Fitting(rows) == {r \in rows : r.whole}

insert_into(d, t, rows) ==
    IF d[t].exists THEN [d EXCEPT ![t].rows = @ \cup Fitting(rows)] ELSE d

delete_outdated_feeds(d, from, selection) ==
    IF d[from].exists /\ d[selection].exists
    THEN [d EXCEPT ![from].rows = {r \in @ : r.id \notin Ids(d[selection])}]
    ELSE d

extract_relevant_feeds(d, from, where) ==
    IF d[from].exists /\ d[where].exists
    THEN {r \in d[from].rows : r.year \in Years(d[where])}
    ELSE {}

\* The lookup is iterating over a query: nobody can commit.
Reading == lookup.reading

\* CREATE and DROP.
ExecuteDdl(d) ==
    \/ /\ ~open /\ ~Reading
       /\ db' = d /\ work' = d
       /\ open' = open
    \/ /\ ~open /\ Reading               \* locked, logged, not done
       /\ UNCHANGED dbVars
    \/ /\ open
       /\ work' = d
       /\ UNCHANGED <<db, open>>

\* DELETEs followed by insert_rows, whose commit may find the file locked:
\* then the transaction stays open.
ExecuteAndCommit(d) ==
    \/ /\ ~Reading
       /\ db' = d /\ work' = d
       /\ open' = FALSE
    \/ /\ Reading
       /\ work' = d
       /\ open' = TRUE
       /\ UNCHANGED db

\* insert_rows into a table that is missing raises before it commits: the
\* DELETEs before it stay in an open transaction.
ExecuteWithoutCommit(d) ==
    /\ work' = d
    /\ open' = (open \/ d # work)
    /\ UNCHANGED db

-----------------------------------------------------------------------------
(* The feeds: a file is a set of [id, entry].                              *)

FeedOf(cves) == {[id |-> c, entry |-> nvd[c]] : c \in {c \in cves : nvd[c].published}}

setup_cpe_table == CpeRows

\* A node of a configuration has the key cpe_match, or nodes below it; only the
\* vulnerable matches count.
extract_cpe_data_from_cve(nodes) ==
    LET Below(ns) == UNION {n.children : n \in {n \in ns : /\ "children" \in DOMAIN n
                                                           /\ "cpe_match" \notin DOMAIN n}}
        level[i \in 0 .. MaxNesting] == IF i = 0 THEN nodes ELSE Below(level[i - 1])
        leaves == {n \in UNION {level[i] : i \in 0 .. MaxNesting} : "cpe_match" \in DOMAIN n}
    IN  {m.row : m \in {m \in UNION {n.cpe_match : n \in leaves} : m.vulnerable}}

\* A CVE with configurations goes to the feeds, one without to the summaries
\* unless it is rejected.
extract_data_from_cve(feed) ==
    [cves |-> {f \in feed : f.entry.nodes # {}},
     summaries |-> {f \in feed : f.entry.nodes = {} /\ ~f.entry.rejected}]

\* A row is not whole if its CPE name does not split into all its parts.
setup_cve_feeds_table(feed) ==
    UNION {{[whole |-> r.whole, id |-> f.id, year |-> YearOf[f.id], score |-> f.entry.score,
             vendor |-> r.vendor, product |-> r.product, version |-> r.version,
             startIncluding |-> r.startIncluding, startExcluding |-> r.startExcluding,
             endIncluding |-> r.endIncluding, endExcluding |-> r.endExcluding] :
                r \in extract_cpe_data_from_cve(f.entry.nodes)} :
           f \in extract_data_from_cve(feed).cves}

setup_cve_summary_table(feed) ==
    {[whole |-> TRUE, id |-> f.id, year |-> YearOf[f.id], summary |-> f.entry.summary,
      score |-> f.entry.score] : f \in extract_data_from_cve(feed).summaries}

\* overlap: the years asked for that the database does not have yet; import_cve
\* takes all of them again when there is none.
YearSelection(years) ==
    LET missing == years \ Years(work["cve_table"])
    IN  IF table_exists(work, "cve_table") /\ missing # {} THEN missing ELSE years

-----------------------------------------------------------------------------
IdleJob == [pc |-> "idle", update |-> FALSE, target |-> "both", years |-> {},
            feed |-> {}, clean |-> FALSE, before |-> {}]

IdleLookup == [pc |-> "idle", reading |-> FALSE, todo |-> << >>, products |-> {},
               hits |-> {}, summaryHits |-> {}, results |-> {}, tagged |-> FALSE,
               unlinked |-> FALSE, old |-> [t \in Tables |-> NoTable]]

NothingSeen == [always |-> {}, ever |-> {}, moved |-> {}, locked |-> {}]

\* No database yet, or the one that a first import of everything leaves.
EmptyDb == [t \in Tables |-> NoTable]

ImportedDb ==
    LET feed == FeedOf(Cves)
        Filled(rows) == [exists |-> TRUE, rows |-> Fitting(rows)]
    IN  [EmptyDb EXCEPT !["cpe_table"] = Filled(setup_cpe_table),
                        !["cve_table"] = Filled(setup_cve_feeds_table(feed)),
                        !["summary_table"] = IF setup_cve_summary_table(feed) = {} THEN NoTable
                                             ELSE Filled(setup_cve_summary_table(feed))]

CveInit ==
    /\ nvd \in StartFeeds
    /\ modified = {}
    /\ db \in {EmptyDb, ImportedDb}
    /\ work = db
    /\ open = FALSE
    /\ files = {}
    /\ job = IdleJob
    /\ lookup = IdleLookup
    /\ seen = NothingSeen
    /\ spent = [publish |-> 0, runs |-> 0, faults |-> 0, lookups |-> 0]

\* The committed tables of the file a lookup has open: the file that it opened,
\* also after the file was unlinked.
View == IF lookup.unlinked THEN lookup.old ELSE db

Connected == lookup.pc \notin {"idle", "next", "analyzed", "raised"}

At(l) == job.pc = l

\* job.clean: no remains of an earlier run, and no statement was locked out.
Proceed(l) == job' = [job EXCEPT !.pc = l, !.clean = @ /\ ~Reading]

-----------------------------------------------------------------------------
(* setup_repository.py                                                     *)

cpe_was_chosen(target) == target \in {"cpe", "both"}
cve_was_chosen(target) == target \in {"cve", "both"}

Start(update, target, years) ==
    /\ At("idle")
    /\ spent.runs < MaxRuns
    /\ spent' = [spent EXCEPT !.runs = @ + 1]
    /\ job' = [IdleJob EXCEPT !.pc = CASE ~cpe_was_chosen(target) -> "cve"
                                       [] OTHER -> "cpe",
                              !.update = update, !.target = target, !.years = years,
                              !.clean = /\ ~work["temp_feeds"].exists
                                        /\ ~work["temp_sum"].exists
                                        /\ files = {},
                              !.before = Years(db["cve_table"])]
    /\ UNCHANGED <<nvd, modified, db, work, open, files, lookup>>

\* update_cpe and import_cpe, up to the download.
CheckCpe ==
    /\ At("cpe")
    /\ Proceed(CASE job.update # table_exists(work, "cpe_table") -> "failed"
                 [] job.update -> "drop_cpe"
                 [] OTHER -> "create_cpe")
    /\ UNCHANGED <<nvd, modified, db, work, open, files, lookup, spent>>

DropCpe ==
    /\ At("drop_cpe")
    /\ ExecuteDdl(drop_table(work, "cpe_table"))
    /\ Proceed("create_cpe")
    /\ UNCHANGED <<nvd, modified, files, lookup, spent>>

CreateCpe ==
    /\ At("create_cpe")
    /\ ExecuteDdl(create(work, "cpe_table"))
    /\ Proceed("insert_cpe")
    /\ UNCHANGED <<nvd, modified, files, lookup, spent>>

\* get_cpe_content downloads the dictionary, then its rows are inserted.
InsertCpe ==
    /\ At("insert_cpe")
    /\ IF work["cpe_table"].exists
       THEN ExecuteAndCommit(insert_into(work, "cpe_table", setup_cpe_table))
       ELSE ExecuteWithoutCommit(work)
    /\ Proceed(IF cve_was_chosen(job.target) THEN "cve" ELSE "done")
    /\ UNCHANGED <<nvd, modified, files, lookup, spent>>

\* The first lines of update_cve_repository and import_cve, and the download.
DownloadModified ==
    /\ At("cve") /\ job.update /\ table_exists(work, "cve_table")
    /\ files' = {f \in files : f.name # "modified"}
                    \cup {[name |-> "modified", feed |-> FeedOf(modified)]}
    /\ \E f \in files' : job' = [job EXCEPT !.pc = "temp_feeds", !.feed = f.feed]
    /\ UNCHANGED <<nvd, modified, db, work, open, lookup, spent>>

DownloadYears ==
    /\ At("cve") /\ ~job.update
    /\ LET selection == YearSelection(job.years)
       IN  files' = {f \in files : f.name \notin {"year" \o ToString(y) : y \in selection}}
               \cup {[name |-> "year" \o ToString(y),
                      feed |-> FeedOf({c \in Cves : YearOf[c] = y})] : y \in selection}
    /\ job' = [job EXCEPT !.pc = "create_cve", !.feed = UNION {f.feed : f \in files'}]
    /\ UNCHANGED <<nvd, modified, db, work, open, lookup, spent>>

NoCveTable ==
    /\ At("cve") /\ job.update /\ ~table_exists(work, "cve_table")
    /\ Proceed("failed")
    /\ UNCHANGED <<nvd, modified, db, work, open, files, lookup, spent>>

\* Three attempts failed, or the answer is not a zip file: CveLookupException.
DownloadFails ==
    /\ job.pc \in {"insert_cpe", "cve"}
    /\ At("cve") /\ job.update => table_exists(work, "cve_table")
    /\ spent.faults < MaxFaults
    /\ spent' = [spent EXCEPT !.faults = @ + 1]
    /\ Proceed("failed")
    /\ UNCHANGED <<nvd, modified, db, work, open, files, lookup>>

-----------------------------------------------------------------------------
(* import_cve                                                              *)

\* init_cve_feeds_table and init_cve_summaries_table: two steps each.
CreateTable(pc, t, next) ==
    /\ At(pc)
    /\ ExecuteDdl(create(work, t))
    /\ Proceed(next)
    /\ UNCHANGED <<nvd, modified, files, lookup, spent>>

InsertRows(pc, t, rows, next) ==
    /\ At(pc)
    /\ IF work[t].exists
       THEN ExecuteAndCommit(insert_into(work, t, rows))
       ELSE ExecuteWithoutCommit(work)
    /\ Proceed(next)
    /\ UNCHANGED <<nvd, modified, files, lookup, spent>>

Summaries == setup_cve_summary_table(job.feed)

ImportCve ==
    \/ CreateTable("create_cve", "cve_table", "insert_cve")
    \/ InsertRows("insert_cve", "cve_table", setup_cve_feeds_table(job.feed),
                  IF Summaries = {} THEN "done" ELSE "create_summaries")
    \/ CreateTable("create_summaries", "summary_table", "insert_summaries")
    \/ InsertRows("insert_summaries", "summary_table", Summaries, "done")

-----------------------------------------------------------------------------
(* update_cve_repository                                                   *)

\* update_cve_feeds: read, DELETE, INSERT, commit.
NoDelete_update_cve_feeds(d) ==
    insert_into(d, "cve_table", extract_relevant_feeds(d, "temp_feeds", "cve_table"))

update_cve_feeds(d) ==
    insert_into(delete_outdated_feeds(d, "cve_table", "temp_feeds"), "cve_table",
                extract_relevant_feeds(d, "temp_feeds", "cve_table"))

UpdateCveFeeds ==
    /\ At("update_feeds")
    /\ ExecuteAndCommit(update_cve_feeds(work))
    /\ Proceed(IF Summaries = {} THEN "drop_feeds" ELSE "temp_sum")
    /\ UNCHANGED <<nvd, modified, files, lookup, spent>>

\* The second half of update_cve_summaries; the first creates the table.
DeleteSummaries(d) ==
    delete_outdated_feeds(delete_outdated_feeds(d, "summary_table", "temp_sum"),
                          "summary_table", "temp_feeds")

LateExtract_update_cve_summaries(d) ==
    LET deleted == delete_outdated_feeds(DeleteSummaries(d), "cve_table", "temp_sum")
    IN  insert_into(deleted, "summary_table",
                    extract_relevant_feeds(deleted, "temp_sum", "cve_table"))

update_cve_summaries(d) ==
    insert_into(delete_outdated_feeds(DeleteSummaries(d), "cve_table", "temp_sum"),
                "summary_table", extract_relevant_feeds(d, "temp_sum", "cve_table"))

CreateSummaries ==
    /\ At("need_summaries")
    /\ IF table_exists(work, "summary_table")
       THEN UNCHANGED dbVars
       ELSE ExecuteDdl(create(work, "summary_table"))
    /\ Proceed("update_summaries")
    /\ UNCHANGED <<nvd, modified, files, lookup, spent>>

UpdateCveSummaries ==
    /\ At("update_summaries")
    /\ IF work["summary_table"].exists
       THEN ExecuteAndCommit(update_cve_summaries(work))
       ELSE ExecuteWithoutCommit(update_cve_summaries(work))
    /\ Proceed("drop_sum")
    /\ UNCHANGED <<nvd, modified, files, lookup, spent>>

DropTable(pc, t, next) ==
    /\ At(pc)
    /\ ExecuteDdl(drop_table(work, t))
    /\ Proceed(next)
    /\ UNCHANGED <<nvd, modified, files, lookup, spent>>

UpdateCve ==
    \/ CreateTable("temp_feeds", "temp_feeds", "fill_feeds")
    \/ InsertRows("fill_feeds", "temp_feeds", setup_cve_feeds_table(job.feed), "update_feeds")
    \/ UpdateCveFeeds
    \/ CreateTable("temp_sum", "temp_sum", "fill_sum")
    \/ InsertRows("fill_sum", "temp_sum", Summaries, "need_summaries")
    \/ CreateSummaries
    \/ UpdateCveSummaries
    \/ DropTable("drop_sum", "temp_sum", "drop_feeds")
    \/ DropTable("drop_feeds", "temp_feeds", "done")

-----------------------------------------------------------------------------
(* The end of a run: the process exits, so an open transaction is lost.    *)

Finish ==
    /\ At("done")
    /\ job' = IdleJob
    /\ work' = db
    /\ open' = FALSE
    /\ files' = {}
    /\ UNCHANGED <<nvd, modified, db, lookup, spent>>

\* The end after a CveLookupException.  A failed import removes the file.
Unlink == At("failed") /\ ~job.update

ExitFailed ==
    /\ At("failed")
    /\ job' = IdleJob
    /\ db' = IF Unlink THEN EmptyDb ELSE db
    /\ lookup' = IF Unlink /\ Connected /\ ~lookup.unlinked
                 THEN [lookup EXCEPT !.unlinked = TRUE, !.old = db]
                 ELSE lookup
    /\ work' = db'
    /\ open' = FALSE
    /\ files' = {}
    /\ UNCHANGED <<nvd, modified, spent>>

\* The process is killed: neither the temporary tables nor the feeds go away.
Crash ==
    /\ ~At("idle")
    /\ spent.faults < MaxFaults
    /\ spent' = [spent EXCEPT !.faults = @ + 1]
    /\ job' = IdleJob
    /\ work' = db
    /\ open' = FALSE
    /\ UNCHANGED <<nvd, modified, db, files, lookup>>

\* External: something new is published about a CVE.  Only a download looks at
\* it, so publications between two runs are all the publications there are.
Publish(c, e) ==
    /\ At("idle") /\ ~Connected
    /\ spent.publish < MaxPublish
    /\ e # nvd[c] /\ e.published
    /\ spent' = [spent EXCEPT !.publish = @ + 1]
    /\ nvd' = [nvd EXCEPT ![c] = e]
    /\ modified' = modified \cup {c}
    /\ UNCHANGED <<db, work, open, files, job, lookup>>

-----------------------------------------------------------------------------
(* process_object: look_up_vulnerabilities for one component after the     *)
(* other, each with a connection of its own and three queries, each of     *)
(* which may take longer than a writer waits.                              *)

BeginAnalysis(components) ==
    /\ lookup.pc \in {"idle", "analyzed", "raised"}
    /\ spent.lookups < MaxLookups
    /\ spent' = [spent EXCEPT !.lookups = @ + 1]
    /\ lookup' = [IdleLookup EXCEPT !.pc = "next", !.todo = components]
    /\ UNCHANGED <<nvd, modified, db, work, open, files, job>>

BeginLookup ==
    /\ lookup.pc = "next" /\ lookup.todo # << >>
    /\ lookup' = [lookup EXCEPT !.pc = "cpe", !.reading = TRUE, !.unlinked = FALSE,
                                !.hits = {}, !.products = {}]
    /\ UNCHANGED <<nvd, modified, db, work, open, files, job, spent>>

Requested == split_component(Head(lookup.todo))

\* None: the component is not mentioned in the results.
NextComponent == [lookup EXCEPT !.pc = "next", !.reading = FALSE, !.todo = Tail(@),
                                !.unlinked = FALSE]

\* A statement of the setup has the file locked: while it runs, while it waits for
\* the end of another query, and when its commit was locked out.
Locked == open \/ job.pc \notin {"idle", "cpe", "cve", "failed", "done"}

\* A query that finds the file locked for five seconds is logged by get_cursor and
\* yields no rows.
QueryLockedOut ==
    /\ Locked /\ ~lookup.unlinked
    /\ \/ /\ lookup.pc = "next" /\ lookup.todo # << >>
          /\ lookup' = NextComponent
       \/ /\ lookup.pc = "matched"
          /\ lookup' = [lookup EXCEPT !.pc = "searched", !.hits = {}]
       \/ /\ lookup.pc = "searched"
          /\ lookup' = [lookup EXCEPT !.pc = "found"]
    /\ UNCHANGED <<nvd, modified, db, work, open, files, job, spent>>

\* match_cpe and find_matching_cpe_product.
MatchCpe ==
    /\ lookup.pc = "cpe"
    /\ LET matches == match_cpe(View["cpe_table"].rows,
                                generate_search_terms(Requested.name))
           chosen == find_matching_cpe_product(matches, Requested.version)
       IN  \/ /\ SortRaises(matches, Requested.version)
              /\ lookup' = [IdleLookup EXCEPT !.pc = "raised"]
           \/ /\ ~SortRaises(matches, Requested.version)
              /\ chosen = {}
              /\ lookup' = NextComponent
           \/ /\ ~SortRaises(matches, Requested.version)
              /\ \E p \in chosen :
                     lookup' = [lookup EXCEPT !.pc = "matched", !.reading = FALSE,
                                              !.products = {p}]
    /\ UNCHANGED <<nvd, modified, db, work, open, files, job, spent>>

TheProduct == CHOOSE p \in lookup.products : TRUE

\* A query sees the file as it is when its first row is read.
SearchCve ==
    /\ lookup.pc = "matched"
    /\ lookup' = [lookup EXCEPT !.pc = "cve", !.reading = TRUE,
                                !.hits = search_cve(View["cve_table"].rows, TheProduct)]
    /\ UNCHANGED <<nvd, modified, db, work, open, files, job, spent>>

SearchedCve ==
    /\ lookup.pc = "cve"
    /\ lookup' = [lookup EXCEPT !.pc = "searched", !.reading = FALSE]
    /\ UNCHANGED <<nvd, modified, db, work, open, files, job, spent>>

SearchCveSummary ==
    /\ lookup.pc = "searched"
    /\ lookup' = [lookup EXCEPT !.pc = "summary", !.reading = TRUE,
                                !.summaryHits =
                                    search_cve_summary(View["summary_table"].rows, TheProduct)]
    /\ UNCHANGED <<nvd, modified, db, work, open, files, job, spent>>

SearchedSummary ==
    /\ lookup.pc = "summary"
    /\ lookup' = [lookup EXCEPT !.pc = "found", !.reading = FALSE,
                                !.hits = Candidates(@, lookup.summaryHits),
                                !.summaryHits = {}]
    /\ UNCHANGED <<nvd, modified, db, work, open, files, job, spent>>

KeepResult ==
    /\ lookup.pc = "found"
    /\ lookup' = [NextComponent EXCEPT
                      !.results = IF lookup.hits = {} THEN @
                                  ELSE @ \cup {[component |-> Head(lookup.todo),
                                                hits |-> lookup.hits]},
                      !.hits = {}, !.products = {}]
    /\ UNCHANGED <<nvd, modified, db, work, open, files, job, spent>>

\* The summary and the tag are made of the results of all components.
CreateSummary ==
    /\ lookup.pc = "next" /\ lookup.todo = << >>
    /\ lookup' = [lookup EXCEPT !.pc = "analyzed", !.results = create_summary(@),
                                !.tagged = add_tags(lookup.results)]
    /\ UNCHANGED <<nvd, modified, db, work, open, files, job, spent>>

-----------------------------------------------------------------------------
(* History: the CVEs that the tables held for the product all the time     *)
(* since it was chosen, those they ever held for it, those that left the   *)
(* summaries for the feeds after the feeds were read, and those that a     *)
(* query would have found that was locked out.                             *)

Listed(d, p) ==
    {r.id : r \in search_cve(d["cve_table"].rows, p)}
        \cup {r.id : r \in search_cve_summary(d["summary_table"].rows, p)}

Chosen == lookup.pc \in {"matched", "cve", "searched", "summary"}

HitsLockedOut ==
    CASE lookup.pc = "matched" /\ lookup'.pc = "searched" ->
             {r.id : r \in search_cve(View["cve_table"].rows, TheProduct)}
      [] lookup.pc = "searched" /\ lookup'.pc = "found" ->
             {r.id : r \in search_cve_summary(View["summary_table"].rows, TheProduct)}
      [] OTHER -> {}

WatchLookup ==
    seen' = CASE ~Chosen /\ Chosen' ->
                     [always |-> Listed(View', TheProduct'),
                      ever |-> Listed(View', TheProduct'), moved |-> {}, locked |-> {}]
              [] Chosen ->
                     [always |-> seen.always \cap Listed(View', TheProduct),
                      ever |-> seen.ever \cup Listed(View', TheProduct),
                      moved |-> seen.moved \cup
                          IF lookup.pc = "searched"
                          THEN (Ids(View["summary_table"]) \ Ids(View'["summary_table"]))
                                   \cap Ids(View'["cve_table"])
                          ELSE {},
                      locked |-> seen.locked \cup HitsLockedOut]
              [] lookup.pc = "found" /\ lookup'.pc = "found" -> seen
              [] OTHER -> NothingSeen

-----------------------------------------------------------------------------
Setup ==
    \/ \E target \in Targets :
          \/ Start(TRUE, target, {})
          \/ \E years \in StartYears : Start(FALSE, target, years)
    \/ CheckCpe \/ DropCpe \/ CreateCpe \/ InsertCpe
    \/ DownloadModified \/ DownloadYears \/ NoCveTable \/ DownloadFails
    \/ ImportCve \/ UpdateCve
    \/ Finish \/ ExitFailed \/ Crash

Lookup ==
    \/ \E c \in ComponentLists : BeginAnalysis(c)
    \/ BeginLookup \/ QueryLockedOut \/ MatchCpe \/ SearchCve \/ SearchedCve \/ SearchCveSummary
    \/ SearchedSummary \/ KeepResult \/ CreateSummary

CveNext ==
    /\ \/ Setup
       \/ Lookup
       \/ \E c \in Cves : \E e \in Published[c] : Publish(c, e)
    /\ WatchLookup

CveSpec == CveInit /\ [][CveNext]_cveVars

-----------------------------------------------------------------------------
(* Properties                                                              *)

\* A CVE that the tables hold and whose year has rows in the feeds is never
\* without an entry afterwards: neither in the middle of an update that moves
\* it between the tables, nor after a kill, a failed download or statements
\* that were locked out (update_cve_feeds and update_cve_summaries delete
\* before they insert).  Only a failed import, which removes the file, ends it.
KnownStaysKnown ==
    [][~Unlink =>
        \A c \in Ids(db["cve_table"]) \cup Ids(db["summary_table"]) :
            YearOf[c] \in Years(db["cve_table"]) =>
                c \in Ids(db'["cve_table"]) \cup Ids(db'["summary_table"])]_cveVars

\* An update of the CVEs that found no remains of an earlier run and was never
\* locked out: what the tables hold about a CVE of the feed, if its year was in
\* the database, is what the feed says, in one of the two tables, without the
\* rows that do not fit their table (insert_rows).  Two things stay as they were:
\* a CVE that is now rejected or has no vulnerable configuration that fits, and an
\* old summary if the feed has no summary at all (update_cve_repository).
UpdateAgreesWithFeed ==
    At("done") /\ job.update /\ cve_was_chosen(job.target) /\ job.clean =>
        \A f \in job.feed : YearOf[f.id] \in job.before =>
            LET Rows(t) == {r \in db[t].rows : r.id = f.id}
                feeds == Fitting(setup_cve_feeds_table({f}))
                summaries == setup_cve_summary_table({f})
            IN  /\ feeds # {} => /\ Rows("cve_table") = feeds
                                 /\ Summaries # {} => Rows("summary_table") = {}
                /\ summaries # {} => /\ Rows("summary_table") = summaries
                                     /\ Rows("cve_table") = {}

\* A lookup reports every CVE that the tables held for the chosen product all
\* the time, with two exceptions: one that an update moved from the summaries to
\* the feeds between the two queries, and one that a query would have found that
\* the setup locked out (database_interface.py:102-104,130-131: the error is
\* logged, and the query yields no rows).  It reports no CVE that the tables never
\* held for the product (look_up_vulnerabilities reads them in two queries).
LookupMissesOnlyMoved ==
    lookup.pc = "found" =>
        LET ids == {r.id : r \in lookup.hits}
        IN  /\ seen.always \ (seen.moved \cup seen.locked) \subseteq ids
            /\ ids \subseteq seen.ever
=============================================================================
