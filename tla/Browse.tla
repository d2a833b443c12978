------------------------------- MODULE Browse -------------------------------
(***************************************************************************)
(* Reading the database with the web interface while it changes: a search  *)
(* that is paged through, the file tree that is unfolded, the statistics   *)
(* that are updated and looked at.  Every query is a step of its own: the  *)
(* sessions read what is committed when a statement runs.                  *)
(***************************************************************************)
EXTENDS Statistics, TreeView

CONSTANTS
    Databases,      \* the contents the database may have at first
    Forms,          \* the requests for a search: [query, only, inverted, cached]
    PerPage,        \* results on a page
    Values,         \* values of analyses
    Plugin,         \* the plugin whose results are counted
    MaxChanges      \* bound on the changes of the database

\* The tables are finite, rows can be put in the order of their names and dates, and
\* the roots of a file are images.
WellFormed(d) ==
    /\ IsFiniteSet(DOMAIN d)
    /\ \A u \in DOMAIN d :
          /\ {"name", "fw", "roots", "size"} \subseteq DOMAIN d[u]
          /\ d[u].name \in Nat /\ d[u].size \in Nat /\ d[u].roots \subseteq Firmwares(d)
          /\ d[u].fw.vendor \in Nat /\ d[u].fw.device \in Nat /\ d[u].fw.date \in Nat

\* A query is a finite document.
ASSUME BrowseConstants ==
    /\ PerPage \in Nat \ {0, 1} /\ MaxChanges \in Nat
    /\ \A f \in Forms : /\ f.query = [and |-> f.query.and, or |-> f.query.or]
                         /\ IsFiniteSet(f.query.and) /\ IsFiniteSet(f.query.or)
    /\ \A d \in Databases : WellFormed(d)

VARIABLES
    db,         \* the tables
    cache,      \* table search_cache: the query of the YARA rules that are used
    search,     \* the search: its request, the pages that were shown, the total
    tree,       \* the layers of the file tree on the page
    stats,      \* table stats
    updating,   \* number of the entry update_all_stats is at, 0 when it does not run
    changes,    \* number of changes so far
    since       \* what changed since the search, the tree or the update began

browseVars == <<db, cache, search, tree, stats, updating, changes, since>>

NoSearch == [step |-> "none"]

BrowseInit ==
    /\ db \in Databases
    /\ cache = BinarySearch({}) /\ search = NoSearch /\ tree = {} /\ stats = <<>> /\ updating = 0
    /\ changes = 0 /\ since = [search |-> FALSE, tree |-> FALSE, stats |-> FALSE]

-----------------------------------------------------------------------------
(* Search *)

\* start_basic_search, start_quick_search and start_advanced_search call browse_database
\* with a query; the result of a binary search is kept as query under its rules.
StartSearch(form) ==
    /\ search = NoSearch /\ tree = {} /\ updating = 0
    /\ search' = [step |-> "search", form |-> form, query |-> form.query, page |-> 1,
                  rows |-> <<>>, seen |-> <<>>, total |-> 0]
    /\ cache' = IF form.cached THEN form.query ELSE cache
    /\ since' = [since EXCEPT !.search = FALSE]
    /\ UNCHANGED <<db, tree, stats, updating, changes>>

\* generic_search: a query that cannot be converted gives an error page.
SearchDatabase ==
    /\ search.step = "search"
    /\ LET f == search.form IN
       IF \E c \in Effective(search.query) : c.op \notin Supported
         THEN search' = [search EXCEPT !.step = "error"]
         ELSE \E s \in Results(db, search.query, f.only, f.inverted) :
                search' = [search EXCEPT
                    !.step = "count", !.query = AfterUse(@),
                    !.rows = ApplyOffsetAndLimit(s, PerPage * (search.page - 1), PerPage)]
    /\ UNCHANGED <<db, cache, tree, stats, updating, changes, since>>

\* A single result is shown at once; otherwise the total is counted with the document
\* that the search has encoded before.
CountMatches ==
    /\ search.step = "count"
    /\ LET f == search.form
           query == search.query
           seen == search.seen \o search.rows
       IN
       search' = IF Len(search.rows) = 1 THEN [search EXCEPT !.step = "single", !.seen = seen]
                 ELSE [search EXCEPT !.step = "page", !.seen = seen,
                         !.total = GetNumberOfTotalMatches(db, query, f.only, f.inverted)]
    /\ UNCHANGED <<db, cache, tree, stats, updating, changes, since>>

\* The next page is a new request, with the query of the form or with what the cache
\* has for the rules by then.
NextPage ==
    /\ search.step = "page" /\ search.page * PerPage < search.total
    /\ search' = [search EXCEPT !.step = "search", !.page = @ + 1,
                         !.query = IF search.form.cached THEN cache ELSE search.form.query]
    /\ UNCHANGED <<db, cache, tree, stats, updating, changes, since>>

\* The REST request: a search for parents needs a query, the inverted one is such a search.
RestSearch(form) ==
    /\ search = NoSearch /\ tree = {} /\ updating = 0
    /\ search' =
         IF (form.only /\ Empty(form.query)) \/ (form.inverted /\ ~form.only)
              \/ \E c \in Effective(form.query) : c.op \notin Supported
           THEN [step |-> "error"]
           ELSE [step |-> "rest", form |-> form,
                 firmwares |-> RestGetFirmwareUids(db, form.query, form.only, form.inverted),
                 files |-> RestGetFileObjectUids(db, form.query)]
    /\ since' = [since EXCEPT !.search = FALSE]
    /\ UNCHANGED <<db, cache, tree, stats, updating, changes>>

-----------------------------------------------------------------------------
(* File tree *)

\* The page of a file is linked with something that contains it, or with itself.
OpenRoot(u, root) ==
    /\ root = u \/ \E p \in db[u].paths : Contains(p.containers, root)
    /\ search = NoSearch /\ tree = {} /\ updating = 0
    /\ \E p \in VirtualFilePaths(db, u, root) :
         tree' = {[uid |-> u, below |-> FALSE, root |-> root, nodes |-> TreeRoot(db, u, p)]}
    /\ since' = [since EXCEPT !.tree = FALSE]
    /\ UNCHANGED <<db, cache, search, stats, updating, changes>>

\* ajax_get_tree_children for a node that is shown, with the root of the page or without
Unfold(u) ==
    /\ u \in UNION {Shown(l.nodes) : l \in tree} /\ ~\E l \in tree : l.uid = u /\ l.below
    /\ u \in DOMAIN db /\ HasChildren(db, u, DOMAIN db)
    /\ LET root == (CHOOSE l \in tree : TRUE).root IN
       \E r \in {root, "none"} : \E s \in SetToSeqs(Layer(db, u, r, DOMAIN db)) :
         tree' = tree \cup {[uid |-> u, below |-> TRUE, root |-> root, nodes |-> GenerateFileTree(s)]}
    /\ UNCHANGED <<db, cache, search, stats, updating, changes, since>>

-----------------------------------------------------------------------------
(* Statistics *)

\* update_all_stats, entry by entry
UpdateStatistic ==
    LET next == Identifiers[updating + 1] IN
    /\ search = NoSearch /\ tree = {}
    /\ stats' = [id \in DOMAIN stats \cup {next} |->
                   IF id = next THEN GetStats(db, AnyFw, Plugin, Values, next) ELSE stats[id]]
    /\ updating' = (updating + 1) % Len(Identifiers)
    /\ since' = IF updating = 0 THEN [since EXCEPT !.stats = FALSE] ELSE since
    /\ UNCHANGED <<db, cache, search, tree, changes>>

-----------------------------------------------------------------------------
(* Changes *)

\* Somebody else searches with the same rules in one image only: the entry is replaced.
OverwriteCache(uids) == cache # BinarySearch({}) /\ cache' = BinarySearch(uids)

\* An analysis comes in, or an image is deleted with the files nothing else contains.
SetAnalysis(u, v) ==
    db' = [db EXCEPT ![u].analyses = [p \in DOMAIN @ \cup {Plugin} |-> IF p = Plugin THEN v ELSE @[p]]]
DeleteFirmware(f) ==
    LET gone == {u \in DOMAIN db : db[u].roots = {f}} \cup {f} IN
    db' = [u \in DOMAIN db \ gone |->
             [db[u] EXCEPT !.roots = @ \ gone, !.parents = @ \ gone, !.paths = {p \in @ : p.root # f}]]

Change ==
    /\ changes < MaxChanges
    /\ changes' = changes + 1
    /\ \/ \E u \in DOMAIN db, v \in Values : SetAnalysis(u, v) /\ UNCHANGED cache
       \/ \E f \in Firmwares(db) : db[f].roots = {} /\ DeleteFirmware(f) /\ UNCHANGED cache
       \/ \E f \in Firmwares(db) : OverwriteCache({f}) /\ UNCHANGED db
    /\ since' = [search |-> TRUE, tree |-> since.tree \/ db' # db, stats |-> since.stats \/ db' # db]
    /\ UNCHANGED <<search, tree, stats, updating>>

BrowseNext ==
    \/ \E form \in Forms : StartSearch(form) \/ RestSearch(form)
    \/ SearchDatabase \/ CountMatches \/ NextPage
    \/ \E u \in DOMAIN db, root \in DOMAIN db : OpenRoot(u, root)
    \/ \E u \in DOMAIN db : Unfold(u)
    \/ UpdateStatistic
    \/ Change

BrowseSpec == BrowseInit /\ [][BrowseNext]_browseVars

-----------------------------------------------------------------------------
(* Properties *)

\* A value that is not listed was not counted.
Number(count, v) == IF v \in DOMAIN count THEN count[v] ELSE 0
AllVendors == {db[f].fw.vendor : f \in Firmwares(db)}

\* When somebody paged through all results of a search while nothing changed, every
\* match was shown once, if no two of them have the same sort key (a page is cut from
\* rows in the order of that key alone) and the query has no condition on a result
\* whose value is encoded again for the count.
PagesShowEveryMatch ==
    LET f == search.form
        matches == BuildGenericSearchQuery(db, f.query, f.only, f.inverted)
    IN
    (/\ search.step \in {"page", "single"} /\ ~since.search
     /\ search.step = "page" => search.page * PerPage >= search.total
     /\ OrdersUniquely(db, f.query, f.only, matches)
     /\ \A c \in f.query.and \cup f.query.or : ~Encoded(c)) =>
        /\ IsInjective(search.seen) /\ ToSet(search.seen) = matches
        /\ search.step = "page" => search.total = Cardinality(matches)

\* Several conditions find what each of them alone finds, all of them or one of them.
\* The exceptions of the single join: conditions on results of two plugins, and an
\* alternative with such a condition for files that have no analysis yet.  And that of
\* $or: keys beside it are dropped, so a quick search is not filtered by the vendor or
\* device class that apply_filters_to_query added to it (of alternatives with conditions
\* beside them, all that meet both are found, and nothing that is not an alternative).
ConditionsCombine ==
    (search.step = "count" /\ ~since.search) =>
        LET q == search.form.query
            alone(c) == BuildQueryFromDict(db, [and |-> {c}, or |-> {}])
            plugins == {c.table : c \in Effective(q)} \ Tables
            alternatives == UNION {alone(c) : c \in q.or}
        IN
        /\ (q.or = {} /\ q.and # {} /\ Cardinality(plugins) <= 1) =>
                \A u \in DOMAIN db : u \in BuildQueryFromDict(db, q) <=> \A c \in q.and : u \in alone(c)
        /\ (q.or # {} /\ plugins = {}) =>
                /\ BuildQueryFromDict(db, q) \subseteq alternatives
                /\ {u \in alternatives : \A c \in q.and : u \in alone(c)} \subseteq BuildQueryFromDict(db, q)

\* The layer below a file shows exactly the files that were unpacked from it, in
\* whatever order the rows come and whether the tree is for an image or for a file,
\* also where a directory and a file have the same name.
TreeShowsEveryFile ==
    ~since.tree =>
        \A l \in tree : l.below =>
            Shown(l.nodes) = {u \in IncludedFiles(db, l.uid) :
                \E p \in db[u].paths : Last(p.containers) = l.uid /\ Contains(p.containers, l.root)}

\* After an update nothing interrupted the stored numbers are the sums of the live
\* numbers for the vendors.  The exceptions: numbers that are counted without a join
\* unless there is a filter only agree if every file with a result is in exactly one
\* image; those of executables are never filtered; of two architectures that are equally
\* frequent in an image the order of the rows picks one; and the number and the size of
\* the files, called unique in update.py and on the page, count a file once for each
\* image it is in.  They are those of the different files if none is in two images.
FilesAreUnique == \A u \in DOMAIN db : Cardinality(db[u].roots) <= 1
FilesOfImages == {u \in DOMAIN db : db[u].roots # {}}

StatisticsAddUp ==
    (~since.stats /\ updating = 0) =>
        /\ \A id \in DOMAIN stats \ {"elf_executable"} :
             /\ id \in {"unpacking", "ips_and_uris", "software_components"} =>
                   \A u \in DOMAIN db : Plugin \in DOMAIN db[u].analyses =>
                       u \notin Firmwares(db) /\ Cardinality(db[u].roots) = 1
             /\ id = "architecture" =>
                   \A f \in Firmwares(db) : Cardinality(MostFrequent(db, f, Plugin, Values)) <= 1
             => \A v \in DOMAIN stats[id] : (id = "general" /\ v \in {3, 4} => FilesAreUnique) =>
                  stats[id][v] =
                      SumOver([w \in AllVendors |-> Number(GetStats(db, {w}, Plugin, Values, id), v)],
                              AllVendors)
        /\ ("general" \in DOMAIN stats /\ FilesAreUnique) =>
             /\ stats["general"][3] = Cardinality(FilesOfImages)
             /\ stats["general"][4] = SumOver([u \in DOMAIN db |-> db[u].size], FilesOfImages)
=============================================================================
