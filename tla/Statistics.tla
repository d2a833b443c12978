----------------------------- MODULE Statistics -----------------------------
(***************************************************************************)
(* The numbers of the statistics page: the aggregations of                 *)
(* db_interface_stats.py and what statistic/update.py makes of them, over  *)
(* the databases of QueryConversion.  A match is a set of vendors; AnyFw   *)
(* stands for the empty filter.  Sizes, MIME types, summaries and results  *)
(* of a plugin are all the value its analysis has.                         *)
(***************************************************************************)
EXTENDS QueryConversion, FiniteSetsExt

\* The sum of the values f has on S.
SumOver(f, S) ==
    LET sum[T \in SUBSET DOMAIN f] ==
            IF T = {} THEN 0 ELSE LET x == CHOOSE x \in T : TRUE IN f[x] + sum[T \ {x}]
    IN  sum[S]

AnyFw == {}
Matching(db, match) == {f \in Firmwares(db) : match = AnyFw \/ db[f].fw.vendor \in match}

-----------------------------------------------------------------------------
(* Joins: the rows <<file, image>> a query aggregates *)

\* Mutant: the filter is lost on the way to the images of a file.
JoinFoUnfiltered(db, match) == {r \in (DOMAIN db) \X Firmwares(db) : r[2] \in db[r[1]].roots}

JoinFw(db, match) == {<<f, f>> : f \in Matching(db, match)}
JoinFo(db, match) == {r \in (DOMAIN db) \X Matching(db, match) : r[2] \in db[r[1]].roots}
JoinAll(db, match) == JoinFo(db, match) \cup JoinFw(db, match)
\* Without a filter there is no join: every analysis is one row.
NoJoin(db) == {<<u, u>> : u \in DOMAIN db}
JoinFoIfFiltered(db, match) == IF match = AnyFw THEN NoJoin(db) ELSE JoinFo(db, match)
JoinAllIfFiltered(db, match) == IF match = AnyFw THEN NoJoin(db) ELSE JoinAll(db, match)

WithAnalysis(db, rows, plugin) == {r \in rows : plugin \in DOMAIN db[r[1]].analyses}
WithValue(db, rows, plugin, v) == {r \in WithAnalysis(db, rows, plugin) : db[r[1]].analyses[plugin] = v}

-----------------------------------------------------------------------------
(* Aggregations *)

GetCount(db, match, firmware) == Cardinality(IF firmware THEN JoinFw(db, match) ELSE JoinFo(db, match))
GetSum(db, match, firmware) ==
    SumOver([r \in (DOMAIN db) \X Firmwares(db) |-> db[r[1]].size],
            IF firmware THEN JoinFw(db, match) ELSE JoinFo(db, match))
\* count_distinct_in_analysis and count_values_in_summary
CountInAnalysis(db, match, plugin, firmware, v) ==
    Cardinality(WithValue(db, IF firmware THEN JoinFw(db, match) ELSE JoinFo(db, match), plugin, v))
\* count_distinct_values_in_array, get_software_components, get_regex_mime_match_count
CountInArray(db, match, plugin, v) ==
    Cardinality(WithValue(db, JoinFoIfFiltered(db, match), plugin, v))
\* get_used_unpackers, get_unpacking_file_types, get_unpacking_entropy
CountUnpacked(db, match, plugin, v) ==
    Cardinality(WithValue(db, JoinAllIfFiltered(db, match), plugin, v))

-----------------------------------------------------------------------------
(* statistic/update.py *)

\* get_architecture_stats: of the architectures of an image one that is most
\* frequent; the number of images per architecture is counted.
ArchCount(db, f, plugin, v) == Cardinality(WithValue(db, JoinFo(db, {db[f].fw.vendor}) \cap ((DOMAIN db) \X {f}), plugin, v))
MostFrequent(db, f, plugin, values) ==
    {v \in values : ArchCount(db, f, plugin, v) > 0
                    /\ \A w \in values : ArchCount(db, f, plugin, w) <= ArchCount(db, f, plugin, v)}
\* The choice between equals is the one of the row the database returns first.
ArchStats(db, match, plugin, values, v) ==
    Cardinality({f \in Matching(db, match) :
        MostFrequent(db, f, plugin, values) # {} /\ v = CHOOSE w \in MostFrequent(db, f, plugin, values) : TRUE})

\* The months from the first release to the last; the default date of 1970 is month 0.
DateHistogram(db, match) ==
    LET months == {db[f].fw.date : f \in Matching(db, match)} \ {0}
    IN  IF months = {} THEN <<>>
        ELSE [m \in Min(months) .. Max(months) |-> Cardinality({f \in Matching(db, match) : db[f].fw.date = m})]

\* get_executable_stats does not pass the filter on.
ExecutableStats(db, plugin, v) == CountInArray(db, AnyFw, plugin, v)

\* The entries of update_all_stats, in their order; what is a list of counts there
\* is a function of the values here.
Identifiers == <<"firmware_meta", "file_type", "crypto_material", "unpacking", "architecture", "ips_and_uris",
                 "release_date", "software_components", "elf_executable", "general">>
GetStats(db, match, plugin, values, identifier) ==
    CASE identifier = "firmware_meta" -> [f \in {1} |-> Cardinality(Matching(db, match))]
      [] identifier \in {"file_type", "crypto_material"} ->
            [v \in values |-> CountInAnalysis(db, match, plugin, FALSE, v)]
      [] identifier = "unpacking" -> [v \in values |-> CountUnpacked(db, match, plugin, v)]
      [] identifier = "architecture" -> [v \in values |-> ArchStats(db, match, plugin, values, v)]
      [] identifier \in {"ips_and_uris", "software_components"} ->
            [v \in values |-> CountInArray(db, match, plugin, v)]
      [] identifier = "release_date" -> DateHistogram(db, match)
      [] identifier = "elf_executable" -> [v \in values |-> ExecutableStats(db, plugin, v)]
      [] identifier = "general" ->
            [f \in {1, 2, 3, 4} |->
                CASE f = 1 -> GetCount(db, match, TRUE) [] f = 2 -> GetSum(db, match, TRUE)
                  [] f = 3 -> GetCount(db, match, FALSE) [] f = 4 -> GetSum(db, match, FALSE)]
=============================================================================
