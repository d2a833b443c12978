-------------------------- MODULE QueryConversion --------------------------
(***************************************************************************)
(* From a search query to the rows the database finds: query_conversion.py *)
(* and the searches of db_interface_frontend.py built on it.               *)
(*                                                                         *)
(* db maps the stored uids to records                                      *)
(*   name      file name                                                   *)
(*   fw        the columns of the firmware entry, NoFw for a plain file    *)
(*   roots     uids of the images that contain the file                    *)
(*   analyses  plugin -> value of the result key that is searched          *)
(* A condition is [table, key, op, value, dumps]: table is "file_object",  *)
(* "firmware" or a plugin; dumps counts how often the value was encoded.   *)
(* A query is [and, or]: the keys of the document and those below $or.     *)
(* Names are numbers, in the order of the database.                        *)
(***************************************************************************)
EXTENDS Naturals, Sequences, FiniteSets, SequencesExt

NoFw == [vendor |-> 0, device |-> 0, date |-> 0]
Firmwares(db) == {u \in DOMAIN db : db[u].fw # NoFw}

-----------------------------------------------------------------------------
(* Conditions *)

Tables == {"file_object", "firmware"}
OnAnalysis(c) == c.table \notin Tables

\* The operators whose value _add_json_filter encodes: the others search the text.
Encoded(c) == OnAnalysis(c) /\ c.op \in {"$regex", "$gt", "$lt", "$contains"}

\* The values of a column that an operator lets through.
DictKeyToFilter(op, column, value) ==
    CASE op = "=" -> column = value
      [] op = "$like" -> column = value
      [] op = "$in" -> column \in value
      [] op = "$regex" -> column = value
      [] op = "$exists" -> TRUE

\* What _dict_key_to_filter raises a QueryConversionException for.
Supported == {"=", "$like", "$in", "$regex", "$exists", "$lt", "$gt", "$contains"}

\* A row of the joined tables: a file, its firmware entry and one analysis.
\* A missing analysis or entry has NULL columns, which no condition matches.  The query
\* encodes the value: an encoded one matches if that is the first time.
Holds(db, c, row) ==
    CASE c.table = "file_object" ->
            DictKeyToFilter(c.op, IF c.key = "uid" THEN row.uid ELSE db[row.uid].name, c.value)
      [] c.table = "firmware" -> row.fw # NoFw /\ DictKeyToFilter(c.op, row.fw[c.key], c.value)
      [] OTHER ->
            /\ row.plugin = c.table
            /\ Encoded(c) => c.dumps = 0
            /\ DictKeyToFilter(c.op, db[row.uid].analyses[row.plugin], c.value)

\* $or replaces the document it is in.
Effective(query) == IF query.or # {} THEN query.or ELSE query.and

\* Mutant: the firmware entry is required for alternatives too.
JoinedInner(db, query, u) ==
    {row \in [uid : {u}, fw : {db[u].fw}, plugin : DOMAIN db[u].analyses \cup {"none"}] :
        /\ (row.plugin = "none") <=> (\A c \in Effective(query) : ~OnAnalysis(c))
        /\ (\E c \in Effective(query) : c.table = "firmware") => row.fw # NoFw}

\* One join with the analyses serves all conditions; the firmware entry is
\* required unless the conditions are alternatives.
Joined(db, query, u) ==
    {row \in [uid : {u}, fw : {db[u].fw}, plugin : DOMAIN db[u].analyses \cup {"none"}] :
        /\ (row.plugin = "none") <=> (\A c \in Effective(query) : ~OnAnalysis(c))
        /\ (query.or = {} /\ \E c \in Effective(query) : c.table = "firmware") => row.fw # NoFw}

Satisfies(db, query, row) ==
    IF query.or # {} THEN \E c \in query.or : Holds(db, c, row)
    ELSE \A c \in query.and : Holds(db, c, row)

BuildQueryFromDict(db, query) ==
    {u \in DOMAIN db : \E row \in Joined(db, query, u) : Satisfies(db, query, row)}

-----------------------------------------------------------------------------
(* Searches *)

ParentMatches(db, query) ==
    {root \in DOMAIN db : \E u \in BuildQueryFromDict(db, query) : root \in db[u].roots \cup {u}}

QueryParentFirmware(db, query, inverted) ==
    IF inverted THEN Firmwares(db) \ ParentMatches(db, query)
    ELSE Firmwares(db) \cap ParentMatches(db, query)

Empty(query) == query.and = {} /\ query.or = {}

\* The uids of generic_search, before order and limit.
BuildGenericSearchQuery(db, query, onlyFirmware, inverted) ==
    IF Empty(query) THEN Firmwares(db)
    ELSE IF onlyFirmware THEN QueryParentFirmware(db, query, inverted)
    ELSE BuildQueryFromDict(db, query)

\* ORDER BY vendor and device name, or the file name ...
SortKey(db, query, onlyFirmware, u) ==
    IF Empty(query) \/ onlyFirmware THEN <<db[u].fw.vendor, db[u].fw.device>> ELSE <<db[u].name, 0>>
NotAfter(k, l) == k[1] < l[1] \/ (k[1] = l[1] /\ k[2] <= l[2])

\* ... where rows with the same key come in any order, not always in the same one.
Results(db, query, onlyFirmware, inverted) ==
    LET key(u) == SortKey(db, query, onlyFirmware, u) IN
    {s \in SetToSeqs(BuildGenericSearchQuery(db, query, onlyFirmware, inverted)) :
        \A i \in 1 .. Len(s) - 1 : NotAfter(key(s[i]), key(s[i + 1]))}
OrdersUniquely(db, query, onlyFirmware, uids) ==
    \A u, v \in uids : SortKey(db, query, onlyFirmware, u) = SortKey(db, query, onlyFirmware, v) => u = v

ApplyOffsetAndLimit(s, skip, limit) ==
    SubSeq(s, skip + 1, IF limit = 0 THEN Len(s) ELSE IF skip + limit < Len(s) THEN skip + limit ELSE Len(s))

\* Building a query encodes the values once more, and the document keeps them.
AfterUse(query) ==
    LET dump(c) == IF Encoded(c) THEN [c EXCEPT !.dumps = @ + 1] ELSE c
    IN  IF query.or # {} THEN [query EXCEPT !.or = {dump(c) : c \in @}]
        ELSE [query EXCEPT !.and = {dump(c) : c \in @}]

\* Mutant: the count is never inverted.
CountNotInverted(db, query, onlyFirmware, inverted) ==
    Cardinality(
        IF Empty(query) THEN Firmwares(db)
        ELSE IF ~onlyFirmware THEN BuildQueryFromDict(db, query)
        ELSE QueryParentFirmware(db, query, FALSE))

GetNumberOfTotalMatches(db, query, onlyFirmware, inverted) ==
    Cardinality(
        IF Empty(query) THEN Firmwares(db)
        ELSE IF ~onlyFirmware THEN BuildQueryFromDict(db, query)
        ELSE QueryParentFirmware(db, query, inverted))

\* rest_get_firmware_uids: with recursive like the pages, else the images themselves.
RestGetFirmwareUids(db, query, recursive, inverted) ==
    IF recursive THEN BuildGenericSearchQuery(db, query, TRUE, inverted)
    ELSE Firmwares(db) \cap (IF Empty(query) THEN DOMAIN db ELSE BuildQueryFromDict(db, query))
RestGetFileObjectUids(db, query) ==
    IF Empty(query) THEN DOMAIN db ELSE BuildGenericSearchQuery(db, query, FALSE, FALSE)

-----------------------------------------------------------------------------
(* Forms *)

Cond(table, key, op, value) == [table |-> table, key |-> key, op |-> op, value |-> value, dumps |-> 0]

\* _build_search_query: a field that is empty (0, {}) has no condition; a hash is looked
\* for in the results of file_hashes, below $or.
BuildSearchQuery(vendors, name, hash) ==
    [and |-> {Cond("firmware", "vendor", "$in", v) : v \in {vendors} \ {{}}}
             \cup {Cond("file_object", "file_name", "$like", n) : n \in {name} \ {0}},
     or |-> {Cond("file_hashes", "value", "=", h) : h \in {hash} \ {0}}]

QuickSearch(term) ==
    [and |-> {},
     or |-> {Cond("firmware", "device", "$like", term), Cond("firmware", "vendor", "$like", term),
             Cond("file_object", "file_name", "$like", term)}]

BinarySearch(uids) == [and |-> {Cond("file_object", "uid", "$in", uids)}, or |-> {}]

\* apply_filters_to_query and _add_date_to_query: the document gets a key more, or the
\* value of a key is replaced.
ApplyFilters(query, key, value) ==
    [query EXCEPT !.and = {c \in @ : c.key # key}
                          \cup {Cond("firmware", key, IF key = "date" THEN "$regex" ELSE "=", value)}]
=============================================================================
