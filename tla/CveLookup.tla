----------------------------- MODULE CveLookup -----------------------------
(***************************************************************************)
(* What the plugin cve_lookup computes from the rows of its database: the  *)
(* CPE entries a software component may stand for, the one of them whose   *)
(* version is nearest, the CVEs whose version range holds that version,    *)
(* and the CVEs whose summary mentions the product.                        *)
(*                                                                         *)
(* A name is a sequence of words (the code joins and splits them with      *)
(* '_'); a word is a record whose field "cap" says that it is written with *)
(* capitals, whose field "bare" that it is one character or all digits and *)
(* whose field "version" holds what the word means as a version.           *)
(* A version is a record: "kind" is "number" for digits or a dotted version*)
(* that packaging can order (by "val"; "text" tells spellings such as 1.0  *)
(* and 1 apart), "loose" for another string that it can order, "dotted"    *)
(* for a dotted one that no rule of coerce_version turns into a version,   *)
(* "odd" for any other string, "ANY" and "N/A" for the two wildcards.      *)
(***************************************************************************)
EXTENDS Integers, Sequences, FiniteSets, SequencesExt

MAX_TERM_SPREAD == 3

VersionAny == [kind |-> "ANY", val |-> 0, text |-> 0]
VersionNA  == [kind |-> "N/A", val |-> 0, text |-> 0]
VersionOdd == [kind |-> "odd", val |-> 0, text |-> 0]
VersionDotted == [kind |-> "dotted", val |-> 0, text |-> 0]
Number(n, t) == [kind |-> "number", val |-> n, text |-> t]

\* An empty bound of a version range: the column holds ''.
NoBound == [kind |-> "none", val |-> 0, text |-> 0]

Lower(word) == [word EXCEPT !.cap = FALSE]

\* MAX_LEVENSHTEIN_DISTANCE is 0: two terms match when they are equal.
terms_match(requested, source) == requested = source

-----------------------------------------------------------------------------
(* Versions                                                                *)

\* InvalidVersion is raised for everything that is not a version at all.
Coercible(v) == v.kind \in {"number", "loose"}

is_valid_dotted_version(v) == v.kind \in {"number", "dotted"}

compare_version(v, w, comp_operator) ==
    /\ Coercible(v) /\ Coercible(w)
    /\ \/ comp_operator = "<=" /\ v.val <= w.val
       \/ comp_operator = "<"  /\ v.val < w.val
       \/ comp_operator = ">=" /\ v.val >= w.val
       \/ comp_operator = ">"  /\ v.val > w.val
       \/ comp_operator = "==" /\ v.val = w.val

versions_match(cpeVersion, entry) ==
    LET Within(bound, comp_operator) ==
            bound # NoBound => compare_version(bound, cpeVersion, comp_operator)
    IN  /\ Within(entry.startIncluding, "<=")
        /\ Within(entry.startExcluding, "<")
        /\ Within(entry.endIncluding, ">=")
        /\ Within(entry.endExcluding, ">")
        /\ entry.version \notin {VersionAny, VersionNA} =>
               compare_version(entry.version, cpeVersion, "==")

\* list.sort is stable and the requested version was appended last, so it
\* comes after the versions equal to it; the order of the others among equals
\* is the order of a Python set.
SortedVersions(versions, requested) ==
    {s \in SetToSeqs(versions \cup {requested}) :
        \A i, j \in DOMAIN s : i < j =>
            /\ s[i].val <= s[j].val
            /\ s[i] = requested => s[j].val > requested.val}

find_next_closest_version(sorted, requested) ==
    LET index == CHOOSE i \in DOMAIN sorted : sorted[i] = requested
    IN  IF index = 1 THEN sorted[2] ELSE sorted[index - 1]

-----------------------------------------------------------------------------
(* Products                                                                *)

\* _split_component: the last word of a component is its version.
split_component(component) ==
    IF Len(component) = 1
    THEN [name |-> component, version |-> VersionAny]
    ELSE [name |-> Front(component), version |-> Last(component).version]

\* Every run of consecutive words of the component's name is a search term,
\* except a number or a character alone.
generate_search_terms(name) ==
    LET lower == [i \in DOMAIN name |-> Lower(name[i])]
    IN  {t \in {SubSeq(lower, i, j) : i, j \in DOMAIN name} :
            Len(t) > 1 \/ (Len(t) = 1 /\ ~t[1].bare)}

match_cpe(cpeRows, terms) ==
    {[vendor |-> r.vendor, product |-> r.product, version |-> r.version] :
        r \in {r \in cpeRows : \E t \in terms : terms_match(t, r.product)}}

find_cpe_product_with_version(matches, version) ==
    {p \in matches : p.version = version}

\* The outcomes of the choice of a product: [0] of a list in the order of a
\* set is any of them.  An empty set stands for the IndexError that
\* look_up_vulnerabilities answers with None; sorting the listed versions with the
\* requested one raises InvalidVersion if nobody can order one of them.
ListedVersions(matches) == {p.version : p \in matches} \ {VersionNA, VersionAny}

SortRaises(matches, requested) ==
    /\ is_valid_dotted_version(requested)
    /\ requested \notin ListedVersions(matches)
    /\ \E v \in ListedVersions(matches) \cup {requested} : ~Coercible(v)

find_matching_cpe_product(matches, requested) ==
    LET numbers == ListedVersions(matches)
        dotted == is_valid_dotted_version(requested)
    IN  CASE dotted /\ requested \in numbers ->
                 find_cpe_product_with_version(matches, requested)
          [] dotted /\ requested \notin numbers /\ numbers # {} ->
                 UNION {find_cpe_product_with_version(
                            matches, find_next_closest_version(s, requested)) :
                        s \in SortedVersions(numbers, requested)}
          [] dotted /\ numbers = {} -> {}
          [] requested = VersionAny ->
                 find_cpe_product_with_version(matches, VersionAny)
          [] OTHER -> matches

-----------------------------------------------------------------------------
(* CVEs                                                                    *)

product_matches_cve(product, entry) ==
    /\ terms_match(product.vendor, entry.vendor)
    /\ terms_match(product.product, entry.product)
    /\ versions_match(product.version, entry)

search_cve(cveRows, product) ==
    {r \in cveRows : product_matches_cve(product, r)}

remaining_words_present(words, rest) ==
    \A i \in DOMAIN rest : i \in DOMAIN words => terms_match(words[i], rest[i])

\* Only the first place where the first word of the name occurs is followed.
word_sequence_is_in_word_list(words, name) ==
    LET places == {i \in DOMAIN words :
                      /\ i <= MAX_TERM_SPREAD
                      /\ i + Len(name) - 1 <= Len(words)
                      /\ terms_match(words[i], name[1])}
        first == CHOOSE i \in places : \A j \in places : i <= j
    IN  /\ Len(words) >= Len(name)
        /\ places # {}
        /\ remaining_words_present(SubSeq(words, first + 1, Len(words)), Tail(name))

product_is_mentioned_in_summary(product, summary) ==
    \E i \in DOMAIN summary :
        /\ terms_match(product.vendor[1], Lower(summary[i]))
        /\ word_sequence_is_in_word_list(
               SubSeq(summary, i + 1, Len(summary)), product.product)

search_cve_summary(summaryRows, product) ==
    {r \in summaryRows : product_is_mentioned_in_summary(product, r.summary)}

Replacing_Candidates(feedHits, summaryHits) ==
    IF summaryHits = {} THEN feedHits ELSE summaryHits

\* The result is a dictionary over CVE ids: the entry found last, that of the
\* summary table, replaces the entry of the feed table.
Candidates(feedHits, summaryHits) ==
    summaryHits \cup {r \in feedHits : \A s \in summaryHits : s.id # r.id}

entry_has_critical_rating(r) == r.score >= 9

software_has_critical_cve(hits) == \E r \in hits : entry_has_critical_rating(r)

\* The summary of the analysis: the components with hits, the critical ones
\* marked; results is a set of [component, hits].
create_summary(results) ==
    {[component |-> r.component, critical |-> software_has_critical_cve(r.hits)] :
        r \in results}

\* The file is tagged 'critical CVE'.
add_tags(results) == \E r \in results : software_has_critical_cve(r.hits)
=============================================================================
