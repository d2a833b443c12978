---------------------------- MODULE PluginRules ----------------------------
(***************************************************************************)
(* What four analysis plugins compute from what they are given: the YARA   *)
(* plugins, software_components, the rule book of known_vulnerabilities,   *)
(* the permissions of file_system_metadata and the outputs of qemu_exec.   *)
(*                                                                         *)
(* Names, versions and messages are model values or numbers.  A result of  *)
(* a plugin is what ends up in processed_analysis.                         *)
(***************************************************************************)
EXTENDS Integers, FiniteSets, SequencesExt

None == "none"

\* What an operation of the code ends with when it raises.
KeyError   == [t |-> "KeyError"]
ValueError == [t |-> "ValueError"]
Raised(v) == v.t \in {"KeyError", "ValueError"}

-----------------------------------------------------------------------------
(* YaraBasePlugin.  The output of yara is a sequence of blocks             *)
(* [rule, meta, strings]: a header line with the rule and its meta data,   *)
(* then the strings that matched, none for a rule whose condition has none.*)

Failed == [t |-> "failed"]

split_output_in_rules_and_matches(output) ==
    LET match_blocks == SelectSeq(output, LAMBDA b : b.strings # << >>)
    IN  IF Len(match_blocks) # Len(output) THEN ValueError
        ELSE [t |-> "ok", blocks |-> match_blocks]

\* The meta data of a rule are split at every comma; a piece without '=' is
\* logged and left out.
parse_meta_data(meta) ==
    LET items == {i \in DOMAIN meta : meta[i].key # None}
        LastOf(k) == CHOOSE i \in items : /\ meta[i].key = k
                                        /\ \A j \in items : meta[j].key = k => j <= i
    IN  [k \in {meta[i].key : i \in items} |-> meta[LastOf(k)].value]

append_match_to_result(results, block) ==
    IF block.rule \in DOMAIN results
    THEN [results EXCEPT ![block.rule].strings = @ \o block.strings]
    ELSE [r \in DOMAIN results \cup {block.rule} |->
            IF r = block.rule
            THEN [meta |-> parse_meta_data(block.meta), strings |-> block.strings]
            ELSE results[r]]

parse_yara_output(output) ==
    LET parts == split_output_in_rules_and_matches(output)
    IN  IF Raised(parts) THEN parts
        ELSE [t |-> "ok", matches |-> FoldLeft(append_match_to_result, << >>, parts.blocks)]

yara_process_object(output) ==
    LET parsed == parse_yara_output(output)
    IN  IF Raised(parsed) THEN Failed
        ELSE [t |-> "yara", matches |-> parsed.matches, summary |-> DOMAIN parsed.matches,
              tags |-> {}]

-----------------------------------------------------------------------------
(* software_components.  A matched string is [version, percent]: the       *)
(* version get_version finds in it, or None, and whether it holds '%s'.    *)

get_version(string) == string.version

filter_implausible_results(versions) == versions \ {None}

\* The strings that are handed to the container that resolves them.
key_strings(match) ==
    IF "format_string" \in DOMAIN match.meta
    THEN {s \in ToSet(match.strings) : s.percent}
    ELSE {}

get_version_for_component(match, resolved) ==
    LET found == {get_version(s) : s \in ToSet(match.strings)}
        more  == IF key_strings(match) = {} THEN {} ELSE resolved
        versions == found \cup more
    IN  IF Cardinality(versions) > 1 THEN versions \ {None} ELSE versions

get_summary(matches, versions) ==
    UNION {{[software |-> matches[r].meta["software_name"], version |-> v] : v \in versions[r]}
           : r \in DOMAIN matches}

add_analysis_tag(tags, name, value, propagate) ==
    {tag \in tags : tag.name # name}
        \cup {[name |-> name, value |-> value, propagate |-> propagate]}

\* The entries of the summary in their order, each tagging over the last.
add_os_key(summary, os_list) ==
    LET Tag(tags, e) ==
            IF e.software \notin os_list THEN tags
            ELSE IF e.version = None THEN add_analysis_tag(tags, "OS", e, TRUE)
            ELSE add_analysis_tag(
                    add_analysis_tag(tags, "OS", [e EXCEPT !.version = None], FALSE),
                    "OS Version", e, TRUE)
    IN  FoldLeft(Tag, {}, SetToSeq(summary))

\* resolved: what extract_data_from_ghidra returns.
software_components(output, resolved, os_list) ==
    LET analysis == yara_process_object(output)
    IN  IF analysis.t = "failed" \/ DOMAIN analysis.matches = {} THEN analysis
        ELSE LET versions == [r \in DOMAIN analysis.matches |->
                                get_version_for_component(analysis.matches[r], resolved)]
                 summary == get_summary(analysis.matches, versions)
             IN  [t |-> "components", versions |-> versions, summary |-> summary,
                  tags |-> add_os_key(summary, os_list)]

-----------------------------------------------------------------------------
(* The rule book.  A value in the results is                               *)
(*   [t |-> "dict", v |-> function], [t |-> "list", v |-> sequence] or     *)
(*   [t |-> "atom", v |-> a].                                              *)
(* A path is a sequence of dotted paths, themselves sequences of keys.     *)

RECURSIVE get_dotted_path_from_dictionary(_, _)
get_dotted_path_from_dictionary(d, dotted) ==
    IF d.t # "dict" THEN ValueError
    ELSE IF Head(dotted) \notin DOMAIN d.v THEN KeyError
    ELSE IF Len(dotted) = 1 THEN d.v[Head(dotted)]
    ELSE get_dotted_path_from_dictionary(d.v[Head(dotted)], Tail(dotted))

\* The first exception of a list comprehension ends it.
ListOf(values) ==
    IF \E i \in DOMAIN values : Raised(values[i])
    THEN values[CHOOSE i \in DOMAIN values : /\ Raised(values[i])
                                             /\ \A j \in 1..(i - 1) : ~Raised(values[j])]
    ELSE [t |-> "list", v |-> values]

RECURSIVE get_value(_, _)
get_value(analysis, path) ==
    LET value == get_dotted_path_from_dictionary(analysis, Head(path))
    IN  IF value.t = "list" /\ Len(path) > 1
        THEN ListOf([i \in DOMAIN value.v |-> get_value(value.v[i], Tail(path))])
        ELSE value

Items(value) == IF value.t = "list" THEN ToSet(value.v) ELSE {value}

\* RELATIONS; a comparison is a value too.
apply_relation(relation, value, comparison) ==
    CASE relation = "exists" -> TRUE
      [] relation \in {"equals", "is"} -> value = comparison
      [] relation = "gt" -> value.v > comparison.v
      [] relation = "lt" -> value.v < comparison.v
      [] relation = "in" -> value \in Items(comparison)
      [] relation = "reverse_in" -> comparison \in Items(value)
      [] relation = "intersection" -> Items(value) \cap Items(comparison) # {}

Verdict(b) == [t |-> "verdict", v |-> b]

evaluate_single_rule(analysis, rule) ==
    LET values == get_value(analysis, rule.value_path)
    IN  IF Raised(values) THEN values
        ELSE IF values.t # "list" \/ rule.comparison.t = "list"
        THEN Verdict(apply_relation(rule.relation, values, rule.comparison))
        ELSE Verdict(\E i \in DOMAIN values.v :
                        apply_relation(rule.relation, values.v[i], rule.comparison))

\* any and all take the verdicts one after the other and stop at the one that
\* decides: an exception after it is not met.
Decide(relation, verdicts) ==
    LET decides == (relation = "any")
        stop == {i \in DOMAIN verdicts : Raised(verdicts[i]) \/ verdicts[i].v = decides}
        first == CHOOSE i \in stop : \A j \in stop : i <= j
    IN  IF stop = {} THEN Verdict(~decides)
        ELSE IF Raised(verdicts[first]) THEN verdicts[first] ELSE Verdict(decides)

\* evaluate: a key that is missing is no match.
Caught(verdict) == IF verdict.t = "KeyError" THEN Verdict(FALSE) ELSE verdict

evaluate_meta_rule(analysis, rule) ==
    Decide(rule.relation,
             [i \in DOMAIN rule.rules |->
                Caught(evaluate_single_rule(analysis, rule.rules[i]))])

evaluate_sub_path_rule(analysis, rule) ==
    LET values == get_value(analysis, rule.base_path)
    IN  IF Raised(values) THEN values
        ELSE IF values.t # "list" THEN evaluate_meta_rule(values, rule.meta_rule)
        ELSE Decide("any", [i \in DOMAIN values.v |->
                                evaluate_meta_rule(values.v[i], rule.meta_rule)])

evaluate(analysis, rule) ==
    Caught(CASE rule.t = "meta"   -> evaluate_meta_rule(analysis, rule)
             [] rule.t = "single" -> evaluate_single_rule(analysis, rule)
             [] rule.t = "sub"    -> evaluate_sub_path_rule(analysis, rule))

-----------------------------------------------------------------------------
(* file_system_metadata.  The mode of a file is a number; its fourth octal *)
(* digit from the right holds the three flags.                             *)

get_extended_file_permissions(mode) ==
    LET digit == IF mode < 8 * 8 * 8 THEN 0 ELSE (mode \div (8 * 8 * 8)) % 8
    IN  [suid |-> digit \div 4 = 1, sgid |-> (digit \div 2) % 2 = 1, sticky |-> digit % 2 = 1]

\* A later entry of the same name replaces an earlier one.
enter_results(entries) ==
    [n \in {e.name : e \in ToSet(entries)} |->
        LET e == entries[CHOOSE i \in DOMAIN entries :
                            /\ entries[i].name = n
                            /\ \A j \in DOMAIN entries : entries[j].name = n => j <= i]
        IN  [user |-> e.user, flags |-> get_extended_file_permissions(e.mode)]]

tag_should_be_set(files) ==
    \E n \in DOMAIN files :
        files[n].user = "root" /\ (files[n].flags.suid \/ files[n].flags.sgid)

-----------------------------------------------------------------------------
(* qemu_exec.  The container runs the program with several parameters and  *)
(* once under strace: a function from parameters to [stdout, stderr,       *)
(* return_code], or to [error] when the program did not end in time.  The  *)
(* keys are sets of parameters, because equal results are merged.          *)

DecodedAs(value) == IF value = "bad base64" THEN "decoding error" ELSE value

decode_output_values(output) ==
    [p \in DOMAIN output |->
        IF "error" \in DOMAIN output[p] THEN output[p]
        ELSE [output[p] EXCEPT !.stdout = DecodedAs(@), !.stderr = DecodedAs(@)]]

result_contains_qemu_errors(output) ==
    \E p \in DOMAIN output : \E k \in DOMAIN output[p] :
        k \in {"stdout", "stderr"} /\ output[p][k] = "qemu error"

Strace == {"strace"}

process_strace_output(output) ==
    LET exists == /\ Strace \in DOMAIN output
                  /\ "stdout" \in DOMAIN output[Strace]
                  /\ output[Strace].stdout # ""
    IN  [p \in DOMAIN output \cup {Strace} |->
            IF p # Strace THEN output[p]
            ELSE [packed |-> IF exists THEN output[p].stdout ELSE ""]]

RECURSIVE merge_identical_results(_)
merge_identical_results(results) ==
    LET pairs == {pq \in (DOMAIN results) \X (DOMAIN results) :
                    pq[1] # pq[2] /\ results[pq[1]] = results[pq[2]]}
    IN  IF pairs = {} THEN results
        ELSE LET pq == CHOOSE x \in pairs : TRUE
                 combined_key == pq[1] \cup pq[2]
             IN  merge_identical_results(
                    [k \in (DOMAIN results \ {pq[1], pq[2]}) \cup {combined_key} |->
                        IF k = combined_key THEN results[pq[1]] ELSE results[k]])

process_docker_output(output) == merge_identical_results(process_strace_output(output))

\* What get_docker_output may return: an error, or what the container printed.
ErrorResult == [error |-> TRUE, out |-> << >>]
Printed(output) == [error |-> FALSE, out |-> output]
NoResult == [error |-> FALSE, out |-> << >>]

check_qemu_executability(result) ==
    IF result.error \/ DOMAIN result.out = {} THEN result
    ELSE LET decoded == decode_output_values(result.out)
         IN  IF result_contains_qemu_errors(decoded) THEN NoResult
             ELSE Printed(process_docker_output(decoded))

IsEmpty(result) == ~result.error /\ DOMAIN result.out = {}

output_without_error_exists(o) ==
    /\ {"stdout", "stderr", "return_code"} \subseteq DOMAIN o
    /\ o.stdout # "" /\ (o.return_code = 0 \/ o.stderr = "")

valid_execution_in_results(results) ==
    \E a \in DOMAIN results :
        /\ ~results[a].error
        /\ \E p \in DOMAIN results[a].out \ {Strace} :
               output_without_error_exists(results[a].out[p])
=============================================================================
