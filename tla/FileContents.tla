---------------------------- MODULE FileContents ----------------------------
(***************************************************************************)
(* What the backend finds in the contents of a file: the keys of the       *)
(* plugin crypto_material, the accounts of users_and_passwords, the kernel *)
(* configuration of kernel_config, the services of init_systems and the    *)
(* files a binary search matches.                                          *)
(*                                                                         *)
(* The parsers of keys, john, the decompressors and yara are external.     *)
(***************************************************************************)
EXTENDS PluginRules

-----------------------------------------------------------------------------
(* crypto_material.  A matched string is [label, offset, len]; what is     *)
(* found is the interval <<start, end>> of the file it was read from.      *)
(* Readable is the set of offsets and intervals a parser makes sense of.   *)

STARTEND == {"PgpPublicKeyBlock", "PgpPrivateKeyBlock", "PgpPublicKeyBlock_GnuPG",
             "genericPublicKey", "SshRsaPrivateKeyBlock",
             "SshEncryptedRsaPrivateKeyBlock", "SSLPrivateKey"}
STARTONLY == {"SshRsaPublicKeyBlock"}
PrivateKeys == {"PgpPrivateKeyBlock", "SshRsaPrivateKeyBlock",
                "SshEncryptedRsaPrivateKeyBlock", "SSLPrivateKey", "Pkcs8PrivateKey"}
min_key_len == 128

\* The labels of a plain, a GnuPG and an encrypted block, one after the other.
KeyBlocks == {<<"start", "end">>, <<"start", "version", "end">>,
              <<"start", "proc_type", "dek_info", "end">>}

get_offset_pairs(matches) ==
    LET labels == [i \in DOMAIN matches |-> matches[i].label]
        Ends(i) == {k \in i..Len(matches) : SubSeq(labels, i, k) \in KeyBlocks}
        starts == SelectSeq([i \in DOMAIN matches |-> i], LAMBDA i : Ends(i) # {})
        last(i) == matches[CHOOSE k \in Ends(i) : TRUE]
    IN  [j \in DOMAIN starts |->
            <<matches[starts[j]].offset, last(starts[j]).offset + last(starts[j]).len>>]

Interval(match) == <<match.offset, match.offset + match.len>>
Offsets(matches) == [i \in DOMAIN matches |-> Interval(matches[i])]

crypto_items(rule, strings, Readable) ==
    LET matches == SortSeq(strings, LAMBDA a, b : a.offset < b.offset)
        pairs == get_offset_pairs(matches)
    IN  CASE rule \in STARTEND -> SelectSeq(pairs, LAMBDA p : p[2] - p[1] > min_key_len)
          [] rule \in STARTONLY ->
                Offsets(SelectSeq(matches, LAMBDA m : m.label = "start"))
          [] rule \in {"Pkcs8PrivateKey", "Pkcs12Certificate"} ->
                SelectSeq(Offsets(matches), LAMBDA p : p \in Readable)
          [] rule = "SSLCertificate" -> SelectSeq(pairs, LAMBDA p : p \in Readable)
          [] OTHER -> << >>

\* A failed run of yara leaves no summary, and what is stored is a result
\* without keys.
crypto_material(output, Readable) ==
    LET yara == yara_process_object(output)
        KeysOf(r) == crypto_items(r, yara.matches[r].strings, Readable)
        summary == IF yara.t = "failed" THEN {}
                   ELSE {r \in DOMAIN yara.matches : KeysOf(r) # << >>}
    IN  [t |-> "crypto", material |-> [r \in summary |-> KeysOf(r)], summary |-> summary,
         tags |-> IF summary \cap PrivateKeys = {} THEN {}
                  ELSE add_analysis_tag({}, "private_key_inside", "Private Key Found", TRUE)]

-----------------------------------------------------------------------------
(* users_and_passwords.  A text that matches an expression is              *)
(* [type, user, hash, john, password]: the type of the expression, hash     *)
(* whether it has a hash, and what john prints: "password", "unsupported"  *)
(* ("0 password hashes cracked"), "nothing", or "odd" (a line without a   *)
(* colon).                                                                 *)

crack_hash(e) ==
    CASE e.john = "unsupported" -> [cracked |-> FALSE, error |-> TRUE, password |-> None]
      [] e.john = "password"    -> [cracked |-> TRUE, error |-> FALSE, password |-> e.password]
      [] e.john = "nothing"     -> [cracked |-> FALSE, error |-> FALSE, password |-> None]
      [] e.john = "odd"         -> [cracked |-> None, error |-> FALSE, password |-> None]

\* A line without a colon is an IndexError; only generate_unix_entry catches it.
Uncrackable == [cracked |-> None, error |-> FALSE, password |-> None]
generate_entry(e) == IF e.type = "unix" /\ ~ e.hash THEN Uncrackable ELSE crack_hash(e)
Breaks(e) == e.type # "unix" /\ e.john = "odd"

\* Of the entries of a user and type the last one stays; a tag for each stays.
users_and_passwords(entries) ==
    LET Update(result, e) ==
            LET name == <<e.user, e.type>>
                entry == generate_entry(e)
            IN  [entries |-> [n \in DOMAIN result.entries \cup {name} |->
                                IF n = name THEN entry ELSE result.entries[n]],
                 summary |-> Append(result.summary, name),
                 tags |-> IF entry.password = None THEN result.tags
                          ELSE add_analysis_tag(result.tags, <<e.user, entry.password>>,
                                                entry.password, TRUE)]
    IN  IF \E i \in DOMAIN entries : Breaks(entries[i]) THEN Failed
        ELSE [t |-> "passwords"] @@
                FoldLeft(Update, [entries |-> << >>, summary |-> << >>, tags |-> {}], entries)

-----------------------------------------------------------------------------
(* kernel_config.  Data are [text, magic, streams, atMagic]: text is       *)
(* "config" for the text of a configuration, "undecodable" for what is not *)
(* UTF-8, "other"; magic says whether IKCFG_ST occurs.  streams holds for  *)
(* each compression what its magic words in the data decompress to, <<d>>  *)
(* or << >>, in their order; atMagic is the same for what follows IKCFG_ST.*)

\* The first compression that gives anything counts.
decompress(streams) ==
    LET results == [c \in DOMAIN streams |-> FlattenSeq(streams[c])]
        found == SelectSeq(results, LAMBDA r : r # << >>)
    IN  IF found = << >> THEN << >> ELSE Head(found)

probably_kernel_config(text) == text = "config"

try_object_extract_ikconfig(raw) ==
    LET containers == IF raw.magic THEN <<raw>> ELSE decompress(raw.streams)
        configs == IF containers # << >> /\ Head(containers).magic
                   THEN decompress(Head(containers).atMagic) ELSE << >>
    IN  IF configs = << >> THEN "other" ELSE Head(configs).text

\* The type of a file may say it is a configuration although it is not UTF-8.
kernel_config(fo) ==
    LET plain == fo.plaintext /\ (fo.kconfigType \/ probably_kernel_config(fo.raw.text))
        extracted == try_object_extract_ikconfig(fo.raw)
        inside == /\ ~ plain /\ (fo.isConfigsKo \/ fo.isKernelImage)
                  /\ probably_kernel_config(extracted)
    IN  CASE plain /\ fo.raw.text = "undecodable" -> Failed
          [] plain \/ inside ->
                [t |-> "kernel", config |-> IF plain THEN fo.raw.text ELSE extracted,
                 checks |-> {"checksec", "hardening"}, summary |-> {"Kernel Config"},
                 tags |-> add_analysis_tag({}, "IKCONFIG", "Kernel Configuration", FALSE)]
          [] OTHER -> [t |-> "kernel", config |-> None, checks |-> {}, summary |-> {},
                       tags |-> {}]

-----------------------------------------------------------------------------
(* init_systems.  A file is [text, ignored, places, found]: the places     *)
(* its path matches and the kinds of lines that are found in it.  A result *)
(* has the kinds that are set, what the description is taken from and the  *)
(* summary, which is empty as well where the code sets none.               *)

\* The order in which the places are looked at; a later one replaces the result.
InitTypes == <<"inittab", "SystemD", "rc", "initscript", "UpStart", "RunIt", "SysVInit">>

\* The kinds of lines each of them reads, and whether it has a description.
LinesOf(type) ==
    CASE type = "inittab" -> {"sysinit", "respawn"}
      [] type = "SystemD" -> {"exec"}
      [] type = "UpStart" -> {"exec", "pre-start", "script"}
      [] OTHER -> {"script"}
ReadsDescription == {"SystemD", "UpStart", "SysVInit"}
HasDescription == ReadsDescription \cup {"RunIt"}

InitConfig(type, found) ==
    [lines |-> LinesOf(type) \cap found,
     description |-> IF type \notin HasDescription THEN None
                     ELSE IF type \in ReadsDescription /\ "description" \in found
                     THEN "content" ELSE "file name",
     summary |-> IF type = "inittab" /\ LinesOf(type) \cap found = {} THEN {} ELSE {type}]

NoInit == [lines |-> {}, description |-> None, summary |-> {}]

init_systems(fo) ==
    LET Later(result, type) == IF type \in fo.places THEN InitConfig(type, fo.found) ELSE result
    IN  IF fo.text /\ ~ fo.ignored THEN FoldLeft(Later, NoInit, InitTypes) ELSE NoInit

-----------------------------------------------------------------------------
(* The binary search.  Output gives the lines yara prints for a file: a    *)
(* line is [words, warning, rule], two words being a rule and the file.    *)

parse_raw_result(lines) ==
    LET seen == {l \in lines : ~ l.warning}
    IN  IF \E l \in seen : l.words # 2 THEN ValueError
        ELSE [t |-> "ok", matches |-> [r \in {l.rule : l \in seen} |->
                                        {l.uid : l \in {m \in seen : m.rule = r}}]]

\* yara runs once over the storage, or once for each file of the image.
execute_yara_search(targets, Output) ==
    UNION {{l @@ [uid |-> u] : l \in Output[u]} : u \in targets}

get_binary_search_result(valid, firmware, stored, filesIn, Output) ==
    LET targets == IF firmware = None THEN stored ELSE filesIn[firmware]
    IN  IF valid THEN parse_raw_result(execute_yara_search(targets, Output))
        ELSE [t |-> "rule error"]
=============================================================================
