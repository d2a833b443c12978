----------------------------- MODULE MC_Plugins -----------------------------
(***************************************************************************)
(* The analysis plugins with data or processes of their own, as two        *)
(* systems that share nothing: cve_lookup with its database, and the       *)
(* plugins that run containers.  A behaviour is one of the one or of the   *)
(* other.                                                                  *)
(*                                                                         *)
(* cve_lookup: two CVEs of one year, one of another year that only has a   *)
(* summary; one product of two vendors in two versions.                    *)
(* Containers: copies of one program and another program, for two          *)
(* architectures and for one.                                              *)
(***************************************************************************)
EXTENDS CveDatabase, ContainerPlugins, FileContents, BinaryPlugins

CONSTANTS c1, c2, c3

\* Items of the results of plugins, and what YARA matches.
Item(k, v) == [key |-> k, value |-> v]
Matched(v, percent) == [version |-> v, percent |-> percent]
Block(rule, meta, strings) == [rule |-> rule, meta |-> meta, strings |-> strings]

Silent  == Block("Silent", <<Item("score", "high")>>, << >>)

VARIABLE system      \* "cve_lookup" or "containers"

allVars == <<system, cveVars, pluginVars>>

\* The system that a behaviour is not about stays as it is.
MCInit == /\ system \in {"cve_lookup", "containers"}
          /\ CveInit
          /\ PluginsInit
          /\ system = "cve_lookup" => input = CHOOSE i \in Inputs : TRUE
          /\ system = "containers" => db = EmptyDb

MCNext ==
    \/ system = "cve_lookup" /\ CveNext /\ UNCHANGED <<system, pluginVars>>
    \/ system = "containers" /\ PluginsNext /\ UNCHANGED <<system, cveVars>>

MCSpec == MCInit /\ [][MCNext]_allVars

-----------------------------------------------------------------------------
(* cve_lookup *)

MCCves == {c1, c2, c3}
MCYearOf == (c1 :> 2020) @@ (c2 :> 2020) @@ (c3 :> 2021)

Word(w, v) == [w |-> w, cap |-> FALSE, bare |-> FALSE, version |-> v]
Acme == Word("acme", VersionOdd)
Tool == Word("tool", VersionOdd)
Kit  == Word("kit", VersionOdd)
Hits == Word("hits", VersionOdd)
V(n, t) == [Word("v", Number(n, t)) EXCEPT !.bare = TRUE]
Odd == Word("x.y", VersionDotted)

CpeRow(vendor, product, version) ==
    [whole |-> TRUE, vendor |-> vendor, product |-> product, version |-> version]

MCCpeRows ==
    {CpeRow(<<Acme>>, <<Tool, Kit>>, Number(1, 0)),
     CpeRow(<<Acme>>, <<Tool, Kit>>, Number(3, 0)),
     CpeRow(<<Acme>>, <<Hits>>, VersionOdd)}

FeedRow(version, si, se, ei, ee) ==
    [whole |-> TRUE, vendor |-> <<Acme>>, product |-> <<Tool, Kit>>, version |-> version,
     startIncluding |-> si, startExcluding |-> se, endIncluding |-> ei,
     endExcluding |-> ee]

Entry(nodes, summary, score) ==
    [published |-> TRUE, rejected |-> FALSE, nodes |-> nodes, summary |-> summary,
     score |-> score]
Vulnerable(row, flag) == [row |-> row, vulnerable |-> flag]
Node(matches) == [cpe_match |-> matches]
Parent(children) == [children |-> children]

UpTo3Row  == FeedRow(VersionAny, Number(1, 1), NoBound, Number(3, 0), NoBound)
Below3Row == FeedRow(VersionAny, NoBound, NoBound, NoBound, Number(3, 1))
Only3Row  == FeedRow(Number(3, 1), NoBound, NoBound, NoBound, NoBound)
Above1Row == FeedRow(VersionAny, NoBound, Number(1, 0), NoBound, NoBound)

UpTo3   == Entry({Node({Vulnerable(UpTo3Row, TRUE), Vulnerable(Only3Row, FALSE)})}, << >>, 9)
Below3  == Entry({Parent({Parent({Node({Vulnerable(Below3Row, TRUE)})})}),
                  [cpe_match |-> {}, children |-> {Node({Vulnerable(Only3Row, TRUE)})}]}, << >>, 5)
Above1  == Entry({Node({Vulnerable(Above1Row, TRUE), Vulnerable(Only3Row, TRUE),
                        Vulnerable([UpTo3Row EXCEPT !.whole = FALSE], TRUE)})}, << >>, 9)
Mention == Entry({}, <<Hits, Acme, Hits, Tool, Kit>>, 5)

MCEntries == {UpTo3, Below3, Above1, Mention}

MCStartFeeds == {(c1 :> UpTo3) @@ (c2 :> Mention) @@ (c3 :> Mention)}

MCPublished ==
    (c1 :> {Mention, Above1}) @@ (c2 :> {Below3}) @@ (c3 :> {Above1})

MCStartYears == {{2020, 2021}}

MCComponents ==
    {<< <<Tool, Kit, V(2, 0)>> >>, << <<Hits>>, <<Hits, Odd>> >>}

\* The version chosen for a version that is not listed: the greatest listed one
\* that is not greater, else the smallest (find_next_closest_version), however
\* the versions are spelled and whatever the order of the list.
ASSUME NearestVersion ==
    \A listed \in SUBSET {Number(n, t) : n \in 1..3, t \in 0..1} \ {{}} :
        \A n \in 0..4 : LET requested == Number(n, 2) IN
            \A s \in SortedVersions(listed, requested) :
                LET v == find_next_closest_version(s, requested)
                    below == {w \in listed : w.val <= n}
                IN  /\ v \in listed
                    /\ IF below = {} THEN \A w \in listed : v.val <= w.val
                       ELSE v.val <= n /\ \A w \in below : w.val <= v.val

\* A mention is the name of the vendor followed, at most MAX_TERM_SPREAD words
\* later, by the words of the product one after the other.
ASSUME MentionsAreReal ==
    \A summary \in UNION {[1..n -> {Acme, Tool, Kit, Hits}] : n \in 0..5} :
        product_is_mentioned_in_summary(CpeRow(<<Acme>>, <<Tool, Kit>>, VersionAny), summary)
            => \E i, j \in DOMAIN summary :
                   /\ i < j /\ j <= i + MAX_TERM_SPREAD /\ j < Len(summary)
                   /\ summary[i] = Acme /\ summary[j] = Tool /\ summary[j + 1] = Kit

-----------------------------------------------------------------------------
(* The plugins that run containers *)

MCUidOf == ("/bin/a" :> "u1") @@ ("/bin/b" :> "u1") @@ ("/bin/c" :> "u2")
MCFullTypeOf == ("/bin/a" :> {"80386"}) @@ ("/bin/b" :> {"80386"}) @@ ("/bin/c" :> {"x86"})

Ran(out, err, code) == [stdout |-> out, stderr |-> err, return_code |-> code]
TimedOut == [error |-> "timeout"]
Run(h, help, strace) == Printed(({"-h"} :> h) @@ ({"--help"} :> help) @@ (Strace :> strace))

MCOutputs ==
    {Run(Ran("usage", "", 1), Ran("usage", "", 1), Ran("calls", "", 0)),
     Run(Ran("usage", "warning", 1), TimedOut, TimedOut),
     Run(Ran("", "qemu error", 1), Ran("", "", 0), Ran("", "", 0))}

OpenSSL == Block("OpenSSL", <<Item("software_name", "OpenSSL"), Item("format_string", TRUE)>>,
                 <<Matched(None, TRUE), Matched("1.0.1a", FALSE)>>)
NetUSB  == Block("NetUSB", <<Item("software_name", "NetUSB"), Item(None, None)>>,
                 <<Matched(None, FALSE)>>)
Linux   == Block("Linux", <<Item("software_name", "Linux")>>,
                 <<Matched("4.1", FALSE), Matched(None, FALSE)>>)
Newer   == Block("OpenSSL", <<Item("software_name", "OpenSSL"), Item("format_string", TRUE)>>,
                 <<Matched("1.1", TRUE)>>)
Backdoor == Block("Backdoor", <<Item("score", "low")>>, <<Matched(None, FALSE)>>)

Yara(sc, kv) == ("software_components" :> sc) @@ ("known_vulnerabilities" :> kv)

Image(mime, yara) ==
    [mime |-> mime, included |-> TRUE, onDisk |-> TRUE, fresh |-> TRUE,
     unpackedFrom |-> "other", parents |-> {}, yara |-> yara, sha256 |-> "other",
     executables |-> {}]

MCInputs ==
    {[Image("other", Yara(<< >>, << >>)) EXCEPT !.executables = {"/bin/a", "/bin/b"}],
     [Image("other", Yara(<< >>, << >>)) EXCEPT !.executables = {"/bin/a", "/bin/c"}],
     Image("file system", Yara(<<OpenSSL, NetUSB, Linux>>, <<Backdoor>>)),
     [Image("program", Yara(<<Newer>>, <<Backdoor, Silent>>))
        EXCEPT !.included = FALSE, !.sha256 = "netgear", !.unpackedFrom = "file system"],
     [Image("archive", Yara(<<Silent>>, << >>))
        EXCEPT !.onDisk = FALSE, !.fresh = FALSE,
               !.parents = {[mime |-> "archive", analyzed |-> FALSE],
                            [mime |-> "file system", analyzed |-> TRUE]}],
     [Image("program", Yara(<<NetUSB>>, << >>)) EXCEPT !.sha256 = "netgear"],
     [Image("other", Yara(<< >>, <<Silent>>)) EXCEPT !.included = FALSE]}

MCResolved == {{"1.0.1b"}, {"1.2", None}}

MCMetadata ==
    {<<[name |-> "f", user |-> "root", mode |-> 2541]>>,
     <<[name |-> "f", user |-> "root", mode |-> 511], [name |-> "g", user |-> "user", mode |-> 3072]>>}

-----------------------------------------------------------------------------
\* The three flags are the bits 04000, 02000 and 01000 of the mode.
ASSUME FlagsAreBits ==
    \A mode \in 0..4095 :
        get_extended_file_permissions(mode)
            = [suid   |-> (mode \div 2048) % 2 = 1,
               sgid   |-> (mode \div 1024) % 2 = 1,
               sticky |-> (mode \div 512) % 2 = 1]

\* Merging loses no result and leaves no two equal ones, whatever the
\* parameters that gave the same.
ASSUME MergingIsGrouping ==
    \A f \in [{{"-h"}, {"--help"}, {"-help"}, {" "}} -> {Ran("a", "", 0), Ran("b", "", 0), TimedOut}] :
        merge_identical_results(f)
            = [k \in {UNION {p \in DOMAIN f : f[p] = f[q]} : q \in DOMAIN f} |->
                f[CHOOSE p \in DOMAIN f : p \subseteq k]]

Found(x, y) == Dict(("x" :> x) @@ ("y" :> y))
OnlyX(x) == Dict("x" :> x)
Parts == {Found(Atom(a), Atom(b)) : a, b \in 1..2} \cup {OnlyX(Atom(a)) : a \in 1..2}
Is(key, n) == SingleRule(<< <<key>> >>, "equals", Atom(n))
Meta(relation, rules) == [t |-> "meta", relation |-> relation, rules |-> rules]
SubPath(meta) == [t |-> "sub", base_path |-> << <<"plugin", "list">> >>, meta_rule |-> meta]
Holds(part, key, n) == key \in DOMAIN part.v /\ part.v[key] = Atom(n)

\* A sub-path rule holds if one element of the list satisfies its partial rules
\* together; an element without the key satisfies none, and spoils nothing.
ASSUME RulesMeanWhatTheySay ==
    \A s \in UNION {[1..n -> Parts] : n \in 0..3} :
        LET analysis == Dict("plugin" :> Dict("list" :> List(s)))
            rules == <<Is("x", 1), Is("y", 2)>>
        IN  /\ evaluate(analysis, SubPath(Meta("all", rules)))
                  = Verdict(\E i \in DOMAIN s : Holds(s[i], "x", 1) /\ Holds(s[i], "y", 2))
            /\ evaluate(analysis, SubPath(Meta("any", rules)))
                  = Verdict(\E i \in DOMAIN s : Holds(s[i], "x", 1) \/ Holds(s[i], "y", 2))

-----------------------------------------------------------------------------
(***************************************************************************)
(* The plugins that compute a result from one file, on small inputs.  Each *)
(* assumption states what the results of a plugin, or of plugins that read *)
(* each other's results, have in common for all of them.                   *)
(***************************************************************************)

\* Keys do not overlap, whatever else is matched between them, and the strings
\* may be in any order.
KeyLabels == {"start", "end", "version", "proc_type", "dek_info"}
Strings(labels) ==
    [i \in DOMAIN labels |-> [label |-> labels[i], offset |-> 200 * i, len |-> 27]]

ASSUME KeysAreSeparate ==
    \A labels \in UNION {[1..n -> KeyLabels] : n \in 0..5} :
        LET strings == Strings(labels)
            keys == crypto_items("SSLPrivateKey", strings, {})
        IN  /\ \A i \in 1..(Len(keys) - 1) : keys[i][2] < keys[i + 1][1]
            /\ \A i \in 1..(Len(labels) - 1) :
                    labels[i] = "start" /\ labels[i + 1] = "end" =>
                        <<200 * i, 200 * (i + 1) + 27>> \in ToSet(keys)
            /\ Len(keys) <= Cardinality({i \in DOMAIN labels : labels[i] = "end"})
            /\ crypto_items("SSLPrivateKey", Reverse(strings), {}) = keys

Public == Block("SshRsaPublicKeyBlock", << >>, Strings(<<"start">>))
Private == Block("Pkcs8PrivateKey", << >>, Strings(<<"version", "version">>))

\* A file is tagged for a private key if a parser made sense of one; what yara
\* failed on looks like a file without keys.
ASSUME PrivateKeysAreTagged ==
    /\ \A Readable \in SUBSET {<<200, 227>>, <<400, 427>>} :
            LET found == crypto_material(<<Public, Private>>, Readable)
            IN  /\ (found.tags = {}) = (Readable = {})
                /\ ToSet(crypto_items("Pkcs8PrivateKey", Private.strings, Readable)) = Readable
                /\ "SshRsaPublicKeyBlock" \in found.summary
    /\ crypto_material(<<Public, Silent>>, {}) = crypto_material(<< >>, {})

Account(user, type, john, password) ==
    [user |-> user, type |-> type, hash |-> TRUE, john |-> john, password |-> password]
Accounts == {Account("root", "unix", "password", "a"), Account("root", "unix", "password", "b"),
             Account("root", "unix", "odd", None), Account("root", "htpasswd", "unsupported", None),
             Account("user", "mosquitto", "odd", None),
             [Account("root", "unix", "nothing", None) EXCEPT !.hash = FALSE]}

\* Of two accounts with one name and type the results keep the later one, but no
\* password that was cracked lacks its tag.
ASSUME PasswordsAreTagged ==
    \A entries \in UNION {[1..n -> Accounts] : n \in 0..3} :
        LET found == users_and_passwords(entries)
            cracked == {e \in ToSet(entries) : e.john = "password"}
        IN  IF \E e \in ToSet(entries) : e.type = "mosquitto" /\ e.john = "odd"
            THEN found = Failed
            ELSE /\ ToSet(found.summary) = DOMAIN found.entries
                 /\ {<<t.name, t.value>> : t \in found.tags}
                        = {<< <<e.user, e.password>>, e.password>> : e \in cracked}
                 /\ \A i \in DOMAIN entries :
                        LET Named(j) == <<entries[j].user, entries[j].type>>
                        IN  (\A j \in DOMAIN entries : j > i => Named(j) # Named(i)) =>
                                found.entries[Named(i)] = generate_entry(entries[i])

Text(text) == [text |-> text, magic |-> FALSE, streams |-> << >>, atMagic |-> << >>]
Ikconfig(text) == [Text("undecodable") EXCEPT !.magic = TRUE,
                        !.atMagic = << << << >>, <<Text(text)>> >>, <<Text("other")>> >>]
Compressed(streams) == [Text("undecodable") EXCEPT !.streams = streams]
Texts == {"config", "other", "undecodable"}
KernelData ==
    {Text(t) : t \in Texts} \cup {Ikconfig(t) : t \in Texts}
        \cup {Compressed(<< << << >> >>, << <<a>>, <<b>> >> >>) :
                a, b \in {Ikconfig("config"), Ikconfig("other"), Text("config")}}

Holding(raw) == {raw.text} \cup (IF raw.magic THEN {Head(FlattenSeq(raw.atMagic[1])).text} ELSE {})

\* Whatever the file holds, only a text that is one is taken for a configuration,
\* and one in the file itself, or in the first image it decompresses to, is found.
ASSUME ConfigurationsAreFound ==
    \A raw \in KernelData, plaintext, kconfigType, isKernelImage \in BOOLEAN :
        LET found == kernel_config([raw |-> raw, plaintext |-> plaintext, kconfigType |-> kconfigType,
                                    isConfigsKo |-> FALSE, isKernelImage |-> isKernelImage])
            first == decompress(raw.streams)
        IN  /\ (found = Failed) = (plaintext /\ kconfigType /\ raw.text = "undecodable")
            /\ found # Failed /\ ~ (plaintext /\ kconfigType) =>
                    /\ found.config \in {None, "config"}
                    /\ (found.config = "config") =
                            \/ plaintext /\ raw.text = "config"
                            \/ isKernelImage /\ raw.magic /\ "config" \in Holding(raw)
                            \/ /\ isKernelImage /\ first # << >>
                               /\ Head(first).magic /\ "config" \in Holding(Head(first))
            /\ found # Failed => (found.checks # {}) = (found.config # None)

\* A text file in a place of an init system is listed, for the last of the places
\* it is in, except an inittab without an entry.
ASSUME ServicesAreListed ==
    \A places \in SUBSET ToSet(InitTypes), found \in SUBSET {"description", "sysinit", "script"} :
        LET result == init_systems([text |-> TRUE, ignored |-> FALSE,
                                    places |-> places, found |-> found])
        IN  /\ (result.summary = {}) =
                    (places = {} \/ (places = {"inittab"} /\ "sysinit" \notin found))
            /\ \A i, j \in DOMAIN InitTypes :
                    i < j /\ InitTypes[i] \in result.summary => InitTypes[j] \notin places
            /\ result.description = "file name" =>
                    "description" \notin found \/ "RunIt" \in places

\* A search over one image finds there what a search over all files finds there; a
\* rule whose name holds the word 'warning' finds nothing.
ASSUME SearchesAgree ==
    LET line(rule, warning) == [words |-> 2, warning |-> warning, rule |-> rule]
        all == {line("r1", FALSE), line("warning", TRUE), line("r2", FALSE)}
        images == [f1 |-> {"f1", "a"}, f2 |-> {"f2", "a", "b"}]
        stored == {"f1", "f2", "a", "b"}
    IN  \A Output \in [stored -> SUBSET all], fw \in DOMAIN images :
            LET everywhere == get_binary_search_result(TRUE, None, stored, images, Output)
                within == get_binary_search_result(TRUE, fw, stored, images, Output)
            IN  /\ everywhere.t = "ok" /\ within.t = "ok"
                /\ "warning" \notin DOMAIN everywhere.matches
                /\ \A r \in DOMAIN everywhere.matches :
                        everywhere.matches[r] \cap images[fw]
                            = IF r \in DOMAIN within.matches THEN within.matches[r] ELSE {}

-----------------------------------------------------------------------------
Tree(model, nodes) == [t |-> "tree", model |-> model, nodes |-> nodes]
NoTree == [t |-> None]
Positions == {0, 8, 40, 44, 80, 86}

\* Device trees are looked for everywhere except in the header of another one; a
\* magic word in the last 36 bytes of a file makes the plugin fail.
ASSUME TreesAreFound ==
    \A magics \in SUBSET Positions, size \in {117, 122, 123} :
        LET file == [size |-> size, magics |-> magics,
                     tree |-> [p \in Positions |-> Tree("m", << >>)]]
            dumped == dump_device_trees(file)
            found == [i \in DOMAIN dumped.trees |-> dumped.trees[i].offset]
        IN  IF dumped = Raises THEN \E p \in magics : size - p <= 36
            ELSE /\ \A i \in 1..(Len(found) - 1) : found[i + 1] - found[i] >= HEADER_SIZE
                 /\ \A p \in magics : \E q \in ToSet(found) : p - q \in 0..(HEADER_SIZE - 1)
                 /\ \A p \in ToSet(found) : size - p > 36
                 /\ (device_tree(file).summary = {}) = (found = << >>)
                 /\ (device_tree(file).tags = {}) = (found = << >>)

Kconfig(set) == [t |-> "config", set |-> set, other |-> {"CONFIG_HZ"}]
Elf(machine, arch) == [machine |-> machine, arch |-> arch, hasAttributes |-> TRUE,
                       attributes |-> {[tag |-> "TAG_CPU_ARCH", descr |-> "v7"],
                                       [tag |-> "TAG_FP_ARCH", descr |-> "VFPv3"]}]
ArchInputs ==
    [trees : {<<Tree(None, nodes)>> : nodes \in {<<"other", "arm,cortex">>, <<"bare", "other">>,
                                                 <<"bare", "no cpu">>, <<"refused">>}}
                \cup {<<Tree(None, <<"arm,cortex">>), Tree(None, <<"arm,cortex">>)>>},
     config : {NoConfig, Kconfig({"CPU_V7"}), Kconfig({"CPU_MIPS32_R2", "64BIT"}), Kconfig({"SMP"})},
     elf : {Elf("none", 0), Elf("EM_MIPS", 5), Elf("EM_MIPS", 9), Elf("EM_ARM", 0)},
     type : {{"data"}, {"ARM", "32-bit", "LSB"}, {"MIPS", "MIPS32", "MSB"}, {"x86", "x86-64"}}]
ElfFiles == [parsed : BOOLEAN, modinfo : {None, "lines", "undecodable"},
             entries : {{"header", "other"}}, libraries : {{"libssl"}}, functions : {{"RSA_sign"}}]

\* Every source that knows an architecture is named once, a device tree before a
\* configuration before the program before the type of the file, and the hardware
\* analysis reports the first, whatever became of elf_analysis. A MIPS program of a
\* release without a name is listed under the empty name, and ARM64_PAN and
\* ARM64_LSE_ATOMICS alone name no architecture.
ASSUME SourcesAreOrdered ==
    /\ \A fo \in ArchInputs, file \in ElfFiles :
            LET cpu == cpu_architecture(fo)
                elf == elf_analysis(file, [crypto |-> {"rsa"}], {<<"rsa", "RSA_sign">>})
                hw == hardware_analysis(cpu, elf, fo.config)
                Rank(n) == CASE cpu.architectures[n] = "DeviceTree" -> 1
                             [] cpu.architectures[n] \in {"Kconfig arm", "Kconfig mips"} -> 2
                             [] cpu.architectures[n] = "ELF" -> 3
                             [] OTHER -> 4
            IN  /\ (cpu = Raises) =
                        (fo.trees[1].nodes \in {<<"bare", "no cpu">>, <<"refused">>})
                /\ (elf = Failed) = (~ file.parsed \/ file.modinfo = "undecodable")
                /\ cpu # Raises =>
                    /\ \A i, j \in DOMAIN cpu.summary :
                            i < j => /\ cpu.summary[i] # cpu.summary[j]
                                     /\ Rank(cpu.summary[i]) <= Rank(cpu.summary[j])
                    /\ ({} \in ToSet(cpu.summary)) = (fo.elf.machine = "EM_MIPS" /\ fo.elf.arch = 9)
                    /\ cpu.besides = {n \in DOMAIN cpu.architectures : "(M)" \in n}
                    /\ (hw.arch = {}) = (cpu.summary = << >>)
                    /\ \A a \in hw.arch, n \in DOMAIN cpu.architectures : Rank(a) <= Rank(n)
                    /\ hw.modinfo = (file.parsed /\ file.modinfo = "lines")
    /\ \A o \in {"ARM64_PAN", "ARM64_LSE_ATOMICS"} : FromKconfig(Kconfig({o})) = << >>

Report(k, v) == [j \in DOMAIN Mitigations |-> IF j = k THEN v ELSE "no"]

\* A mitigation is stated if checksec says something known about it, and that of a
\* program that cannot be PIE is stated in any case.
ASSUME MitigationsAreStated ==
    \A k \in DOMAIN Mitigations, v \in {"yes", "no", "full", "partial", "dso", "odd"} :
        LET fo == [elf |-> TRUE, code |-> 0, report |-> Report(k, v)]
            found == exploit_mitigations(fo).found
        IN  /\ DOMAIN Mitigations \ {k} \subseteq DOMAIN found
            /\ k \in DOMAIN found <=> k = "pie" \/ v \in DOMAIN Mitigations[k]
            /\ v = "yes" /\ k \notin {"relro", "symbols"} => found[k] = "enabled"
            /\ v = "odd" /\ k = "pie" => found[k] = "invalid ELF file"
            /\ exploit_mitigations([fo EXCEPT !.report = [j \in {"nx"} |-> v]]) = Raises
            /\ exploit_mitigations([fo EXCEPT !.code = 1]) = Failed

Warnings == {[name |-> n, version |-> v, description |-> d] :
                n \in {"CWE-676", "CWE-415"}, v \in {None, "0.2"}, d \in 1..2}
Issues == {[symbol |-> n, line |-> l] : n \in 1..2, l \in 1..2}

\* Grouping loses no warning, and sorting no issue.
ASSUME ReportsAreComplete ==
    /\ \A warnings \in UNION {[1..n -> Warnings] : n \in 0..3} :
            LET full == cwe_checker([supported |-> TRUE, output |-> "json",
                                     warnings |-> warnings]).full
            IN  \A n \in {w.name : w \in ToSet(warnings)} :
                    /\ full[n].warnings =
                            LET hits == SelectSeq(warnings, LAMBDA w : w.name = n)
                            IN  [i \in DOMAIN hits |-> hits[i].description]
                    /\ full[n].plugin_version \in
                            {w.version : w \in {x \in ToSet(warnings) : x.name = n}}
    /\ \A issues \in UNION {[1..n -> Issues] : n \in 0..3}, l \in {None, "perl", "lua"} :
            LET result == source_code_analysis([container |-> "ok", language |-> l,
                                                issues |-> issues])
            IN  IF l \in Linters
                THEN /\ \A i \in Issues : Cardinality({j \in DOMAIN issues : issues[j] = i})
                            = Cardinality({j \in DOMAIN result.full : result.full[j] = i})
                     /\ \A i, j \in DOMAIN result.full :
                            i < j => result.full[i].symbol <= result.full[j].symbol
                ELSE result.warning /\ result.full = << >>

-----------------------------------------------------------------------------
LeakPath(path, artifacts, directory, history) ==
    [path |-> path, files |-> artifacts, directory |-> directory, history |-> history]
LeakPaths == {LeakPath("/.git/config", {"git_config"}, "git_repository", FALSE),
              LeakPath("/a/.git/config", {"git_config"}, "git_repository", FALSE),
              LeakPath("/.git/HEAD", {}, "git_repository", FALSE),
              LeakPath("/root/.git/my_history", {}, "git_repository", TRUE),
              LeakPath("/root/.ash_history", {}, None, TRUE), LeakPath("/etc/fstab", {}, None, FALSE)}

\* Each path is listed for the most specific thing it gives away, unless a later
\* path gives away the same.
ASSUME LeaksAreListed ==
    \A paths \in UNION {[1..n -> LeakPaths] : n \in 0..3} :
        LET leaks == information_leaks([mime |-> "text/plain", paths |-> paths], << >>)
            Kind(p) == IF p.files # {} THEN "git_config"
                       ELSE IF p.directory # None THEN p.directory
                       ELSE IF p.history THEN "any_history" ELSE None
        IN  /\ leaks.summary = {Kind(p) : p \in ToSet(paths)} \ {None}
            /\ \A i \in DOMAIN paths :
                    Kind(paths[i]) # None =>
                        \/ leaks.found[Kind(paths[i])] = paths[i].path
                        \/ \E j \in DOMAIN paths : j > i /\ Kind(paths[j]) = Kind(paths[i])

Uris == {"http://router/get", "http://w3.org", "http://x"}
Addresses == {"127.0.0.1", "10.1.1.1"}

\* interesting_uris takes the list of ip_and_uri_finder to pieces, but what it
\* finds on the rest is what it found on the whole.
ASSUME InterestingStays ==
    \A uris \in SUBSET Uris, ips \in SUBSET Addresses :
        LET finder == ip_and_uri_finder(
                        [uris |-> SetToSeq(uris) \o SetToSeq(uris), ips_v4 |-> SetToSeq(ips),
                         ips_v6 |-> << >>], {"127.0.0.1"}, [ip \in Addresses |-> ""])
            Filtered(summary) == interesting_uris(summary, Addresses, {"http://w3.org"},
                                                  {"http://router/get"})
            first == Filtered(finder.summary)
        IN  /\ first.summary = uris \cap {"http://router/get"}
            /\ Filtered(first.summaryOfFinder) = first
            /\ finder.ips_v4 = {<<ip, "">> : ip \in ips \ {"127.0.0.1"}}

\* Files are hashed and compared in any order, but each is hashed, and its hash
\* stored, before it is compared: of two similar files at least one lists the other.
SimilarEvents == {"hash", "tlsh"} \X {"a", "b", "c"}
Orders ==
    {o \in [1..6 -> SimilarEvents] :
        /\ ToSet(o) = SimilarEvents
        /\ \A f \in {"a", "b", "c"} : \E i, j \in 1..6 :
                i < j /\ o[i] = <<"hash", f>> /\ o[j] = <<"tlsh", f>>}
TlshOf == [a |-> 0, b |-> 100, c |-> 200]
MCDistance == [p \in {0, 100, 200} \X {0, 100, 200} |->
                IF p[1] < p[2] THEN p[2] - p[1] ELSE p[1] - p[2]]

ASSUME SimilarFilesAreFound ==
    \A o \in Orders :
        LET stored(i) == [f \in {g \in DOMAIN TlshOf : \E j \in 1..(i - 1) : o[j] = <<"hash", g>>}
                            |-> TlshOf[f]]
            Lists(f) == LET i == CHOOSE j \in 1..6 : o[j] = <<"tlsh", f>>
                        IN  tlsh_similar(f, {TlshOf[f]}, stored(i), MCDistance)
        IN  \A f, g \in DOMAIN TlshOf :
                f # g => /\ (g \in Lists(f) \/ f \in Lists(g)) <=> {f, g} # {"a", "c"}
                         /\ f \notin Lists(f)
=============================================================================
