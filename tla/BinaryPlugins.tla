--------------------------- MODULE BinaryPlugins ---------------------------
(***************************************************************************)
(* What the analysis plugins for programs and other single files compute,  *)
(* and what one of them reads of the results of another: the device trees, *)
(* the architecture, the hardware, the ELF data, the mitigations, the      *)
(* weaknesses, leaked information, addresses, hashes and scripts.          *)
(*                                                                         *)
(* External: dtc, lief, pyelftools, checksec, cwe_checker, linguist and    *)
(* the linters.  Failed is a result that says so: the plugins that depend  *)
(* on it run.  Raises is an exception that leaves the plugin.              *)
(***************************************************************************)
EXTENDS PluginRules

Raises == [t |-> "exception"]

-----------------------------------------------------------------------------
(* device_tree.  A file is [size, magics, tree]: the offsets of the magic  *)
(* word, and what the compiler makes of the data there, or None.           *)

HEADER_SIZE == 40
HeaderFields == 9

\* The search goes on after the header; its nine words follow the magic word.
dump_device_trees(file) ==
    LET Visit(s, p) == IF p < s.next THEN s
                       ELSE [next |-> p + HEADER_SIZE, seen |-> Append(s.seen, p)]
        seen == FoldLeft(Visit, [next |-> 0, seen |-> << >>], SetToSortSeq(file.magics, <)).seen
        WordsAt(p) == (file.size - p - 1) \div 4
    IN  IF \E i \in DOMAIN seen : WordsAt(seen[i]) < HeaderFields THEN Raises
        ELSE [t |-> "ok", trees |->
                SelectSeq([i \in DOMAIN seen |-> file.tree[seen[i]] @@ [offset |-> seen[i]]],
                          LAMBDA tree : tree.t # None)]

device_tree(file) ==
    LET dumped == dump_device_trees(file)
    IN  IF dumped = Raises THEN Raises
        ELSE [t |-> "device_tree", trees |-> dumped.trees,
              summary |-> {tree.model : tree \in ToSet(dumped.trees)} \ {None},
              tags |-> IF dumped.trees = << >> THEN {}
                       ELSE add_analysis_tag({}, "device_tree", "device tree", FALSE)]

-----------------------------------------------------------------------------
(* cpu_architecture.  The name of an architecture is the set of the words  *)
(* it is put together from.  Each source gives pairs <<name, means>>, in   *)
(* the order in which they get into the dictionary.                        *)

\* The nodes a tree has on its top level: "other", "no cpu" (cpus without cpu@),
\* "bare" (a cpu without compatible), else what the first cpu is compatible with.
\* A tree that dtc refuses is <<"refused">>.
get_compatible_entry(nodes) ==
    LET cpus == SelectSeq(nodes, LAMBDA n : n \notin {"other", "bare"})
    IN  IF cpus = << >> THEN None ELSE Head(cpus)

FromDeviceTrees(trees) ==
    LET entries == [i \in DOMAIN trees |-> get_compatible_entry(trees[i].nodes)]
        found == SelectSeq(entries, LAMBDA e : e # None)
    IN  IF {"no cpu", "refused"} \cap ToSet(entries) # {} THEN Raises
        ELSE [t |-> "ok", pairs |-> [i \in DOMAIN found |-> <<{found[i]}, "DeviceTree">>]]

ArmOptions ==
    [armv4 |-> {"ARCH_MULTI_V4", "ARCH_MULTI_V4T"}, armv5 |-> {"ARCH_MULTI_V5"},
     armv6 |-> {"CPU_V6", "CPU_V6K", "ARCH_MULTI_V6"},
     armv7 |-> {"CPU_V7", "CPU_V7M", "ARCH_MULTI_V7"},
     armv8 |-> {"ARM64_HW_AFDBM", "ARM64_PANARM64_LSE_ATOMICS", "ARM64_USE_LSE_ATOMICS",
                "ARM64_VHE", "ARM64_UAO", "ARM64_PMEM", "ARM64_RAS_EXTN", "ARM64_CNP",
                "ARM64_PTR_AUTH", "ARM64_AMU_EXTN", "ARM64_TLB_RANGE", "ARM64_BTI",
                "ARM64_BTI_KERNEL", "ARM64_E0PD", "ARCH_RANDOM"},
     bits64 |-> {"ARM64", "64BIT"}]
MipsOptions ==
    [mips_v1 |-> {"CPU_MIPS32_R1", "CPU_MIPS64_R1", "CPU_MIPSR1"},
     mips_v2 |-> {"CPU_MIPS32_R2", "CPU_MIPS64_R2", "CPU_MIPSR2"},
     mips_v5 |-> {"CPU_MIPS32_R5", "CPU_MIPS64_R5", "CPU_MIPSR5"},
     mips_v6 |-> {"CPU_MIPS32_R6", "CPU_MIPS64_R6", "CPU_MIPSR6"},
     bits64 |-> {"CPU_MIPS64_R1", "CPU_MIPS64_R2", "CPU_MIPS64_R5", "CPU_MIPS64_R6"}]

\* config: [t, set, other], the options set to y and the other lines without the
\* comments, or NoConfig.
NoConfig == [t |-> None]
kconfig_contains(config, options) == config \cap options # {}
FromOptions(config, table, means) ==
    LET words == {v \in DOMAIN table : kconfig_contains(config, table[v])}
    IN  IF words = {} THEN << >> ELSE << <<words, means>> >>

FromKconfig(config) ==
    IF config = NoConfig THEN << >>
    ELSE FromOptions(config.set, ArmOptions, "Kconfig arm")
            \o FromOptions(config.set, MipsOptions, "Kconfig mips")

\* The values of the bits EF_MIPS_ARCH from zero; a later release has no name.
MipsIsa == <<"MIPS I", "MIPS II", "MIPS III", "MIPS IV", "MIPS V", "MIPS 32bit",
             "MIPS 64bit", "MIPS 32bit R2", "MIPS 64bit R2">>
ArmTags == {"TAG_CPU_ARCH", "TAG_CPU_NAME", "TAG_CPU_ARCH_PROFILE"}

FromElf(elf) ==
    CASE elf.machine = "EM_MIPS" ->
            << <<{MipsIsa[i] : i \in {elf.arch + 1} \cap DOMAIN MipsIsa}, "ELF">> >>
      [] elf.machine = "EM_ARM" /\ elf.hasAttributes ->
            << <<{a.descr : a \in {b \in elf.attributes : b.tag \in ArmTags}}, "ELF">> >>
      [] OTHER -> << >>

\* The first row with a marker that occurs in the type of the file.
Architectures ==
    << <<"ARC", {"ARC Cores"}>>, <<"ARM", {"ARM"}>>, <<"AVR", {"Atmel AVR"}>>,
       <<"PPC", {"PowerPC", "PPC"}>>, <<"MIPS", {"MIPS"}>>, <<"x86", {"x86", "80386", "80486"}>>,
       <<"SPARC", {"SPARC"}>>, <<"RISC-V", {"RISC-V"}>>,
       <<"RISC", {"RISC", "RS6000", "80960", "80860"}>>, <<"S/390", {"IBM S/390"}>>,
       <<"SuperH", {"Renesas SH"}>>, <<"ESP", {"Tensilica Xtensa"}>>, <<"Alpha", {"Alpha"}>>,
       <<"M68K", {"m68k", "68020"}>>, <<"Tilera", {"TILE-Gx", "TILE64", "TILEPro"}>> >>
Bitness ==
    << <<"8-bit", {"8-bit"}>>, <<"16-bit", {"16-bit"}>>,
       <<"32-bit", {"32-bit", "PE32", "MIPS32"}>>,
       <<"64-bit", {"64-bit", "aarch64", "x86-64", "MIPS64", "80860"}>> >>
Endianness ==
    << <<"little endian", {"LSB", "80386", "80486", "x86"}>>, <<"big endian", {"MSB"}>> >>

search_for_arch_keys(type, table) ==
    LET rows == SelectSeq(table, LAMBDA row : row[2] \cap type # {})
    IN  IF rows = << >> THEN {} ELSE {Head(rows)[1]}

FromMetadata(type) ==
    LET name == search_for_arch_keys(type, Architectures)
    IN  IF name = {} THEN << >>
        ELSE << <<name \cup search_for_arch_keys(type, Bitness)
                    \cup search_for_arch_keys(type, Endianness) \cup {"(M)"},
                  "Detection based on meta data">> >>

\* The dictionary keeps the place of the first and the means of the last of two
\* pairs with one name; what the meta data give is set in the result itself, too.
cpu_architecture(fo) ==
    LET dt == FromDeviceTrees(fo.trees)
        pairs == dt.pairs \o FromKconfig(fo.config) \o FromElf(fo.elf) \o FromMetadata(fo.type)
        Name(s, p) == IF p[1] \in ToSet(s) THEN s ELSE Append(s, p[1])
        last(n) == CHOOSE i \in DOMAIN pairs :
                        pairs[i][1] = n /\ \A j \in DOMAIN pairs : pairs[j][1] = n => j <= i
        names == FoldLeft(Name, << >>, pairs)
    IN  IF dt = Raises THEN Raises
        ELSE [t |-> "cpu", summary |-> names,
              architectures |-> [n \in ToSet(names) |-> pairs[last(n)][2]],
              besides |-> {p[1] : p \in ToSet(FromMetadata(fo.type))}]

-----------------------------------------------------------------------------
(* elf_analysis, exploit_mitigations, cwe_checker.                         *)

\* fo.parsed: lief makes sense of the file; fo.modinfo: None, lines or "undecodable".
\* A file that cannot be parsed gives an empty dictionary instead of a pair.
analyze_elf(fo) ==
    IF ~ fo.parsed \/ fo.modinfo = "undecodable" THEN ValueError
    ELSE [t |-> "ok", output |-> {k \in fo.entries : k # "other"}
                                    \cup (IF fo.modinfo = None THEN {} ELSE {"modinfo"})]

\* Like: the pairs of an indicator and a function or library similar enough.
get_tags(libraries, functions, classes, Like) ==
    {c \in DOMAIN classes : \E i \in classes[c], x \in libraries \cup functions : <<i, x>> \in Like}

elf_analysis(fo, classes, Like) ==
    LET analyzed == analyze_elf(fo)
    IN  IF Raised(analyzed) THEN Failed
        ELSE [t |-> "elf", output |-> analyzed.output, summary |-> analyzed.output,
              tags |-> get_tags(fo.libraries, fo.functions, classes, Like)]

YesNo == [yes |-> "enabled", no |-> "disabled"]
Mitigations ==
    [relro |-> [full |-> "fully enabled", partial |-> "partially enabled", no |-> "disabled"],
     nx |-> YesNo, canary |-> YesNo, pie |-> YesNo @@ [dso |-> "DSO", rel |-> "REL"],
     fortify_source |-> YesNo, clangcfi |-> YesNo, safestack |-> YesNo,
     symbols |-> [yes |-> "disabled", no |-> "enabled"], runpath |-> YesNo, rpath |-> YesNo]

check_mitigations(report) ==
    LET known == {k \in DOMAIN Mitigations : report[k] \in DOMAIN Mitigations[k]}
    IN  [k \in known \cup {"pie"} |->
            IF k \in known THEN Mitigations[k][report[k]] ELSE "invalid ELF file"]

\* report: what checksec prints, or "error"; an entry it lacks is a KeyError.
exploit_mitigations(fo) ==
    CASE ~ fo.elf -> [t |-> "mitigations", found |-> << >>]
      [] fo.elf /\ fo.code # 0 -> Failed
      [] fo.elf /\ fo.code = 0 /\ ~ DOMAIN Mitigations \subseteq DOMAIN fo.report -> Raises
      [] OTHER -> [t |-> "mitigations", found |-> check_mitigations(fo.report)]

\* The version of a check is the first one that is given.
parse_cwe_checker_output(warnings) ==
    [n \in {w.name : w \in ToSet(warnings)} |->
        LET hits == SelectSeq(warnings, LAMBDA w : w.name = n)
            versions == SelectSeq(hits, LAMBDA w : w.version # None)
        IN  [plugin_version |-> IF versions = << >> THEN None ELSE Head(versions).version,
             warnings |-> [i \in DOMAIN hits |-> hits[i].description]]]

\* A container that runs too long raises, it does not return None.
cwe_checker(fo) ==
    CASE ~ fo.supported -> [t |-> "cwe", full |-> << >>]
      [] fo.supported /\ fo.output = "timeout" -> Raises
      [] fo.supported /\ fo.output = "not json" -> Failed
      [] OTHER -> [t |-> "cwe", full |-> parse_cwe_checker_output(fo.warnings)]

-----------------------------------------------------------------------------
(* information_leaks.  A virtual path is [path, files, directory, history]:*)
(* the artifacts whose names it ends with, the one its directory stands    *)
(* for, and whether it ends like the history of a shell.                   *)

check_file_path(p) ==
    CASE p.files # {} -> p.files
      [] p.files = {} /\ p.directory # None -> {p.directory}
      [] OTHER -> IF p.history THEN {"any_history"} ELSE {}

\* Of two paths with one artifact the later replaces the earlier.
find_artifacts(paths) ==
    LET Later(result, p) ==
            [a \in DOMAIN result \cup check_file_path(p) |->
                IF a \in check_file_path(p) THEN p.path ELSE result[a]]
    IN  FoldLeft(Later, << >>, paths)

\* found: what each expression for paths matches; Parent: the directory of a file.
information_leaks(fo, Parent) ==
    IF fo.mime = "text/plain"
    THEN LET found == find_artifacts(fo.paths) IN [found |-> found, summary |-> DOMAIN found]
    ELSE LET labels == {l \in DOMAIN fo.found : fo.found[l] # {}}
         IN  [found |-> [l \in labels |-> fo.found[l]],
              summary |-> {Parent[p] : p \in UNION {fo.found[l] : l \in labels}}]

-----------------------------------------------------------------------------
(* ip_and_uri_finder and interesting_uris, which works on the list of the  *)
(* other: what it removes is gone from the result the task carries on,     *)
(* although not from the one that was stored before.                       *)

\* Geo: the location of an address, "" where there is none or no database.
ip_and_uri_finder(found, Trivial, Geo) ==
    LET ips(key) == ToSet(found[key]) \ Trivial
    IN  [uris |-> ToSet(found.uris),
         ips_v4 |-> {<<ip, Geo[ip]>> : ip \in ips("ips_v4")},
         ips_v6 |-> {<<ip, Geo[ip]>> : ip \in ips("ips_v6")},
         summary |-> ToSet(found.uris) \cup ips("ips_v4") \cup ips("ips_v6")]

interesting_uris(summary, Address, Boring, Interesting) ==
    LET rest == summary \ (Address \cup Boring)
    IN  [summary |-> rest \cap Interesting, summaryOfFinder |-> rest]

-----------------------------------------------------------------------------
(* tlsh, on what file_hashes found.                                        *)

MaxDistance == 150

\* hash: the tlsh hash of the file, none for a file that is too small; stored: those
\* in the database at this time.
tlsh_similar(uid, hash, stored, Distance) ==
    {u \in DOMAIN stored \ {uid} : \E h \in hash : Distance[<<h, stored[u]>>] <= MaxDistance}

-----------------------------------------------------------------------------
(* source_code_analysis and hardware_analysis.                             *)

Linters == {"javascript", "lua", "python", "ruby", "shell", "php"}

\* What linguist says goes into the result of file_type that the task carries.
source_code_analysis(fo) ==
    CASE fo.container = "fails" -> Raises
      [] fo.container # "fails" /\ fo.language \notin Linters ->
            [t |-> "lint", full |-> << >>, warning |-> TRUE, linguist |-> TRUE]
      [] OTHER -> [t |-> "lint", full |-> SortSeq(fo.issues, LAMBDA a, b : a.symbol < b.symbol),
                   warning |-> FALSE, linguist |-> TRUE]

hardware_analysis(cpu, elf, config) ==
    LET arch == IF cpu.summary = << >> THEN {} ELSE {Head(cpu.summary)}
        modinfo == elf # Failed /\ elf.t = "elf" /\ "modinfo" \in elf.output
    IN  [t |-> "hardware", arch |-> arch, modinfo |-> modinfo,
         config |-> IF config = NoConfig THEN {} ELSE config.set \cup config.other,
         summary |-> (IF arch = {} THEN {} ELSE {"arch"})
                        \cup (IF modinfo THEN {"modinfo"} ELSE {})
                        \cup (IF config = NoConfig THEN {} ELSE {"config"})]
=============================================================================
