-------------------------- MODULE DependencyGraph --------------------------
(***************************************************************************)
(* The graph of the programs and libraries in a file system, as            *)
(* web_interface/components/dependency_graph.py builds it.                 *)
(*                                                                         *)
(* A path in the file system is a sequence of names; a virtual path of a   *)
(* file is [container, path], container being its last container.  A file  *)
(* is [uid, paths, mime, link, libraries]: the virtual paths under each    *)
(* root, for a symbolic link where it points to, and the libraries of the  *)
(* analysis elf_analysis, or NoElfAnalysis.                                *)
(***************************************************************************)
EXTENDS Integers, Sequences, SequencesExt

NoElfAnalysis == <<"no elf_analysis">>
Symlink == "inode/symlink"
whitelist == {"application/x-executable", "application/x-pie-executable",
              "application/x-sharedlib", Symlink}

Node(file, path) ==
    [label |-> path, entity |-> file.uid, group |-> file.mime, link |-> file.link,
     libraries |-> IF file.libraries = NoElfAnalysis THEN << >> ELSE file.libraries,
     missing |-> file.libraries = NoElfAnalysis]

\* Only what is directly in the container that is looked at becomes a node.
create_data_graph_nodes(data, parent, root) ==
    LET NodesOf(file) ==
            IF file.mime \notin whitelist \/ root \notin DOMAIN file.paths THEN << >>
            ELSE LET here == SelectSeq(file.paths[root], LAMBDA p : p.container = parent)
                 IN  [i \in DOMAIN here |-> Node(file, here[i].path)]
    IN  FoldLeft(LAMBDA nodes, file : nodes \o NodesOf(file), << >>, data)

groups(data, root) ==
    {file.mime : file \in {f \in ToSet(data) : f.mime \in whitelist /\ root \in DOMAIN f.paths}}

Edge(from, to) == [from |-> from, to |-> to]

\* os.path.normpath of an absolute path.
normpath(path) ==
    FoldLeft(LAMBDA p, name : IF name = ".." THEN (IF p = << >> THEN p ELSE Front(p))
                              ELSE IF name = "." THEN p ELSE Append(p, name),
             << >>, path)

\* Only a relative target is normalised.
link_target(node) ==
    IF node.link.absolute THEN node.link.path ELSE normpath(Front(node.label) \o node.link.path)

create_symbolic_link_edges(nodes) ==
    {e \in [from : DOMAIN nodes, to : DOMAIN nodes] :
        /\ nodes[e.from].group = Symlink
        /\ nodes[e.to].label = link_target(nodes[e.from])}

\* The first node whose file has the name of the library.
find_edges(nodes, i, library) ==
    LET found == {j \in DOMAIN nodes : Last(nodes[j].label) = library}
    IN  {Edge(i, j) : j \in {j \in found : \A k \in found : j <= k}}

create_data_graph_edges(nodes) ==
    create_symbolic_link_edges(nodes)
    \cup UNION {UNION {find_edges(nodes, i, library) : library \in ToSet(nodes[i].libraries)} :
                i \in DOMAIN nodes}

elf_analysis_missing_from_files(nodes) == Len(SelectSeq(nodes, LAMBDA n : n.missing))
=============================================================================
