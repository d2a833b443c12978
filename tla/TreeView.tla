------------------------------ MODULE TreeView ------------------------------
(***************************************************************************)
(* The file tree of the analysis page: the layer below one file, built     *)
(* from the virtual paths of its children (file_tree.py) by merging the    *)
(* chains of directories they give (file_tree_node.py).                    *)
(*                                                                         *)
(* The database of QueryConversion has in addition                         *)
(*   parents   uids of the containers the file was unpacked from           *)
(*   paths     its virtual paths [root, containers, names]: the containers *)
(*             from the image to the parent, then directories and the name *)
(*   size      of the file                                                 *)
(***************************************************************************)
EXTENDS QueryConversion

IncludedFiles(db, uid) == {u \in DOMAIN db : uid \in db[u].parents}

-----------------------------------------------------------------------------
(* Paths *)

\* _find_root_uid: some image whose paths contain the parent.
FindRootUid(db, parent, u) ==
    LET candidates == {p.root : p \in {q \in db[u].paths : Contains(q.containers, parent)}}
    IN  IF candidates # {} THEN CHOOSE r \in candidates : TRUE
        ELSE CHOOSE r \in {p.root : p \in db[u].paths} : TRUE

\* The part of a path that begins with a container.
VpathRelativeTo(path, uid) ==
    [path EXCEPT !.containers = SubSeq(@, CHOOSE i \in DOMAIN @ : @[i] = uid, Len(@))]
PartialVirtualPaths(db, u, root) ==
    LET inside == {VpathRelativeTo(p, root) : p \in {q \in db[u].paths : Contains(q.containers, root)}}
    IN  IF inside # {} THEN inside ELSE {[root |-> root, containers |-> <<root>>, names |-> <<>>]}

\* The tree is for an image, or for a file that is looked at on its own.
VirtualFilePaths(db, u, root) ==
    IF \E p \in db[u].paths : p.root = root THEN {p \in db[u].paths : p.root = root}
    ELSE PartialVirtualPaths(db, u, root)

-----------------------------------------------------------------------------
(* Nodes *)

\* Mutant: a directory has the id of a file of that name.
GetName(name, virtual) == <<name>>

\* get_id: directories are virtual.
GetId(name, virtual) == <<name, virtual>>

\* The chain of nodes of a path: directories, then the file, which without a path
\* has its own name.
Chain(db, u, path) ==
    LET names == IF path.names = <<>> THEN <<db[u].name>> ELSE path.names
    IN  [i \in DOMAIN names |-> GetId(names[i], i < Len(names))]
GetFileTreeNodes(db, u, root, parent) ==
    {[uid |-> u, ids |-> Chain(db, u, p)] : p \in {q \in VirtualFilePaths(db, u, root) : Last(q.containers) = parent}}

\* add_child_node and merge_node: the tree maps the ids from the top to a uid, none for
\* directories; what is there already stays.
Directory == "none"
AddChildNode(tree, node) ==
    LET new == {SubSeq(node.ids, 1, i) : i \in DOMAIN node.ids} \ DOMAIN tree
    IN  [ids \in DOMAIN tree \cup new |->
            IF ids \in DOMAIN tree THEN tree[ids] ELSE IF ids = node.ids THEN node.uid ELSE Directory]

\* generate_file_tree_nodes_for_uid_list, for the children in some order of rows
Layer(db, uid, root, whitelist) ==
    UNION {GetFileTreeNodes(db, u, IF root = "none" THEN FindRootUid(db, uid, u) ELSE root, uid) :
              u \in IncludedFiles(db, uid) \cap whitelist}
GenerateFileTree(nodes) == FoldSeq(LAMBDA node, tree : AddChildNode(tree, node), <<>>, nodes)

\* ajax_get_tree_root: the node of the file itself, without the directories above it.
TreeRoot(db, uid, path) == (<<Last(Chain(db, uid, path))>> :> uid)

HasChildren(db, u, whitelist) == IncludedFiles(db, u) \cap whitelist # {}

\* The files a layer shows.
Shown(tree) == {tree[ids] : ids \in DOMAIN tree} \ {Directory}
=============================================================================
